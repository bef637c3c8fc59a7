---------------------------- MODULE ScoresProofs ----------------------------
(***************************************************************************)
(* Theorems about Boards, whatever totals its lineups come out with, and   *)
(* about Scores, which computes them and validates lineups: for any worlds *)
(* and any number of users, leagues and weeks.                             *)
(***************************************************************************)
EXTENDS Scores, OptimalLineupProofs

-----------------------------------------------------------------------------
(* A roster's week has one row for each user. *)
LEMMA WeekHasRows ==
    ASSUME BoardsTypeOK, NEW at
    PROVE  Rows(OfRoster(results, at))
  <1> DEFINE week == OfRoster(results, at)
  <1>1. week \in SUBSET results
    BY DEF OfRoster
  <1>2. IsFiniteSet(week) /\ \A r \in week : Totals(r)
    BY <1>1, FS_Subset DEF BoardsTypeOK, Totals
  <1>3. ASSUME NEW r \in week, NEW s \in week, r.user = s.user
        PROVE  r = s
    <2>1. KeyOf(r) = KeyOf(s)
      BY <1>3 DEF OfRoster, KeyOf
    <2>2. QED
      BY <1>1, <2>1 DEF BoardsTypeOK
  <1>4. QED
    BY <1>2, <1>3 DEF Rows

LEMMA MatchesAre ==
    Matches = Matching(OfRoster(results, walk.at), walk.q)
  BY DEF Matches, Matching, Named

(* What the client's queries list, who is on the next page, and where a    *)
(* match is listed.                                                        *)
Listing == MatchingSetters(OfRoster(results, walk.at), walk.q)

NextPage == Page(Listing, walk.limit, walk.offset)

PageSize == SizeOfPage(Cardinality(Matches), walk.limit, walk.offset)

Position(x) == 1 + Cardinality({y \in Matches : SetterOrder(y, x)})

LEMMA MatchesFacts ==
    ASSUME BoardsTypeOK
    PROVE  /\ IsFiniteSet(Matches)
           /\ Cardinality(Matches) \in Nat
           /\ Len(Listing) = Cardinality(Matches)
           /\ \A i \in 1 .. Cardinality(Matches) : Listing[i].user \in Registered
           /\ \A x \in Matches : /\ Position(x) \in 1 .. Cardinality(Matches)
                                /\ Listing[Position(x)].user = x.user
  <1> DEFINE setters == OfRoster(results, walk.at)
             q == walk.q
  <1>1. Rows(setters)
    BY WeekHasRows
  <1>2. Matches = Matching(setters, q) /\ Listing = MatchingSetters(setters, q)
    BY MatchesAre DEF Listing
  <1> HIDE DEF setters, q
  <1>3. /\ IsFiniteSet(Matches)
        /\ Cardinality(Matches) \in Nat
        /\ Len(Listing) = Cardinality(Matches)
    BY <1>1, <1>2, MatchesAreAsMany
  <1>4. DOMAIN Listing = 1 .. Cardinality(Matches)
    BY <1>1, <1>2, MatchesAreInOrder
  <1>5. ASSUME NEW i \in 1 .. Cardinality(Matches)
        PROVE  Listing[i].user \in Registered
    <2>1. i \in DOMAIN MatchingSetters(setters, q)
      BY <1>2, <1>4
    <2>2. \E x \in Matching(setters, q) : MatchingSetters(setters, q)[i].user = x.user
      BY <1>1, <2>1, MatchesKeepTheirRanks
    <2>3. QED
      BY <1>2, <2>2 DEF Matching, Named
  <1>6. ASSUME NEW x \in Matches
        PROVE  Position(x) \in 1 .. Cardinality(Matches) /\ Listing[Position(x)].user = x.user
    <2>1. Position(x) = 1 + Cardinality({y \in Matching(setters, q) : SetterOrder(y, x)})
      BY <1>2 DEF Position
    <2>2. LET i == 1 + Cardinality({y \in Matching(setters, q) : SetterOrder(y, x)})
          IN  /\ i \in 1 .. Cardinality(Matching(setters, q))
              /\ MatchingSetters(setters, q)[i].user = x.user
      BY <1>1, <1>2, MatchesAreInOrder
    <2>3. QED
      BY <1>2, <2>1, <2>2
  <1>7. QED
    BY <1>3, <1>5, <1>6

-----------------------------------------------------------------------------
(* The lineup being graded has no row yet: the upsert inserts one. *)
LEMMA UpsertInserts ==
    ASSUME BoardsTypeOK, NotYetGraded,
           NEW user \in Int, NEW official \in Int, NEW optimal \in Int,
           EndGrade(user, official, optimal)
    PROVE  LET r == WeekResult(grading, user, official, optimal)
           IN  /\ results' = results \cup {r}
               /\ grading \in world.lineups
               /\ KeyOf(r) = KeyOf(grading)
               /\ \A s \in results : KeyOf(s) # KeyOf(r)
               /\ {r.userTotal, r.officialTotal, r.optimalTotal} \subseteq Int
               /\ r.result \in {"user", "official", "tie"}
  <1> DEFINE r == WeekResult(grading, user, official, optimal)
  <1>1. KeyOf(r) = KeyOf(grading)
    BY DEF KeyOf, WeekResult
  <1>2. r.userTotal = user /\ r.officialTotal = official /\ r.optimalTotal = optimal
    BY DEF WeekResult
  <1>3. r.result \in {"user", "official", "tie"}
    <2>1. r.result = GradeWeek(user, official, optimal).result
      BY DEF WeekResult
    <2>2. GradeWeek(user, official, optimal).result \in {"user", "official", "tie"}
      BY DEF GradeWeek
    <2>3. QED
      BY <2>1, <2>2
  <1>4. \A s \in results : KeyOf(s) # KeyOf(r)
    BY <1>1 DEF NotYetGraded, EndGrade
  <1>5. results' = {s \in results : KeyOf(s) # KeyOf(r)} \cup {r}
    BY Zenon DEF EndGrade, UpsertWeekResult
  <1>6. grading \in world.lineups
    BY DEF EndGrade, AtRest, BoardsTypeOK
  <1> HIDE DEF r
  <1>7. results' = results \cup {r}
    BY <1>4, <1>5
  <1>8. QED
    BY <1>1, <1>2, <1>3, <1>4, <1>6, <1>7 DEF r

ResultsOK ==
    /\ IsFiniteSet(results)
    /\ {KeyOf(r) : r \in results} \subseteq {KeyOf(l) : l \in world.lineups}
    /\ \A r, s \in results : KeyOf(r) = KeyOf(s) => r = s
    /\ \A r \in results : /\ {r.userTotal, r.officialTotal, r.optimalTotal} \subseteq Int
                          /\ r.result \in {"user", "official", "tie"}

WalkOK ==
    walk # NoWalk => \E ask \in world.asks :
        walk \in [at : {ask.at}, q : {ask.q}, limit : {ask.limit}, offset : Nat,
                 phase : {"baseline", "setters", "done"},
                 there : SUBSET Registered, seen : SUBSET Registered]

LEMMA EndGradeTyped ==
    ASSUME BoardsTypeOK, NotYetGraded,
           NEW user \in Int, NEW official \in Int, NEW optimal \in Int,
           EndGrade(user, official, optimal)
    PROVE  ResultsOK'
  <1> DEFINE r == WeekResult(grading, user, official, optimal)
  <1>1. /\ results' = results \cup {r}
        /\ grading \in world.lineups
        /\ KeyOf(r) = KeyOf(grading)
        /\ \A s \in results : KeyOf(s) # KeyOf(r)
        /\ {r.userTotal, r.officialTotal, r.optimalTotal} \subseteq Int
        /\ r.result \in {"user", "official", "tie"}
    BY UpsertInserts
  <1>2. world' = world
    BY DEF EndGrade
  <1> HIDE DEF r
  <1>3. IsFiniteSet(results')
    BY <1>1, FS_AddElement DEF BoardsTypeOK
  <1>4. \A s \in results' : KeyOf(s) \in {KeyOf(l) : l \in world.lineups}
    BY <1>1 DEF BoardsTypeOK
  <1>5. \A s, t \in results' : KeyOf(s) = KeyOf(t) => s = t
    BY <1>1 DEF BoardsTypeOK
  <1>6. \A s \in results' : /\ {s.userTotal, s.officialTotal, s.optimalTotal} \subseteq Int
                            /\ s.result \in {"user", "official", "tie"}
    BY <1>1 DEF BoardsTypeOK
  <1>7. QED
    BY <1>2, <1>3, <1>4, <1>5, <1>6 DEF ResultsOK, KeyOf

(* The entries of the page the client asks for. *)
LEMMA PageFacts ==
    ASSUME BoardsTypeOK, UnseenAreAhead, walk # NoWalk, walk.phase = "setters"
    PROVE  /\ walk.offset \in Nat
           /\ walk.limit \in Nat \ {0}
           /\ walk.offset <= Cardinality(Matches)
           /\ Len(NextPage) = PageSize
           /\ DOMAIN NextPage = 1 .. PageSize
           /\ \A i \in 1 .. PageSize : NextPage[i] = Listing[walk.offset + i]
           /\ \A i \in DOMAIN NextPage : NextPage[i].user \in Registered
  <1> DEFINE m == Cardinality(Matches)
             limit == walk.limit
             offset == walk.offset
  <1>1. offset \in Nat /\ limit \in Nat \ {0} /\ offset <= m
    BY BoardsAssumption DEF BoardsTypeOK, UnseenAreAhead
  <1>2. m \in Nat /\ Len(Listing) = m
    BY MatchesFacts
  <1>3. PageSize = SizeOfPage(m, limit, offset)
    BY DEF PageSize
  <1>4. NextPage = Page(Listing, limit, offset)
    BY DEF NextPage
  <1> HIDE DEF m, limit, offset
  <1>5. /\ Len(Page(Listing, limit, offset)) = SizeOfPage(m, limit, offset)
        /\ DOMAIN Page(Listing, limit, offset) = 1 .. SizeOfPage(m, limit, offset)
        /\ ShowsFrom(Listing, offset, Page(Listing, limit, offset), SizeOfPage(m, limit, offset))
    BY <1>1, <1>2, PageOf
  <1>6. /\ Len(NextPage) = PageSize
        /\ DOMAIN NextPage = 1 .. PageSize
        /\ \A i \in 1 .. PageSize : NextPage[i] = Listing[offset + i]
    BY <1>3, <1>4, <1>5 DEF ShowsFrom
  <1>7. ASSUME NEW i \in 1 .. PageSize
        PROVE  NextPage[i].user \in Registered
    <2>1. offset + i \in 1 .. m
      BY <1>1, <1>2, <1>3 DEF SizeOfPage
    <2>2. Listing[offset + i].user \in Registered
      BY <2>1, MatchesFacts DEF m
    <2>3. QED
      BY <1>6, <2>2
  <1>8. QED
    BY <1>1, <1>6, <1>7 DEF m, limit, offset

(* What a query of the setters makes of the walk. *)
LEMMA QueryShows ==
    ASSUME BoardsTypeOK, QuerySetters
    PROVE  /\ walk # NoWalk
           /\ walk.phase = "setters"
           /\ walk' = [at |-> walk.at, q |-> walk.q, limit |-> walk.limit,
                       offset |-> walk.offset + walk.limit,
                       phase |-> IF Len(NextPage) < walk.limit THEN "done" ELSE "baseline",
                       there |-> walk.there,
                       seen |-> walk.seen \cup {NextPage[i].user : i \in DOMAIN NextPage}]
  <1>1. walk # NoWalk /\ walk.phase = "setters"
    BY DEF QuerySetters
  <1>2. PICK ask \in world.asks :
          walk \in [at : {ask.at}, q : {ask.q}, limit : {ask.limit}, offset : Nat,
                   phase : {"baseline", "setters", "done"},
                   there : SUBSET Registered, seen : SUBSET Registered]
    BY <1>1 DEF BoardsTypeOK
  <1>3. walk' = [walk EXCEPT !.seen   = @ \cup {NextPage[i].user : i \in DOMAIN NextPage},
                             !.offset = @ + walk.limit,
                             !.phase  = IF Len(NextPage) < walk.limit THEN "done" ELSE "baseline"]
    BY Zenon DEF QuerySetters, NextPage, Listing
  <1>4. QED
    BY <1>1, <1>2, <1>3

LEMMA WalkTyped ==
    ASSUME BoardsTypeOK, UnseenAreAhead, BoardsNext
    PROVE  WalkOK'
  <1>1. CASE \E l \in world.lineups : BeginGrade(l)
    BY <1>1 DEF BeginGrade, BoardsTypeOK, WalkOK
  <1>2. CASE \E user, official, optimal \in Int : EndGrade(user, official, optimal)
    BY <1>2 DEF EndGrade, BoardsTypeOK, WalkOK
  <1>3. CASE AbandonGrade
    BY <1>3 DEF AbandonGrade, BoardsTypeOK, WalkOK
  <1>4. ASSUME NEW ask \in world.asks, BeginWalk(ask)
        PROVE  WalkOK'
    <2>1. Setters(ask.at) \subseteq Registered
      BY DEF Setters
    <2>2. walk' = [at |-> ask.at, q |-> ask.q, limit |-> ask.limit, offset |-> 0, phase |-> "baseline",
                   there |-> Setters(ask.at) \cap ask.q, seen |-> {}]
      BY <1>4 DEF BeginWalk
    <2>3. world' = world
      BY <1>4 DEF BeginWalk
    <2>4. QED
      BY <2>1, <2>2, <2>3 DEF WalkOK
  <1>5. CASE QueryBaseline
    BY <1>5 DEF QueryBaseline, BoardsTypeOK, WalkOK
  <1>6. CASE QuerySetters
    <2>1. world' = world
      BY <1>6 DEF QuerySetters
    <2>2. \A i \in DOMAIN NextPage : NextPage[i].user \in Registered
      BY <1>6, PageFacts, QueryShows
    <2>3. PICK ask \in world.asks :
            walk \in [at : {ask.at}, q : {ask.q}, limit : {ask.limit}, offset : Nat,
                     phase : {"baseline", "setters", "done"},
                     there : SUBSET Registered, seen : SUBSET Registered]
      BY <1>6, QueryShows DEF BoardsTypeOK
    <2>4. ask.limit \in Nat
      BY BoardsAssumption DEF BoardsTypeOK
    <2>5. walk' \in [at : {ask.at}, q : {ask.q}, limit : {ask.limit}, offset : Nat,
                     phase : {"baseline", "setters", "done"},
                     there : SUBSET Registered, seen : SUBSET Registered]
      <3> DEFINE shown == {NextPage[i].user : i \in DOMAIN NextPage}
      <3>1. shown \subseteq Registered
        BY <2>2
      <3>2. walk' = [at |-> walk.at, q |-> walk.q, limit |-> walk.limit,
                     offset |-> walk.offset + walk.limit,
                     phase |-> IF Len(NextPage) < walk.limit THEN "done" ELSE "baseline",
                     there |-> walk.there, seen |-> walk.seen \cup shown]
        BY <1>6, QueryShows
      <3> HIDE DEF shown
      <3>3. QED
        BY <2>3, <2>4, <3>1, <3>2
    <2>6. QED
      BY <2>1, <2>5 DEF WalkOK
  <1>7. QED
    BY <1>1, <1>2, <1>3, <1>4, <1>5, <1>6 DEF BoardsNext

LEMMA BoardsTypeIs ==
    BoardsTypeOK <=> /\ world \in Worlds
                     /\ grading \in world.lineups \cup {NoLineup}
                     /\ ResultsOK
                     /\ WalkOK
  BY DEF BoardsTypeOK, ResultsOK, WalkOK

LEMMA TypeStep ==
    ASSUME BoardsTypeOK, NotYetGraded, UnseenAreAhead, BoardsNext
    PROVE  BoardsTypeOK'
  <1>1. world' = world
    BY DEF BoardsNext, BeginGrade, EndGrade, AbandonGrade, BeginWalk, QueryBaseline, QuerySetters
  <1>2. grading' \in world'.lineups \cup {NoLineup}
    BY DEF BoardsTypeOK, BoardsNext, BeginGrade, EndGrade, AbandonGrade,
           BeginWalk, QueryBaseline, QuerySetters
  <1>3. ResultsOK'
    <2>1. CASE \E user, official, optimal \in Int : EndGrade(user, official, optimal)
      BY <2>1, EndGradeTyped
    <2>2. CASE results' = results
      BY <1>1, <2>2 DEF BoardsTypeOK, ResultsOK, KeyOf
    <2>3. QED
      BY <2>1, <2>2 DEF BoardsNext, BeginGrade, AbandonGrade, BeginWalk, QueryBaseline, QuerySetters
  <1>4. WalkOK'
    BY WalkTyped
  <1>5. world' \in Worlds
    BY <1>1 DEF BoardsTypeOK
  <1>6. QED
    BY <1>2, <1>3, <1>4, <1>5 DEF BoardsTypeOK, ResultsOK, WalkOK

LEMMA NotYetGradedStep ==
    ASSUME NotYetGraded, BoardsNext
    PROVE  NotYetGraded'
  <1>1. ASSUME NEW l \in world.lineups, BeginGrade(l)
        PROVE  NotYetGraded'
    BY <1>1 DEF BeginGrade, NotYetGraded, KeyOf
  <1>2. CASE grading' = NoLineup
    BY <1>2 DEF NotYetGraded, AtRest
  <1>3. CASE grading' = grading /\ results' = results
    BY <1>3 DEF NotYetGraded, AtRest, KeyOf
  <1>4. QED
    BY <1>1, <1>2, <1>3
       DEF BoardsNext, EndGrade, AbandonGrade, BeginWalk, QueryBaseline, QuerySetters

-----------------------------------------------------------------------------
(* A row inserted before a match moves it down, and none moves up. *)
LEMMA InsertKeepsAhead ==
    ASSUME BoardsTypeOK, UnseenAreAhead, walk # NoWalk, walk' = walk,
           results \subseteq results', IsFiniteSet(results')
    PROVE  UnseenAreAhead'
  <1>1. Matches \subseteq Matches' /\ Matches' \in SUBSET results'
    BY DEF Matches, OfRoster
  <1>2. IsFiniteSet(Matches')
    BY <1>1, FS_Subset
  <1>3. ASSUME NEW T \in SUBSET Matches', NEW S \in SUBSET T
        PROVE  /\ Cardinality(S) <= Cardinality(T)
               /\ Cardinality(S) \in Nat /\ Cardinality(T) \in Nat
    <2>1. IsFiniteSet(T)
      BY <1>2, FS_Subset
    <2>2. IsFiniteSet(S) /\ Cardinality(S) <= Cardinality(T)
      BY <2>1, FS_Subset
    <2>3. QED
      BY <2>1, <2>2, FS_CardinalityType
  <1>4. SUFFICES ASSUME walk.phase # "done"
                 PROVE  /\ walk.offset <= Cardinality(Matches')
                        /\ \A u \in walk.there \ walk.seen : \E x \in Matches' :
                              /\ x.user = u
                              /\ walk.offset <= Cardinality({y \in Matches' : SetterOrder(y, x)})
    BY Zenon DEF UnseenAreAhead
  <1>5. walk.offset \in Nat
    BY DEF BoardsTypeOK
  <1>6. walk.offset <= Cardinality(Matches')
    <2>1. walk.offset <= Cardinality(Matches)
      BY <1>4 DEF UnseenAreAhead
    <2>2. Cardinality(Matches) <= Cardinality(Matches') /\ Cardinality(Matches) \in Nat
          /\ Cardinality(Matches') \in Nat
      BY <1>1, <1>3
    <2>3. QED
      BY <1>5, <2>1, <2>2
  <1>7. ASSUME NEW u \in walk.there \ walk.seen
        PROVE  \E x \in Matches' :
                  /\ x.user = u
                  /\ walk.offset <= Cardinality({y \in Matches' : SetterOrder(y, x)})
    <2>1. PICK x \in Matches : /\ x.user = u
                               /\ walk.offset <= Cardinality({y \in Matches : SetterOrder(y, x)})
      BY <1>4 DEF UnseenAreAhead
    <2> DEFINE S == {y \in Matches : SetterOrder(y, x)}
               T == {y \in Matches' : SetterOrder(y, x)}
    <2>2. S \in SUBSET T /\ T \in SUBSET Matches'
      BY <1>1
    <2>3. walk.offset <= Cardinality(S)
      BY <2>1
    <2> HIDE DEF S, T
    <2>4. Cardinality(S) <= Cardinality(T) /\ Cardinality(S) \in Nat /\ Cardinality(T) \in Nat
      BY <1>3, <2>2
    <2>5. walk.offset <= Cardinality(T)
      BY <1>5, <2>3, <2>4
    <2>6. QED
      BY <1>1, <2>1, <2>5 DEF T
  <1>8. QED
    BY <1>6, <1>7

(* At first nobody has been seen, and the offset is before everyone. *)
LEMMA BeginWalkAhead ==
    ASSUME BoardsTypeOK, BoardsTypeOK', NEW ask \in world.asks, BeginWalk(ask)
    PROVE  UnseenAreAhead'
  <1>1. /\ walk' = [at |-> ask.at, q |-> ask.q, limit |-> ask.limit, offset |-> 0, phase |-> "baseline",
                    there |-> Setters(ask.at) \cap ask.q, seen |-> {}]
        /\ results' = results
    BY DEF BeginWalk
  <1>2. /\ walk'.at = ask.at /\ walk'.q = ask.q /\ walk'.offset = 0
        /\ walk'.there = Setters(ask.at) \cap ask.q
    BY <1>1
  <1>3. Matches' = {r \in OfRoster(results, ask.at) : r.user \in Registered /\ r.user \in ask.q}
    BY <1>1, <1>2 DEF Matches, OfRoster
  <1>4. Matches' \in SUBSET results /\ IsFiniteSet(results)
    BY <1>3 DEF OfRoster, BoardsTypeOK
  <1>5. ASSUME NEW S \in SUBSET Matches'
        PROVE  0 <= Cardinality(S)
    <2>1. S \in SUBSET results
      BY <1>4
    <2>2. IsFiniteSet(S)
      BY <1>4, <2>1, FS_Subset
    <2>3. Cardinality(S) \in Nat
      BY <2>2, FS_CardinalityType
    <2>4. QED
      BY <2>3
  <1>6. ASSUME NEW u \in Setters(ask.at) \cap ask.q
        PROVE  \E x \in Matches' : x.user = u
    BY <1>3 DEF Setters
  <1>7. 0 <= Cardinality(Matches')
    BY <1>5
  <1>8. \A u \in walk'.there \ walk'.seen : \E x \in Matches' :
           /\ x.user = u
           /\ 0 <= Cardinality({y \in Matches' : SetterOrder(y, x)})
    <2>1. \A x : {y \in Matches' : SetterOrder(y, x)} \in SUBSET Matches'
      OBVIOUS
    <2>2. QED
      BY <1>2, <1>5, <1>6, <2>1
  <1>9. QED
    BY <1>2, <1>7, <1>8, Zenon DEF UnseenAreAhead

LEMMA QueryBaselineIs ==
    ASSUME BoardsTypeOK, QueryBaseline
    PROVE  /\ walk # NoWalk
           /\ walk.phase = "baseline"
           /\ results' = results
           /\ walk'.at = walk.at /\ walk'.q = walk.q /\ walk'.offset = walk.offset
           /\ walk'.there = walk.there /\ walk'.seen = walk.seen
           /\ walk'.phase = "done" => OfRoster(results, walk.at) = {}
  <1>1. walk # NoWalk /\ walk.phase = "baseline" /\ results' = results
    BY DEF QueryBaseline
  <1>2. PICK ask \in world.asks :
          walk \in [at : {ask.at}, q : {ask.q}, limit : {ask.limit}, offset : Nat,
                   phase : {"baseline", "setters", "done"},
                   there : SUBSET Registered, seen : SUBSET Registered]
    BY <1>1 DEF BoardsTypeOK
  <1>3. walk' = [walk EXCEPT !.phase = IF Baseline(results, walk.at).setterCount = 0
                                      THEN "done" ELSE "setters"]
    BY DEF QueryBaseline
  <1>4. /\ walk'.at = walk.at /\ walk'.q = walk.q /\ walk'.offset = walk.offset
        /\ walk'.there = walk.there /\ walk'.seen = walk.seen
        /\ walk'.phase = IF Baseline(results, walk.at).setterCount = 0 THEN "done" ELSE "setters"
    BY <1>2, <1>3
  <1>5. ASSUME walk'.phase = "done"
        PROVE  OfRoster(results, walk.at) = {}
    <2>1. Baseline(results, walk.at).setterCount = 0
      BY <1>4, <1>5
    <2>2. Baseline(results, walk.at).setterCount = Cardinality(OfRoster(results, walk.at))
      BY DEF Baseline
    <2>3. OfRoster(results, walk.at) \in SUBSET results /\ IsFiniteSet(results)
      BY DEF OfRoster, BoardsTypeOK
    <2>4. IsFiniteSet(OfRoster(results, walk.at))
      BY <2>3, FS_Subset
    <2>5. QED
      BY <2>1, <2>2, <2>4, FS_EmptySet
  <1>6. QED
    BY <1>1, <1>4, <1>5

LEMMA QueryBaselineAhead ==
    ASSUME BoardsTypeOK, UnseenAreAhead, QueryBaseline
    PROVE  UnseenAreAhead' /\ PagesSkipNobody'
  <1>1. /\ walk # NoWalk
        /\ walk.phase = "baseline"
        /\ results' = results
        /\ walk'.at = walk.at /\ walk'.q = walk.q /\ walk'.offset = walk.offset
        /\ walk'.there = walk.there /\ walk'.seen = walk.seen
        /\ walk'.phase = "done" => OfRoster(results, walk.at) = {}
    BY QueryBaselineIs
  <1>2. Matches' = Matches
    BY <1>1 DEF Matches, OfRoster
  <1>3. /\ walk.offset <= Cardinality(Matches)
        /\ \A u \in walk.there \ walk.seen : \E x \in Matches :
              /\ x.user = u
              /\ walk.offset <= Cardinality({y \in Matches : SetterOrder(y, x)})
    BY <1>1, Zenon DEF UnseenAreAhead
  <1>4. UnseenAreAhead'
    BY <1>1, <1>2, <1>3 DEF UnseenAreAhead
  <1>5. OfRoster(results, walk.at) = {} => walk.there \subseteq walk.seen
    BY <1>3 DEF Matches
  <1>6. PagesSkipNobody'
    BY <1>1, <1>5 DEF PagesSkipNobody
  <1>7. QED
    BY <1>4, <1>6

(* The page shows the matches at the next PageSize places.  If it is full  *)
(* the offset moves past them; if it is short they are the last ones.      *)
LEMMA QuerySettersAhead ==
    ASSUME BoardsTypeOK, UnseenAreAhead, QuerySetters
    PROVE  UnseenAreAhead' /\ PagesSkipNobody'
  <1> DEFINE m == Cardinality(Matches)
             offset == walk.offset
             limit == walk.limit
             shown == {NextPage[i].user : i \in DOMAIN NextPage}
  <1>1. walk # NoWalk /\ walk.phase = "setters"
    BY QueryShows
  <1>2. walk' = [at |-> walk.at, q |-> walk.q, limit |-> limit,
                 offset |-> offset + limit,
                 phase |-> IF Len(NextPage) < limit THEN "done" ELSE "baseline",
                 there |-> walk.there, seen |-> walk.seen \cup shown]
    BY QueryShows
  <1>3. /\ offset \in Nat /\ limit \in Nat \ {0} /\ offset <= m
        /\ Len(NextPage) = PageSize
        /\ DOMAIN NextPage = 1 .. PageSize
        /\ \A i \in 1 .. PageSize : NextPage[i] = Listing[offset + i]
    BY <1>1, PageFacts
  <1>4. /\ m \in Nat
        /\ \A x \in Matches : Position(x) \in 1 .. m /\ Listing[Position(x)].user = x.user
    BY MatchesFacts
  <1>5. PageSize = IF offset + limit > m THEN m - offset ELSE limit
    BY DEF PageSize, SizeOfPage
  <1>6. /\ offset <= m
        /\ \A u \in walk.there \ walk.seen : \E x \in Matches :
              x.user = u /\ offset <= Cardinality({y \in Matches : SetterOrder(y, x)})
    BY <1>1, Zenon DEF UnseenAreAhead
  <1>7. ASSUME NEW x \in Matches
        PROVE  Cardinality({y \in Matches : SetterOrder(y, x)}) \in Nat
    <2>1. {y \in Matches : SetterOrder(y, x)} \in SUBSET Matches /\ IsFiniteSet(Matches)
      BY MatchesFacts
    <2> HIDE DEF m
    <2>2. QED
      BY <2>1, FS_Subset, FS_CardinalityType
  <1>8. /\ walk'.at = walk.at /\ walk'.q = walk.q /\ walk'.offset = offset + limit
        /\ walk'.phase = IF Len(NextPage) < limit THEN "done" ELSE "baseline"
        /\ walk'.there = walk.there /\ walk'.seen = walk.seen \cup shown
    BY <1>2
  <1>9. Matches' = Matches
    <2>1. results' = results
      BY DEF QuerySetters
    <2>2. QED
      BY <1>8, <2>1 DEF Matches, OfRoster
  <1>10. ASSUME NEW u \in walk.there \ walk.seen, u \notin shown
         PROVE  /\ limit <= Len(NextPage)
                /\ \E x \in Matches :
                      /\ x.user = u
                      /\ offset + limit <= Cardinality({y \in Matches : SetterOrder(y, x)})
    <2>1. PICK x \in Matches :
             x.user = u /\ offset <= Cardinality({y \in Matches : SetterOrder(y, x)})
      BY <1>6
    <2> DEFINE before == Cardinality({y \in Matches : SetterOrder(y, x)})
    <2>2. before \in Nat /\ Position(x) = 1 + before
      BY <1>7 DEF Position
    <2>3. Position(x) \in 1 .. m /\ Listing[Position(x)].user = u
      BY <1>4, <2>1
    <2>4. offset <= before
      BY <2>1
    <2> HIDE DEF before, m, offset, limit
    <2>5. ASSUME Position(x) <= offset + PageSize
          PROVE  FALSE
      <3> DEFINE i == Position(x) - offset
      <3>1. PageSize \in Nat
        BY <1>3, <1>4, <1>5
      <3>2. i \in 1 .. PageSize /\ offset + i = Position(x)
        BY <1>3, <2>2, <2>4, <2>5, <3>1
      <3> HIDE DEF i
      <3>3. NextPage[i] = Listing[Position(x)]
        BY <1>3, <3>2
      <3>4. u \in shown
        BY <1>3, <2>3, <3>2, <3>3
      <3>5. QED
        BY <1>10, <3>4
    <2>6. limit <= PageSize /\ offset + limit <= before
      BY <1>3, <1>4, <1>5, <2>2, <2>3, <2>5
    <2>7. QED
      BY <1>3, <2>1, <2>6 DEF before
  <1> HIDE DEF shown
  <1>11. UnseenAreAhead'
    <2>1. ASSUME walk'.phase # "done"
          PROVE  walk'.offset <= Cardinality(Matches')
      <3>1. ~(Len(NextPage) < limit)
        BY <1>8, <2>1
      <3> HIDE DEF m, offset, limit
      <3>2. offset + limit <= m
        BY <1>3, <1>4, <1>5, <3>1
      <3>3. QED
        BY <1>8, <1>9, <3>2 DEF m
    <2>2. ASSUME NEW u \in walk'.there \ walk'.seen
          PROVE  \E x \in Matches' :
                   /\ x.user = u
                   /\ walk'.offset <= Cardinality({y \in Matches' : SetterOrder(y, x)})
      <3>1. u \in walk.there \ walk.seen /\ u \notin shown
        BY <1>8, <2>2
      <3>2. \E x \in Matches :
               /\ x.user = u
               /\ offset + limit <= Cardinality({y \in Matches : SetterOrder(y, x)})
        BY <1>10, <3>1
      <3>3. QED
        BY <1>8, <1>9, <3>2
    <2>3. QED
      BY <2>1, <2>2, Zenon DEF UnseenAreAhead
  <1>12. PagesSkipNobody'
    <2>1. ASSUME walk'.phase = "done"
          PROVE  walk'.there \subseteq walk'.seen
      <3>1. Len(NextPage) < limit
        BY <1>8, <2>1
      <3> HIDE DEF m, offset, limit
      <3>2. Len(NextPage) \in Int
        BY <1>3, <1>4, <1>5
      <3>3. ~(limit <= Len(NextPage))
        BY <1>3, <3>1, <3>2
      <3>4. \A u \in walk.there \ walk.seen : u \in shown
        BY <1>10, <3>3
      <3>5. QED
        BY <1>8, <3>4
    <2>2. QED
      BY <2>1 DEF PagesSkipNobody
  <1>13. QED
    BY <1>11, <1>12

LEMMA WalkStep ==
    ASSUME BoardsTypeOK, BoardsTypeOK', NotYetGraded, UnseenAreAhead, PagesSkipNobody, BoardsNext
    PROVE  UnseenAreAhead' /\ PagesSkipNobody'
  <1>1. CASE walk' = walk
    <2>1. results \subseteq results'
      <3>1. CASE \E user, official, optimal \in Int : EndGrade(user, official, optimal)
        <4>1. PICK user \in Int, official \in Int, optimal \in Int : EndGrade(user, official, optimal)
          BY <3>1
        <4>2. results' = results \cup {WeekResult(grading, user, official, optimal)}
          BY <4>1, UpsertInserts
        <4>3. QED
          BY <4>2
      <3>2. CASE results' = results
        BY <3>2
      <3>3. QED
        BY <3>1, <3>2 DEF BoardsNext, BeginGrade, AbandonGrade, BeginWalk, QueryBaseline, QuerySetters
    <2>2. IsFiniteSet(results')
      BY DEF BoardsTypeOK
    <2>3. walk # NoWalk => UnseenAreAhead'
      BY <1>1, <2>1, <2>2, InsertKeepsAhead
    <2>4. walk = NoWalk => UnseenAreAhead'
      BY <1>1 DEF UnseenAreAhead
    <2>5. PagesSkipNobody'
      BY <1>1 DEF PagesSkipNobody
    <2>6. QED
      BY <2>3, <2>4, <2>5
  <1>2. ASSUME NEW ask \in world.asks, BeginWalk(ask)
        PROVE  UnseenAreAhead' /\ PagesSkipNobody'
    <2>1. UnseenAreAhead'
      BY <1>2, BeginWalkAhead
    <2>2. walk'.phase = "baseline"
      BY <1>2 DEF BeginWalk
    <2>3. QED
      BY <2>1, <2>2 DEF PagesSkipNobody
  <1>3. CASE QueryBaseline
    BY <1>3, QueryBaselineAhead
  <1>4. CASE QuerySetters
    BY <1>4, QuerySettersAhead
  <1>5. QED
    BY <1>1, <1>2, <1>3, <1>4 DEF BoardsNext, BeginGrade, EndGrade, AbandonGrade

LEMMA BoardsStart == BoardsInit => BoardsInv
  <1>1. IsFiniteSet({})
    BY FS_EmptySet
  <1>2. QED
    BY <1>1 DEF BoardsInit, BoardsInv, BoardsTypeOK, NotYetGraded, AtRest, UnseenAreAhead, PagesSkipNobody

LEMMA BoardsStep ==
    ASSUME BoardsInv, [BoardsNext]_boardVars
    PROVE  BoardsInv'
  <1>1. CASE BoardsNext
    <2>1. BoardsTypeOK'
      BY <1>1, TypeStep DEF BoardsInv
    <2>2. NotYetGraded'
      BY <1>1, NotYetGradedStep DEF BoardsInv
    <2>3. UnseenAreAhead' /\ PagesSkipNobody'
      BY <1>1, <2>1, WalkStep DEF BoardsInv
    <2>4. QED
      BY <2>1, <2>2, <2>3 DEF BoardsInv
  <1>2. CASE UNCHANGED boardVars
    BY <1>2 DEF boardVars, BoardsInv, BoardsTypeOK, NotYetGraded, AtRest, UnseenAreAhead,
                PagesSkipNobody, Matches, OfRoster, KeyOf
  <1>3. QED
    BY <1>1, <1>2

-----------------------------------------------------------------------------
(* Whatever totals the lineups come out with and in whatever order they    *)
(* are graded, abandoned and queried: rows are of lineups that were set,   *)
(* one for each, only a lineup without one is graded, and whoever the      *)
(* client has not seen is behind its offset (UpsertWeekResult,             *)
(* WeeklyResults).                                                         *)
THEOREM BoardsInvariance == BoardsSpec => []BoardsInv
  <1>1. BoardsInit => BoardsInv
    BY BoardsStart
  <1>2. BoardsInv /\ [BoardsNext]_boardVars => BoardsInv'
    BY BoardsStep
  <1>3. QED
    BY <1>1, <1>2, PTL DEF BoardsSpec

(* week_results holds one row for each lineup that was set and graded, and *)
(* the pages show accounts only (UpsertWeekResult, WeeklyResults).         *)
THEOREM BoardsTypeCorrect == BoardsSpec => []BoardsTypeOK
  <1>1. BoardsInv => BoardsTypeOK
    BY DEF BoardsInv
  <1>2. QED
    BY <1>1, BoardsInvariance, PTL

(* A client that follows the offset to the end has seen everyone who had a *)
(* result when it began, for every page size and whatever is graded        *)
(* meanwhile (WeeklyResults, UpsertWeekResult).                            *)
THEOREM PagesAreComplete == BoardsSpec => []PagesSkipNobody
  <1>1. BoardsInv => PagesSkipNobody
    BY DEF BoardsInv
  <1>2. QED
    BY <1>1, BoardsInvariance, PTL

-----------------------------------------------------------------------------
(* The boards are functions of week_results: what they promise follows     *)
(* from its type.                                                          *)

RowOf(setters, u) == CHOOSE r \in setters : r.user = u

LEMMA SearchedRank ==
    ASSUME NEW setters, Rows(setters), NEW q, NEW i \in DOMAIN MatchingSetters(setters, q)
    PROVE  MatchingSetters(setters, q)[i].rank =
              1 + Cardinality({r \in setters : r.user \in Registered /\
                    SetterOrder(r, RowOf(setters, MatchingSetters(setters, q)[i].user))})
  <1> DEFINE entry == MatchingSetters(setters, q)[i]
             me == RowOf(setters, entry.user)
  <1>1. PICK x \in Matching(setters, q) :
          entry.user = x.user /\ entry.rank = 1 + Cardinality(Better(setters, x))
    BY MatchesKeepTheirRanks
  <1> HIDE DEF entry
  <1>2. x \in setters /\ \A r \in setters : r.user = x.user => r = x
    BY DEF Matching, Named, Rows
  <1>3. me \in setters /\ me.user = entry.user
    BY <1>1, <1>2 DEF RowOf
  <1>4. me = x
    BY <1>1, <1>2, <1>3
  <1> HIDE DEF me
  <1>5. Better(setters, x) = {r \in setters : r.user \in Registered /\ SetterOrder(r, me)}
    BY <1>4 DEF Better, Named
  <1>6. QED
    BY <1>1, <1>5 DEF entry, me

LEMMA SearchFollows == BoardsTypeOK => SearchKeepsStanding
  <1> SUFFICES ASSUME BoardsTypeOK, NEW l \in world.lineups, NEW q \in SUBSET Registered,
                      NEW i \in DOMAIN MatchingSetters(OfRoster(results, l), q)
               PROVE  MatchingSetters(OfRoster(results, l), q)[i].rank =
                        1 + Cardinality({r \in OfRoster(results, l) : r.user \in Registered /\
                              SetterOrder(r, RowOf(OfRoster(results, l),
                                MatchingSetters(OfRoster(results, l), q)[i].user))})
    BY Zenon DEF SearchKeepsStanding, RowOf
  <1> DEFINE setters == OfRoster(results, l)
  <1>1. Rows(setters)
    BY WeekHasRows
  <1> HIDE DEF setters
  <1>2. \A k \in DOMAIN MatchingSetters(setters, q) :
          MatchingSetters(setters, q)[k].rank =
            1 + Cardinality({r \in setters : r.user \in Registered /\
                  SetterOrder(r, RowOf(setters, MatchingSetters(setters, q)[k].user))})
    BY <1>1, SearchedRank
  <1>3. QED
    BY <1>2, Zenon DEF setters

LEMMA GlobalRanks ==
    ASSUME BoardsTypeOK, NEW season, NEW i \in DOMAIN GlobalLeaderboard(results, season)
    PROVE  LET board == GlobalLeaderboard(results, season)
           IN  /\ board[i].rank > 0 <=>
                     Cardinality(Scored(board[i].row.user, season)) >= globalMinWeeks
               /\ \A j \in DOMAIN board : i < j /\ board[j].rank > 0 => board[i].rank > 0
  <1> DEFINE rows == OnBoard(results, season, AllLeagues)
             S == BoardRows(rows)
             n == Cardinality(S)
             listed == Leaderboard(results, season, AllLeagues)
             board == GlobalLeaderboard(results, season)
  <1>1. IsFiniteSet(results) /\ \A r \in results : Totals(r)
    BY DEF BoardsTypeOK, Totals
  <1>2. IsFiniteSet(rows) /\ IsFiniteSet(S) /\ listed \in [1 .. n -> S]
    BY <1>1, LeaderboardIsListed DEF ListsByRank
  <1>3. board = applyRanking(listed, globalMinWeeks)
    BY DEF GlobalLeaderboard
  <1>4. n \in Nat
    BY <1>2, FS_CardinalityType
  <1>5. ASSUME NEW x \in S
        PROVE  x.weeksPlayed \in Nat /\ x.weeksPlayed = Cardinality(Scored(x.user, season))
    <2>1. PICK r \in rows : x = BoardRow(rows, r.user)
      BY DEF BoardRows
    <2>2. r.user \in Registered /\ \A s \in rows : Totals(s)
      BY <1>1 DEF OnBoard
    <2>3. x.user = r.user /\ x.weeksPlayed \in Nat
      BY <1>2, <2>1, <2>2, BoardRowType
    <2>4. x.weeksPlayed = Cardinality({s \in {t \in rows : t.user = r.user} : s.optimalTotal > 0})
      BY <2>1 DEF BoardRow, WeeksPlayed
    <2>5. {s \in {t \in rows : t.user = r.user} : s.optimalTotal > 0} = Scored(r.user, season)
      BY <2>2 DEF OnBoard, Scored
    <2>6. QED
      BY <2>3, <2>4, <2>5
  <1> HIDE DEF S, n, listed, board, rows
  <1>6. PICK m \in Nat : RankedTo(m, board, S, globalMinWeeks)
    BY <1>2, <1>3, <1>4, RankedEntries
  <1>7. \A k \in DOMAIN board :
           /\ k \in Nat \ {0}
           /\ board[k].row \in S
           /\ k <= m => board[k].rank = k /\ board[k].row.weeksPlayed >= globalMinWeeks
           /\ k > m => board[k].rank = 0 /\ board[k].row.weeksPlayed < globalMinWeeks
    BY <1>6 DEF RankedTo
  <1>8. globalMinWeeks \in Nat
    BY StandingsAssumption
  <1>9. ASSUME NEW k \in DOMAIN board
        PROVE  /\ k \in Nat
               /\ board[k].rank > 0 <=> k <= m
               /\ board[k].rank > 0 <=> board[k].row.weeksPlayed >= globalMinWeeks
    <2>1. board[k].row.weeksPlayed \in Nat /\ k \in Nat \ {0}
      BY <1>5, <1>7
    <2>2. CASE k <= m
      BY <1>7, <2>1, <2>2
    <2>3. CASE k > m
      BY <1>7, <1>8, <2>1, <2>3
    <2>4. QED
      BY <2>1, <2>2, <2>3
  <1>10. i \in DOMAIN board
    BY DEF board
  <1>11. board[i].rank > 0 <=> Cardinality(Scored(board[i].row.user, season)) >= globalMinWeeks
    BY <1>5, <1>7, <1>9, <1>10
  <1>12. \A j \in DOMAIN board : i < j /\ board[j].rank > 0 => board[i].rank > 0
    BY <1>9, <1>10
  <1>13. QED
    BY <1>11, <1>12 DEF board

LEMMA RanksFollow == BoardsTypeOK => RanksRestOnScoredWeeks
  BY GlobalRanks, Zenon DEF RanksRestOnScoredWeeks

LEMMA WeekEdgeSum ==
    ASSUME NEW rows, IsFiniteSet(rows), \A r \in rows : WeekEdge(r) \in Int,
           NEW h, IsSum(h, [r \in rows |-> WeekEdge(r)], rows)
    PROVE  MapThenSumSet(WeekEdge, rows) = h[rows]
  <1> DEFINE g == [r \in rows |-> WeekEdge(r)]
             sum == CHOOSE f : f = [s \in SUBSET rows |-> IF s = {} THEN 0
                                       ELSE WeekEdge(Pick(s)) + f[s \ {Pick(s)}]]
  <1>1. MapThenSumSet(WeekEdge, rows) = sum[rows]
    BY Zenon DEF MapThenSumSet, MapThenFoldSet, Pick
  <1>3. \A s \in SUBSET rows : s # {} => g[Pick(s)] = WeekEdge(Pick(s))
    BY Picked
  <1>4. ASSUME NEW f
        PROVE  IsSum(f, g, rows) <=> f = [s \in SUBSET rows |-> IF s = {} THEN 0
                                            ELSE WeekEdge(Pick(s)) + f[s \ {Pick(s)}]]
    <2>1. \A s \in SUBSET rows : (IF s = {} THEN 0 ELSE g[Pick(s)] + f[s \ {Pick(s)}])
                                = (IF s = {} THEN 0 ELSE WeekEdge(Pick(s)) + f[s \ {Pick(s)}])
      BY <1>3
    <2> HIDE DEF g
    <2>2. QED
      BY <2>1, Zenon DEF IsSum
  <1>5. h = [s \in SUBSET rows |-> IF s = {} THEN 0 ELSE WeekEdge(Pick(s)) + h[s \ {Pick(s)}]]
    BY <1>4
  <1>6. sum = [s \in SUBSET rows |-> IF s = {} THEN 0 ELSE WeekEdge(Pick(s)) + sum[s \ {Pick(s)}]]
    BY <1>5, Zenon
  <1>7. IsSum(h, g, rows)
    OBVIOUS
  <1> HIDE DEF sum, g
  <1>8. sum[rows] = h[rows]
    <2>1. IsSum(sum, g, rows)
      BY <1>4, <1>6
    <2>2. QED
      BY <1>7, <2>1, SumsAgree
  <1>9. QED
    BY <1>1, <1>8

LEMMA MeansAgree ==
    ASSUME NEW mine, IsFiniteSet(mine), \A r \in mine : Totals(r) /\ r.optimalTotal > 0
    PROVE  Avg(mine, Edge) = Avg(mine, WeekEdge)
  <1>1. \A r \in mine : WeekEdge(r) = Edge(r) /\ Edge(r) \in Int /\ Edge(r) # Null
    BY EdgeOfScoredWeek, EdgeType DEF WeekEdge
  <1>2. {r \in mine : Edge(r) # Null} = mine /\ {r \in mine : WeekEdge(r) # Null} = mine
    BY <1>1
  <1>3. MapThenSumSet(Edge, mine) = MapThenSumSet(WeekEdge, mine)
    <2> DEFINE g == [r \in mine |-> Edge(r)]
    <2>1. g \in [mine -> Int]
      BY <1>1
    <2>2. g = [r \in mine |-> WeekEdge(r)]
      BY <1>1
    <2> HIDE DEF g
    <2>3. PICK h : IsSum(h, g, mine)
      BY <2>1, SumExists
    <2>4. IsSum(h, [r \in mine |-> Edge(r)], mine)
      BY <2>3 DEF g
    <2>5. IsSum(h, [r \in mine |-> WeekEdge(r)], mine)
      BY <2>2, <2>3
    <2>6. MapThenSumSet(Edge, mine) = h[mine]
      BY <1>1, <2>4, EdgeSum
    <2>7. MapThenSumSet(WeekEdge, mine) = h[mine]
      BY <1>1, <2>5, WeekEdgeSum
    <2>8. QED
      BY <2>6, <2>7, Zenon
  <1> DEFINE a == Avg(mine, Edge)
             b == Avg(mine, WeekEdge)
  <1>4. a = IF mine = {} THEN 0 ELSE MapThenSumSet(Edge, mine) \div Cardinality(mine)
    BY <1>2, Zenon DEF Avg
  <1>5. b = IF mine = {} THEN 0 ELSE MapThenSumSet(WeekEdge, mine) \div Cardinality(mine)
    BY <1>2, Zenon DEF Avg
  <1> HIDE DEF a, b
  <1>6. a = b
    BY <1>3, <1>4, <1>5
  <1>7. QED
    BY <1>6 DEF a, b

MineOf(season, league, u) == {r \in OnBoard(results, season, league) : r.user = u}

LEMMA EdgeOfRow ==
    ASSUME BoardsTypeOK, NEW season, NEW league,
           NEW i \in DOMAIN Leaderboard(results, season, league),
           \A r \in MineOf(season, league, Leaderboard(results, season, league)[i].user) :
              r.optimalTotal > 0
    PROVE  Leaderboard(results, season, league)[i].edge =
             Avg(MineOf(season, league, Leaderboard(results, season, league)[i].user), WeekEdge)
  <1> DEFINE rows == OnBoard(results, season, league)
             S == BoardRows(rows)
             listed == Leaderboard(results, season, league)
             mine == MineOf(season, league, listed[i].user)
  <1>1. IsFiniteSet(results) /\ \A r \in results : Totals(r)
    BY DEF BoardsTypeOK, Totals
  <1>2. IsFiniteSet(rows) /\ listed \in [1 .. Cardinality(S) -> S]
    BY <1>1, LeaderboardIsListed DEF ListsByRank
  <1>3. listed[i] \in S
    <2> HIDE DEF S, listed
    <2>1. QED
      BY <1>2 DEF listed
  <1>4. PICK r \in rows : listed[i] = BoardRow(rows, r.user)
    BY <1>3 DEF BoardRows
  <1>5. \A s \in rows : Totals(s)
    BY <1>1 DEF OnBoard
  <1>6. listed[i].user = r.user
    BY <1>2, <1>4, <1>5, BoardRowType
  <1>7. mine = {s \in rows : s.user = r.user}
    BY <1>6 DEF MineOf
  <1>8. listed[i].edge = Avg(mine, Edge)
    BY <1>4, <1>7 DEF BoardRow
  <1>9. mine \in SUBSET rows
    BY <1>7
  <1>10. IsFiniteSet(mine)
    BY <1>2, <1>9, FS_Subset
  <1>11. Avg(mine, Edge) = Avg(mine, WeekEdge)
    BY <1>5, <1>9, <1>10, MeansAgree
  <1>12. QED
    BY <1>8, <1>11

LEMMA EdgesFollow == BoardsTypeOK => EdgeReconciles
  <1> SUFFICES ASSUME BoardsTypeOK, NEW season \in Seasons, NEW league \in Boards,
                      NEW i \in DOMAIN Leaderboard(results, season, league)
               PROVE  LET mine == {r \in OnBoard(results, season, league) :
                                     r.user = Leaderboard(results, season, league)[i].user}
                      IN  (\A r \in mine : r.optimalTotal > 0)
                          => Leaderboard(results, season, league)[i].edge = Avg(mine, WeekEdge)
    BY DEF EdgeReconciles
  <1> DEFINE mine == {r \in OnBoard(results, season, league) :
                        r.user = Leaderboard(results, season, league)[i].user}
  <1>1. mine = MineOf(season, league, Leaderboard(results, season, league)[i].user)
    BY DEF MineOf
  <1> HIDE DEF mine
  <1>2. ASSUME \A r \in mine : r.optimalTotal > 0
        PROVE  Leaderboard(results, season, league)[i].edge = Avg(mine, WeekEdge)
    BY <1>1, <1>2, EdgeOfRow
  <1>3. QED
    BY <1>2 DEF mine

-----------------------------------------------------------------------------
(* On the global board exactly the users with enough scored weeks, pooled  *)
(* over leagues, have a rank, and they come first (Leaderboard,            *)
(* applyRanking).                                                          *)
THEOREM RanksAreEarned == BoardsSpec => []RanksRestOnScoredWeeks
  BY RanksFollow, BoardsTypeCorrect, PTL

(* The mean edge of a board and the weekly edges of the compare endpoint   *)
(* agree for users all of whose weeks are scored, in every league and      *)
(* season, clamps and overrides included (Leaderboard, GradeWeek).         *)
THEOREM EdgesReconcile == BoardsSpec => []EdgeReconciles
  BY EdgesFollow, BoardsTypeCorrect, PTL

(* A searched or paged setter's rank is the place among all of the week's  *)
(* accounts, for every search (WeeklyResults' window).                     *)
THEOREM StandingsSurviveSearch == BoardsSpec => []SearchKeepsStanding
  BY SearchFollows, BoardsTypeCorrect, PTL

-----------------------------------------------------------------------------
(* Scores: the problem solved is that of the lineup being graded. *)

InputOf(l) ==
    LET m == world.matchups[Where(l)]
    IN  [slots |-> StartingSlots(world.rosterPositions[l.league]), players |-> m.players,
         points |-> m.playerPoints, positions |-> m.positions]

Posed ==
    /\ grading \in world.lineups
    /\ Where(grading) \in DOMAIN world.matchups
    /\ in = InputOf(grading)

ScoresInv ==
    /\ world \in Worlds
    /\ IF grading = NoLineup THEN in = NoInput /\ total = 0 ELSE Posed /\ SolverInv

(* A matchup's numbers, and the sequences a world is made of. *)
LEMMA WorldFacts ==
    ASSUME world \in Worlds, NEW l \in world.lineups, Where(l) \in DOMAIN world.matchups
    PROVE  LET m == world.matchups[Where(l)]
           IN  /\ l # NoLineup
               /\ IsSequence(l.starters) /\ IsSequence(m.players)
               /\ IsSequence(world.rosterPositions[l.league])
               /\ \A p : PointsOf(m.playerPoints, p) \in Int
               /\ OfficialTotal(m) \in Int
  <1> DEFINE m == world.matchups[Where(l)]
  <1>1. /\ IsSequence(l.starters) /\ IsSequence(m.players)
        /\ IsSequence(world.rosterPositions[l.league])
        /\ m.playerPoints \in [DOMAIN m.playerPoints -> Int]
        /\ m.points \in Int /\ m.customPoints \in Int \cup {Null}
    BY ScoresAssumption
  <1>2. l # NoLineup
    BY BoardsAssumption
  <1> HIDE DEF m
  <1>3. \A p : PointsOf(m.playerPoints, p) \in Int
    BY <1>1 DEF PointsOf
  <1>4. OfficialTotal(m) \in Int
    BY <1>1 DEF OfficialTotal
  <1>5. QED
    BY <1>1, <1>2, <1>3, <1>4 DEF m

(* A filtered sequence is a sequence. *)
LEMMA SlotsAreListed ==
    ASSUME NEW s, IsSequence(s)
    PROVE  Len(StartingSlots(s)) \in Nat /\ DOMAIN StartingSlots(s) = 1 .. Len(StartingSlots(s))
  <1> DEFINE K == {i \in DOMAIN s : s[i] \notin nonStartingSlots}
             kept == InOrder(K, LAMBDA i, j : i < j)
             t == [i \in 1 .. Cardinality(K) |-> s[kept[i]]]
  <1>1. s \in Seq(ToSet(s))
    BY DEF IsSequence
  <1>2. DOMAIN s = 1 .. Len(s) /\ Len(s) \in Nat
    BY <1>1, LenProperties
  <1>3. K \in SUBSET Nat /\ IsFiniteSet(K)
    <2>1. IsFiniteSet(1 .. Len(s)) /\ K \in SUBSET (1 .. Len(s))
      BY <1>2, FS_Interval
    <2>2. IsFiniteSet(K)
      BY <2>1, FS_Subset
    <2>3. QED
      BY <1>2, <2>1, <2>2
  <1>4. Cardinality(K) \in Nat
    BY <1>3, FS_CardinalityType
  <1>5. StartingSlots(s) = [i \in DOMAIN kept |-> s[kept[i]]]
    BY Zenon DEF StartingSlots, Filtered
  <1> HIDE DEF K
  <1>6. [i \in DOMAIN kept |-> s[kept[i]]] = t
    BY <1>3, KeptEntries
  <1> DEFINE V == {t[i] : i \in 1 .. Cardinality(K)}
  <1>7. t \in [1 .. Cardinality(K) -> V] /\ DOMAIN t = 1 .. Cardinality(K)
    OBVIOUS
  <1> HIDE DEF t, V, kept
  <1>8. Len(t) = Cardinality(K)
    BY <1>4, <1>7, LengthOf
  <1>9. QED
    BY <1>4, <1>5, <1>6, <1>7, <1>8

(* The problem posed for a lineup is one the solver's lemmas are about.    *)
LEMMA PosedIsProblem == world \in Worlds /\ Posed => Problem
  <1> SUFFICES ASSUME world \in Worlds, Posed
               PROVE  Problem
    OBVIOUS
  <1> DEFINE m == world.matchups[Where(grading)]
  <1>1. /\ grading \in world.lineups /\ Where(grading) \in DOMAIN world.matchups
        /\ in.slots = StartingSlots(world.rosterPositions[grading.league])
        /\ in.players = m.players /\ in.points = m.playerPoints
    BY DEF Posed, InputOf
  <1>2. /\ IsSequence(world.rosterPositions[grading.league]) /\ IsSequence(m.players)
        /\ \A p : PointsOf(m.playerPoints, p) \in Int
    BY <1>1, WorldFacts
  <1> HIDE DEF m
  <1>3. numSlots \in Nat
    BY <1>1, <1>2, SlotsAreListed DEF numSlots
  <1>4. Len(in.players) \in Nat
    BY <1>1, <1>2, LenProperties DEF IsSequence
  <1>5. \A v : Points(v) \in Int
    BY <1>1, <1>2 DEF Points
  <1>6. QED
    BY <1>3, <1>4, <1>5 DEF Problem

-----------------------------------------------------------------------------
(* The steps of Scores. *)

(* The call starts the first search, or answers 0 at once.                 *)
LEMMA BeginLineupKeeps ==
    ASSUME ScoresInv, NEW l \in world.lineups, BeginLineup(l)
    PROVE  ScoresInv'
  <1>1. /\ world' = world /\ grading' = l /\ Where(l) \in DOMAIN world.matchups
        /\ in' = InputOf(l)
        /\ used' = {} /\ cost' = 0
        /\ total' = IF NothingToValidate(in'.slots) THEN 0 ELSE Running
    BY DEF BeginLineup, BeginGrade, StartSolver, InputOf
  <1>2. world' \in Worlds /\ l # NoLineup
    BY <1>1, WorldFacts DEF ScoresInv
  <1>3. Posed'
    BY <1>1 DEF Posed, InputOf
  <1>4. Problem'
    <2>1. (world \in Worlds /\ Posed => Problem)'
      BY PosedIsProblem, PTL
    <2>2. QED
      BY <1>2, <1>3, <2>1
  <1>5. CASE NothingToValidate(in'.slots)
    <2>1. total' = 0 /\ total' # Running
      BY <1>1, <1>5, SolverAssumption
    <2>2. IsOptimum(total)'
      BY <1>5, <2>1 DEF IsOptimum
    <2>3. QED
      BY <1>1, <1>2, <1>3, <1>4, <2>1, <2>2 DEF ScoresInv, SolverInv
  <1>6. CASE ~NothingToValidate(in'.slots)
    <2>1. /\ dist' = [v \in Nodes' |-> IF v = source THEN 0 ELSE Infinity]
          /\ prev' = [v \in Nodes' |-> -1]
          /\ queue' = <<source>>
      <3> DEFINE nodes == source .. 1 + Len(in'.slots) + Len(world.matchups[Where(l)].players)
      <3>1. NewRound(nodes)
        BY DEF BeginLineup, StartSolver
      <3>2. nodes = Nodes'
        BY <1>1 DEF Nodes, sink, playerBase, numSlots, source, InputOf
      <3> HIDE DEF nodes
      <3>3. QED
        BY <3>1, <3>2 DEF NewRound
    <2>2. Started'
      BY <1>1, <1>4, <1>6, <2>1 DEF Started, source
    <2>3. OnTrack'
      <3>1. Started' => OnTrack'
        BY SolverStarts, PTL
      <3>2. QED
        BY <2>2, <3>1
    <2>4. total' = Running
      BY <1>1, <1>6
    <2>5. QED
      BY <1>1, <1>2, <1>3, <2>3, <2>4 DEF ScoresInv, SolverInv
  <1>7. QED
    BY <1>5, <1>6

LEMMA SolverInvStutters ==
    ASSUME SolverInv, UNCHANGED solverVars
    PROVE  SolverInv'
  <1>1. /\ in' = in /\ used' = used /\ cost' = cost /\ dist' = dist /\ prev' = prev
        /\ queue' = queue /\ total' = total
    BY DEF solverVars
  <1>2. Problem' <=> Problem
    BY <1>1, SameProblem
  <1>3. CASE total = Running
    <2>1. Problem /\ IsFlow(used) /\ ~NothingToValidate(in.slots) /\ cost = -WorthOf(Assigned(used))
      BY <1>3 DEF SolverInv, OnTrack
    <2>2. PICK pi : InSearch(pi)
      BY <1>3 DEF SolverInv, OnTrack
    <2>3. InSearch(pi)'
      BY <1>1, <2>2, SameSearch DEF InSearch
    <2>4. Problem' /\ ~NothingToValidate(in.slots)'
      BY <1>1, <2>1, SameProblem
    <2>5. IsFlow(used)'
      BY <1>1, <2>1, SameFlow
    <2>6. WorthOf(Assigned(used))' = WorthOf(Assigned(used))
      BY <1>1, SameAssigned, SameMatchings
    <2>7. OnTrack'
      BY <1>1, <2>1, <2>3, <2>4, <2>5, <2>6 DEF OnTrack
    <2>8. QED
      BY <1>1, <1>3, <2>7 DEF SolverInv
  <1>4. CASE total # Running
    <2>1. Problem /\ IsOptimum(total)
      BY <1>4 DEF SolverInv
    <2>2. IsOptimum(total)'
      BY <1>1, <2>1, SameOptimum
    <2>3. QED
      BY <1>1, <1>2, <1>4, <2>1, <2>2 DEF SolverInv
  <1>5. QED
    BY <1>3, <1>4

LEMMA ScoresStart == SInit => ScoresInv
  BY DEF SInit, Idle, BoardsInit, ScoresInv

LEMMA ScoresStep == ScoresInv /\ [SNext]_sVars => ScoresInv'
  <1> SUFFICES ASSUME ScoresInv, [SNext]_sVars
               PROVE  ScoresInv'
    OBVIOUS
  <1>1. CASE \E l \in world.lineups : BeginLineup(l)
    BY <1>1, BeginLineupKeeps
  <1>2. CASE Solve
    <2>1. world' = world /\ grading' = grading /\ SolverStep
      BY <1>2 DEF Solve, boardVars
    <2>2. total = Running /\ in' = in
      BY <2>1 DEF SolverStep, Relax, Send, Finish
    <2>3. grading # NoLineup /\ world \in Worlds /\ Posed /\ SolverInv
      BY <2>2, SolverAssumption DEF ScoresInv
    <2>4. SolverInv'
      BY <2>1, <2>3, SolverStepKeeps
    <2>5. Posed'
      BY <2>1, <2>2, <2>3 DEF Posed, InputOf
    <2>6. QED
      BY <2>1, <2>3, <2>4, <2>5 DEF ScoresInv
  <1>3. CASE EndLineup
    <2>1. grading' = NoLineup /\ world' = world
      BY <1>3 DEF EndLineup, EndGrade, AbandonGrade
    <2>2. in' = NoInput /\ total' = 0
      BY <1>3 DEF EndLineup, Return
    <2>3. QED
      BY <2>1, <2>2 DEF ScoresInv
  <1>4. CASE UNCHANGED <<solverVars, world, grading>>
    <2>1. world' = world /\ grading' = grading /\ UNCHANGED solverVars
      BY <1>4
    <2>2. in' = in /\ total' = total
      BY <2>1 DEF solverVars
    <2>3. CASE grading = NoLineup
      BY <2>1, <2>2, <2>3 DEF ScoresInv
    <2>4. CASE grading # NoLineup
      <3>1. Posed /\ SolverInv /\ world \in Worlds
        BY <2>4 DEF ScoresInv
      <3>2. SolverInv'
        BY <2>1, <3>1, SolverInvStutters
      <3>3. Posed'
        BY <2>1, <2>2, <3>1 DEF Posed, InputOf
      <3>4. QED
        BY <2>1, <2>4, <3>1, <3>2, <3>3 DEF ScoresInv
    <2>5. QED
      BY <2>3, <2>4
  <1>5. QED
    <2>1. SNext \/ UNCHANGED sVars
      OBVIOUS
    <2>2. UNCHANGED sVars => UNCHANGED <<solverVars, world, grading>>
      BY DEF sVars, boardVars
    <2>3. ASSUME NEW ask \in world.asks, BeginWalk(ask), UNCHANGED solverVars
          PROVE  UNCHANGED <<solverVars, world, grading>>
      BY <2>3 DEF BeginWalk
    <2>4. (QueryBaseline \/ QuerySetters) /\ UNCHANGED solverVars => UNCHANGED <<solverVars, world, grading>>
      BY DEF QueryBaseline, QuerySetters
    <2>5. QED
      BY <1>1, <1>2, <1>3, <1>4, <2>1, <2>2, <2>3, <2>4 DEF SNext

(* The problem being solved is that of the lineup being graded, and the    *)
(* solver is on track or has the optimum.                                  *)
LEMMA ScoresInvariance == SSpec => []ScoresInv
  BY ScoresStart, ScoresStep, PTL DEF SSpec

(* However the queue was worked through and whatever earlier units had to  *)
(* be moved, the flow after k units is the cheapest of its size: for every *)
(* roster, league, points of either sign and number of slots               *)
(* (minCostMaxFlow).                                                       *)
THEOREM FlowCheapest == SSpec => []FlowIsCheapest
  <1>1. ScoresInv => FlowIsCheapest
    <2>1. CASE grading = NoLineup
      BY <2>1, SolverAssumption DEF ScoresInv, FlowIsCheapest
    <2>2. CASE grading # NoLineup
      BY <2>2, InvIsCheapest DEF ScoresInv
    <2>3. QED
      BY <2>1, <2>2
  <1>2. QED
    BY <1>1, ScoresInvariance, PTL

(* The answer is the points of the best legal full lineup of the roster,   *)
(* and 0 when there is none: for every roster and league                   *)
(* (OptimalLineup).                                                        *)
THEOREM OptimalBest == SSpec => []OptimalIsBest
  <1>1. ScoresInv => OptimalIsBest
    <2>1. CASE grading = NoLineup
      BY <2>1 DEF ScoresInv, OptimalIsBest
    <2>2. CASE grading # NoLineup
      BY <2>2, InvIsBest DEF ScoresInv
    <2>3. QED
      BY <2>1, <2>2
  <1>2. QED
    BY <1>1, ScoresInvariance, PTL

-----------------------------------------------------------------------------
(* What a lineup's starters score. *)

StarterPoints(ids, points) == [i \in DOMAIN ids |-> PointsOf(points, ids[i])]

(* A lineup's points, as a sum in the sense of the solver's lemmas.        *)
LEMMA SumPointsIs ==
    ASSUME NEW ids, IsSequence(ids), NEW points, \A p : PointsOf(points, p) \in Int
    PROVE  /\ IsFiniteSet(DOMAIN ids)
           /\ Ints(StarterPoints(ids, points), DOMAIN ids)
           /\ sumPoints(ids, points) = SumOver(StarterPoints(ids, points), DOMAIN ids)
           /\ sumPoints(ids, points) \in Int
  <1> DEFINE S == DOMAIN ids
             g == StarterPoints(ids, points)
             at(i) == IF ids[i] \in DOMAIN points THEN points[ids[i]] ELSE 0
             sum == CHOOSE h : h = [s \in SUBSET S |-> IF s = {} THEN 0
                      ELSE at(Pick(s)) + h[s \ {Pick(s)}]]
  <1>1. IsFiniteSet(S)
    <2>1. S = 1 .. Len(ids) /\ Len(ids) \in Nat
      BY LenProperties DEF IsSequence
    <2>2. QED
      BY <2>1, FS_Interval
  <1>2. \A i \in S : g[i] = at(i) /\ g[i] \in Int
    BY DEF StarterPoints, PointsOf
  <1>3. Ints(g, S)
    BY <1>2 DEF Ints
  <1>4. sumPoints(ids, points) = sum[S]
    BY Zenon DEF sumPoints, MapThenSumSet, MapThenFoldSet, Pick
  <1>5. \A s \in SUBSET S : s # {} => g[Pick(s)] = at(Pick(s))
    BY <1>2, Picked
  <1> HIDE DEF g, at, S
  <1>6. PICK h \in [SUBSET S -> Int] : IsSum(h, g, S) /\ SumOver(g, S) = h[S]
    BY <1>1, <1>3, SumExistsFor
  <1>7. ASSUME NEW k
        PROVE  IsSum(k, g, S) <=> k = [s \in SUBSET S |-> IF s = {} THEN 0
                      ELSE at(Pick(s)) + k[s \ {Pick(s)}]]
    <2>1. \A s \in SUBSET S : (IF s = {} THEN 0 ELSE g[Pick(s)] + k[s \ {Pick(s)}])
             = (IF s = {} THEN 0 ELSE at(Pick(s)) + k[s \ {Pick(s)}])
      BY <1>5
    <2>2. QED
      BY <2>1, Zenon DEF IsSum
  <1>8. h = [s \in SUBSET S |-> IF s = {} THEN 0 ELSE at(Pick(s)) + h[s \ {Pick(s)}]]
    BY <1>6, <1>7
  <1>9. sum = [s \in SUBSET S |-> IF s = {} THEN 0 ELSE at(Pick(s)) + sum[s \ {Pick(s)}]]
    BY <1>8, Zenon
  <1> HIDE DEF sum
  <1>10. sum[S] = SumOver(g, S)
    <2>1. IsSum(sum, g, S) /\ S \in SUBSET S
      BY <1>7, <1>9
    <2>2. QED
      BY <1>1, <1>3, <2>1, SumIs
  <1>11. SumOver(g, S) \in Int
    BY <1>1, <1>3, SumType
  <1>12. QED
    BY <1>1, <1>3, <1>4, <1>10, <1>11 DEF g, S

(* Points added up along a one-to-one correspondence. *)
LEMMA SumRenamed ==
    ASSUME NEW S, IsFiniteSet(S), NEW f, \A x, y \in S : f[x] = f[y] => x = y,
           NEW g, Ints(g, S), NEW t, \A x \in S : g[x] = t[f[x]]
    PROVE  SumOver(g, S) = SumOver(t, {f[x] : x \in S})
  <1> DEFINE c == [x \in S |-> 0]
             T == {f[x] : x \in S}
             D == 0
  <1>1. Ints(c, S) /\ D \in Int /\ D = 0 /\ \A x \in S : c[x] = D - c[x]
    BY DEF Ints
  <1>2. \A x \in S : t[f[x]] \in Int /\ g[x] = c[x] + t[f[x]]
    BY DEF Ints
  <1>3. IsFiniteSet(T) /\ Ints(t, T)
    <2> DEFINE h == [x \in S |-> f[x]]
    <2>1. h \in Surjection(S, T)
      BY DEF Surjection
    <2>2. \A y \in T : t[y] \in Int
      BY <1>2
    <2> HIDE DEF h, T
    <2>3. IsFiniteSet(T)
      BY <2>1, FS_Surjection
    <2>4. QED
      BY <2>2, <2>3 DEF Ints
  <1> HIDE DEF c, D
  <1>4. SumOver(c, S) = D * Cardinality(S) - SumOver(c, S)
    BY <1>1, SumOfDifferences
  <1>5. SumOver(c, S) \in Int /\ Cardinality(S) \in Nat
    BY <1>1, SumType, FS_CardinalityType
  <1>6. SumOver(c, S) = 0
    BY <1>1, <1>4, <1>5
  <1>7. SumOver(g, S) = SumOver(c, S) + SumOver(t, T)
    BY <1>1, <1>2, SumAlong
  <1>8. SumOver(t, T) \in Int
    BY <1>3, SumType
  <1>9. QED
    BY <1>6, <1>7, <1>8

(* A legal lineup of the roster is one of the assignments the solver       *)
(* chooses from, and worth its points.                                     *)
LEMMA LegalIsMatching ==
    ASSUME Problem, NEW ids, IsSequence(ids), IsSequence(in.players),
           DOMAIN in.slots = slotNodes, \A p : PointsOf(in.points, p) \in Int,
           ToSet(ids) \subseteq ToSet(in.players), IsLegal(in.slots, ids, in.positions)
    PROVE  \E seat : IsMatching(seat, slotNodes) /\ WorthOf(seat) = sumPoints(ids, in.points)
  <1>1. PICK f \in Bijection(slotNodes, DOMAIN ids) :
           \A s \in slotNodes : eligible(in.positions, ids[f[s]], in.slots[s])
    BY DEF IsLegal
  <1>2. /\ \A s \in slotNodes : f[s] \in DOMAIN ids
        /\ \A r, s \in slotNodes : f[r] = f[s] => r = s
        /\ {f[s] : s \in slotNodes} = DOMAIN ids
    BY <1>1 DEF Bijection, Injection, Surjection, IsInjective
  <1>3. \A i, j \in DOMAIN ids : ids[i] = ids[j] => i = j
    BY DEF IsLegal, IsInjective
  <1>4. ASSUME NEW s \in slotNodes
        PROVE  \E v \in playerNodes : player(v) = ids[f[s]]
    <2>1. ids[f[s]] \in ToSet(in.players)
      BY <1>2 DEF ToSet
    <2>2. PICK i \in DOMAIN in.players : in.players[i] = ids[f[s]]
      BY <2>1 DEF ToSet
    <2>3. i \in 1 .. Len(in.players) /\ Len(in.players) \in Nat
      BY LenProperties DEF IsSequence
    <2> DEFINE v == playerBase + i - 1
    <2>4. numSlots \in Nat
      BY DEF Problem
    <2>5. v \in playerNodes
      <3> DEFINE k == Len(in.players)
                 b == playerBase
      <3>1. k \in Nat /\ i \in 1 .. k /\ b \in Nat
        BY <2>3, <2>4 DEF playerBase
      <3>2. playerNodes = b .. (b + k) - 1
        BY DEF playerNodes, sink
      <3> HIDE DEF k, b
      <3>3. b + i - 1 \in b .. (b + k) - 1
        BY <3>1
      <3>4. QED
        BY <3>2, <3>3 DEF b
    <2>6. v - playerBase + 1 = i
      BY <2>3, <2>4 DEF playerBase
    <2>7. QED
      BY <2>2, <2>5, <2>6 DEF player
  <1> DEFINE seat == [s \in slotNodes |-> CHOOSE v \in playerNodes : player(v) = ids[f[s]]]
  <1>5. ASSUME NEW s \in slotNodes
        PROVE  seat[s] \in playerNodes /\ player(seat[s]) = ids[f[s]]
    <2>1. seat[s] = CHOOSE v \in playerNodes : player(v) = ids[f[s]]
      OBVIOUS
    <2> HIDE DEF seat
    <2>2. QED
      BY <1>4, <2>1
  <1>6. DOMAIN seat = slotNodes /\ seat \in [slotNodes -> playerNodes]
    <2>1. \A s \in slotNodes : (CHOOSE v \in playerNodes : player(v) = ids[f[s]]) \in playerNodes
      BY <1>4
    <2>2. QED
      BY <2>1
  <1> HIDE DEF seat
  <1>7. ASSUME NEW r \in slotNodes, NEW s \in slotNodes, seat[r] = seat[s]
        PROVE  r = s
    <2>1. ids[f[r]] = ids[f[s]]
      BY <1>5, <1>7
    <2>2. f[r] = f[s]
      BY <1>2, <1>3, <2>1
    <2>3. QED
      BY <1>2, <2>2
  <1>8. \A s \in slotNodes : Fits(s, seat[s])
    BY <1>1, <1>5 DEF Fits
  <1>9. IsMatching(seat, slotNodes)
    BY <1>6, <1>7, <1>8 DEF IsMatching, Injection, IsInjective
  <1> DEFINE g == PointsAlong(seat)
             t == StarterPoints(ids, in.points)
  <1>10. IsFiniteSet(slotNodes) /\ Ints(g, slotNodes) /\ WorthOf(seat) = SumOver(g, slotNodes)
    BY <1>6, <1>9, WorthIsSum DEF WorthOf
  <1>11. ASSUME NEW s \in slotNodes
         PROVE  g[s] = t[f[s]]
    <2>1. g[s] = PointsOf(in.points, player(seat[s]))
      BY <1>6 DEF PointsAlong, Points
    <2>2. t[f[s]] = PointsOf(in.points, ids[f[s]])
      BY <1>2 DEF StarterPoints
    <2>3. QED
      BY <1>5, <2>1, <2>2
  <1> HIDE DEF g
  <1>12. sumPoints(ids, in.points) = SumOver(t, DOMAIN ids)
    BY SumPointsIs
  <1> HIDE DEF t
  <1>13. SumOver(g, slotNodes) = SumOver(t, {f[s] : s \in slotNodes})
    BY <1>2, <1>10, <1>11, SumRenamed
  <1>14. WorthOf(seat) = sumPoints(ids, in.points)
    BY <1>2, <1>10, <1>12, <1>13
  <1>15. QED
    BY <1>9, <1>14

(* No lineup that is legal for the graded roster scores above the optimum  *)
(* it is measured by: for every roster, league and points of either sign   *)
(* (OptimalLineup, GradeWeek).                                             *)
THEOREM NoLegalLineupBeats == SSpec => []LegalNeverBeatsOptimal
  <1>1. ScoresInv => LegalNeverBeatsOptimal
    <2> SUFFICES ASSUME ScoresInv, grading # NoLineup, total # Running,
                        ~NothingToValidate(in.slots),
                        ToSet(grading.starters) \subseteq ToSet(in.players),
                        IsLegal(in.slots, grading.starters, in.positions)
                 PROVE  sumPoints(grading.starters, in.points) <= total
      BY DEF LegalNeverBeatsOptimal
    <2>1. world \in Worlds /\ Posed /\ Problem /\ IsOptimum(total)
      BY DEF ScoresInv, SolverInv
    <2> DEFINE m == world.matchups[Where(grading)]
    <2>2. /\ grading \in world.lineups /\ Where(grading) \in DOMAIN world.matchups
          /\ in.slots = StartingSlots(world.rosterPositions[grading.league])
          /\ in.players = m.players /\ in.points = m.playerPoints
      BY <2>1 DEF Posed, InputOf
    <2>3. /\ IsSequence(grading.starters) /\ IsSequence(m.players)
          /\ IsSequence(world.rosterPositions[grading.league])
          /\ \A p : PointsOf(m.playerPoints, p) \in Int
      BY <2>1, <2>2, WorldFacts
    <2> HIDE DEF m
    <2>4. DOMAIN in.slots = slotNodes
      BY <2>2, <2>3, SlotsAreListed DEF slotNodes, numSlots
    <2>5. PICK seat : IsMatching(seat, slotNodes) /\ WorthOf(seat) = sumPoints(grading.starters, in.points)
      BY <2>1, <2>2, <2>3, <2>4, LegalIsMatching
    <2>6. QED
      BY <2>1, <2>5 DEF IsOptimum
  <1>2. QED
    BY <1>1, ScoresInvariance, PTL

(* Whatever the solver is asked and answers, grading with it is grading as *)
(* Boards has it: a lineup comes out with three integers once, and nothing *)
(* else of the boards' state changes (OptimalLineup, gradeLineupWeek).     *)
THEOREM ScoresImplementsBoards == SSpec => BoardsSpec
  <1>1. SInit => BoardsInit
    BY DEF SInit
  <1>2. ScoresInv /\ [SNext]_sVars => [BoardsNext]_boardVars
    <2> SUFFICES ASSUME ScoresInv, [SNext]_sVars
                 PROVE  BoardsNext \/ UNCHANGED boardVars
      OBVIOUS
    <2>1. ASSUME NEW l \in world.lineups, BeginLineup(l)
          PROVE  BoardsNext
      BY <2>1 DEF BeginLineup, BoardsNext
    <2>2. CASE Solve
      BY <2>2 DEF Solve
    <2>3. CASE EndLineup
      <3>1. CASE AbandonGrade
        BY <3>1 DEF BoardsNext
      <3>2. CASE ~AbandonGrade
        <4> DEFINE m == world.matchups[Where(grading)]
                   user == sumPoints(grading.starters, m.playerPoints)
        <4>1. EndGrade(user, OfficialTotal(m), total) /\ total # Running
          BY <2>3, <3>2 DEF EndLineup, Return
        <4>2. grading # NoLineup
          BY <4>1 DEF EndGrade, AtRest
        <4>3. world \in Worlds /\ Posed /\ total \in Int
          BY <4>1, <4>2 DEF ScoresInv, SolverInv, IsOptimum
        <4>4. /\ IsSequence(grading.starters) /\ OfficialTotal(m) \in Int
              /\ \A p : PointsOf(m.playerPoints, p) \in Int
          BY <4>3, WorldFacts DEF Posed
        <4>5. user \in Int
          BY <4>4, SumPointsIs
        <4> HIDE DEF user, m
        <4>6. QED
          BY <4>1, <4>3, <4>4, <4>5 DEF BoardsNext
      <3>3. QED
        BY <3>1, <3>2
    <2>4. CASE UNCHANGED sVars
      BY <2>4 DEF sVars
    <2>5. QED
      BY <2>1, <2>2, <2>3, <2>4 DEF SNext, BoardsNext
  <1>3. QED
    BY <1>1, <1>2, ScoresInvariance, PTL DEF SSpec, BoardsSpec

-----------------------------------------------------------------------------
(* Validation.  Two inductions over sets in place of properties: the       *)
(* library's take an operator as a parameter.                              *)

(* A set of numbers has a least one.                                       *)
LEMMA LeastNumber ==
    ASSUME NEW S \in SUBSET Nat, S # {}
    PROVE  \E n \in S : \A m \in S : n <= m
  <1>1. PICK k \in S : TRUE
    OBVIOUS
  <1> DEFINE I == 0 .. k
             Bad == {T \in SUBSET I : \E n \in S : n <= k /\ T = 0 .. n}
  <1>2. IsFiniteSet(I)
    BY <1>1, FS_Interval
  <1>3. 0 .. k \in Bad
    BY <1>1
  <1>4. PICK T \in Bad : \A U \in Bad : U \subseteq T => U = T
    <2>1. Bad \in SUBSET SUBSET I /\ Bad # {}
      BY <1>3
    <2> HIDE DEF Bad, I
    <2>2. QED
      BY <1>2, <2>1, SmallestSubset
  <1>5. PICK n \in S : n <= k /\ T = 0 .. n
    BY <1>4
  <1>6. ASSUME NEW m \in S
        PROVE  n <= m
    <2>1. n \in Nat /\ m \in Nat
      OBVIOUS
    <2>2. CASE n > m
      <3>1. 0 .. m \in Bad /\ 0 .. m \subseteq T
        BY <1>1, <1>5, <2>1, <2>2
      <3>2. 0 .. m = 0 .. n
        BY <1>4, <1>5, <3>1
      <3>3. n \in 0 .. n /\ n \notin 0 .. m
        BY <2>1, <2>2
      <3>4. QED
        BY <3>2, <3>3
    <2>3. QED
      BY <2>1, <2>2
  <1>7. QED
    BY <1>6

(* A set of numbers that holds 0 and each successor holds all.             *)
LEMMA CountingUp ==
    ASSUME NEW G, 0 \in G, \A k \in Nat : k \in G => k + 1 \in G
    PROVE  \A k \in Nat : k \in G
  <1> DEFINE Bad == {k \in Nat : k \notin G}
  <1>1. SUFFICES ASSUME Bad # {}
                 PROVE  FALSE
    OBVIOUS
  <1>2. PICK n \in Bad : \A m \in Bad : n <= m
    BY <1>1, LeastNumber
  <1>3. n \in Nat /\ n # 0 /\ n - 1 \in Nat
    BY <1>2
  <1>4. n - 1 \in G
    BY <1>2, <1>3
  <1>5. n \in G
    BY <1>3, <1>4
  <1>6. QED
    BY <1>2, <1>5

(* A family of subsets that holds each one whose supersets it holds, holds *)
(* all.                                                                    *)
LEMMA FromAboveDown ==
    ASSUME NEW S, IsFiniteSet(S), NEW G,
           \A V \in SUBSET S : (\A W \in SUBSET S : V \subseteq W /\ W # V => W \in G) => V \in G
    PROVE  \A V \in SUBSET S : V \in G
  <1> DEFINE Bad == {U \in SUBSET S : S \ U \notin G}
  <1>1. SUFFICES ASSUME NEW V \in SUBSET S, V \notin G
                 PROVE  FALSE
    OBVIOUS
  <1>2. S \ V \in Bad
    <2> DEFINE W == S \ (S \ V)
    <2>1. W = V
      OBVIOUS
    <2> HIDE DEF W
    <2>2. W \notin G
      BY <1>1, <2>1
    <2>3. QED
      BY <2>2 DEF W
  <1>3. PICK U \in Bad : \A T \in Bad : T \subseteq U => T = U
    <2>1. Bad \in SUBSET SUBSET S
      OBVIOUS
    <2> HIDE DEF Bad
    <2>2. QED
      BY <1>2, <2>1, SmallestSubset
  <1>4. ASSUME NEW W \in SUBSET S, S \ U \subseteq W, W # S \ U
        PROVE  W \in G
    <2>1. S \ W \subseteq U /\ S \ W # U
      BY <1>3, <1>4
    <2>2. S \ W \notin Bad
      <3> HIDE DEF Bad
      <3>1. QED
        BY <1>3, <2>1
    <2>3. S \ (S \ W) \in G
      BY <2>2
    <2>4. S \ (S \ W) = W
      OBVIOUS
    <2>5. QED
      BY <2>3, <2>4, Zenon
  <1>5. S \ U \in G
    BY <1>4
  <1>6. QED
    BY <1>3, <1>5

-----------------------------------------------------------------------------
(* augment is defined by its own equation. *)

Posable(problem) ==
    /\ Len(problem.slots) \in Nat /\ DOMAIN problem.slots = 1 .. Len(problem.slots)
    /\ Len(problem.starters) \in Nat /\ DOMAIN problem.starters = 1 .. Len(problem.starters)

Results(problem) ==
    [found   : BOOLEAN,
     visited : SUBSET DOMAIN problem.starters,
     match   : [DOMAIN problem.starters -> DOMAIN problem.slots \cup {0}]]

First(problem, st) ==
    CHOOSE i \in Candidates(problem, st) : \A j \in Candidates(problem, st) : i <= j

(* The search for another slot for the first candidate. *)
MoveFirst(problem, st) ==
    [slot |-> st.match[First(problem, st)], visited |-> st.visited \cup {First(problem, st)},
     match |-> st.match]

(* The search once the first candidate stays where it is. *)
GoOn(st, moved) == [slot |-> st.slot, visited |-> moved.visited, match |-> moved.match]

Moved(problem, f, st) ==
    IF st.match[First(problem, st)] = 0
    THEN [found |-> TRUE, visited |-> st.visited \cup {First(problem, st)}, match |-> st.match]
    ELSE f[MoveFirst(problem, st)]

(* TakeNext, as cases. *)
LEMMA TakeNextIs ==
    ASSUME NEW problem, NEW f, NEW st
    PROVE  TakeNext(problem, f, st) =
             IF Candidates(problem, st) = {}
             THEN [found |-> FALSE, visited |-> st.visited, match |-> st.match]
             ELSE IF Moved(problem, f, st).found
                  THEN [Moved(problem, f, st) EXCEPT !.match[First(problem, st)] = st.slot]
             ELSE f[GoOn(st, Moved(problem, f, st))]
  BY Zenon DEF TakeNext, Moved, MoveFirst, GoOn, First

LEMMA FirstIsOne ==
    ASSUME NEW problem, Posable(problem), NEW st, Candidates(problem, st) # {}
    PROVE  First(problem, st) \in Candidates(problem, st)
  <1>1. Candidates(problem, st) \in SUBSET Nat
    BY DEF Candidates, Posable
  <1>2. \E i \in Candidates(problem, st) : \A j \in Candidates(problem, st) : i <= j
    BY <1>1, LeastNumber
  <1>3. QED
    BY <1>2, Zenon DEF First

LEMMA SearchFields ==
    ASSUME NEW problem, NEW st \in Searches(problem)
    PROVE  /\ st.slot \in DOMAIN problem.slots
           /\ st.visited \in SUBSET DOMAIN problem.starters
           /\ st.match \in [DOMAIN problem.starters -> DOMAIN problem.slots \cup {0}]
  BY DEF Searches

LEMMA IsSearch ==
    ASSUME NEW problem, NEW s \in DOMAIN problem.slots, NEW V \in SUBSET DOMAIN problem.starters,
           NEW m \in [DOMAIN problem.starters -> DOMAIN problem.slots \cup {0}]
    PROVE  [slot |-> s, visited |-> V, match |-> m] \in Searches(problem)
  BY DEF Searches

(* f answers what is asked after st. *)
AnswersAfter(problem, f, st) ==
    \A t \in Searches(problem) :
        st.visited \subseteq t.visited /\ t.visited # st.visited
        => f[t] \in Results(problem) /\ t.visited \subseteq f[t].visited

(* The searches that a round asks for have visited more. *)
LEMMA MovedIs ==
    ASSUME NEW problem, Posable(problem), NEW st \in Searches(problem), Candidates(problem, st) # {},
           NEW f, AnswersAfter(problem, f, st)
    PROVE  LET pi == First(problem, st)
               m  == Moved(problem, f, st)
           IN  /\ pi \in DOMAIN problem.starters \ st.visited
               /\ st.match[pi] # 0 => MoveFirst(problem, st) \in Searches(problem)
               /\ m \in Results(problem)
               /\ st.visited \cup {pi} \subseteq m.visited
               /\ GoOn(st, m) \in Searches(problem)
  <1> DEFINE pi == First(problem, st)
             m == Moved(problem, f, st)
             P == DOMAIN problem.starters
             S == DOMAIN problem.slots
  <1>1. pi \in P \ st.visited
    BY FirstIsOne DEF Candidates
  <1>2. st.slot \in S /\ st.visited \in SUBSET P /\ st.match \in [P -> S \cup {0}]
    BY SearchFields
  <1>3. CASE st.match[pi] = 0
    <2>1. m = [found |-> TRUE, visited |-> st.visited \cup {pi}, match |-> st.match]
      BY <1>3 DEF Moved
    <2>2. m \in Results(problem) /\ st.visited \cup {pi} \subseteq m.visited
      BY <1>1, <1>2, <2>1 DEF Results
    <2>3. QED
      BY <1>1, <1>2, <1>3, <2>2, IsSearch DEF Results, GoOn
  <1>4. CASE st.match[pi] # 0
    <2>1. st.match[pi] \in S /\ st.visited \cup {pi} \in SUBSET P
      BY <1>1, <1>2, <1>4
    <2>2. MoveFirst(problem, st) \in Searches(problem)
      BY <1>2, <2>1, IsSearch DEF MoveFirst
    <2>3. MoveFirst(problem, st).visited = st.visited \cup {pi}
      BY DEF MoveFirst
    <2>4. m = f[MoveFirst(problem, st)]
      BY <1>4 DEF Moved
    <2>5. m \in Results(problem) /\ st.visited \cup {pi} \subseteq m.visited
      BY <1>1, <2>2, <2>3, <2>4 DEF AnswersAfter
    <2>6. QED
      BY <1>1, <1>2, <2>2, <2>5, IsSearch DEF Results, GoOn
  <1>5. QED
    BY <1>3, <1>4

(* So a round depends on what is asked after it only. *)
LEMMA RoundDepends ==
    ASSUME NEW problem, Posable(problem), NEW st \in Searches(problem),
           NEW f, NEW g, AnswersAfter(problem, f, st),
           \A t \in Searches(problem) :
               st.visited \subseteq t.visited /\ t.visited # st.visited => g[t] = f[t]
    PROVE  /\ TakeNext(problem, g, st) = TakeNext(problem, f, st)
           /\ TakeNext(problem, f, st) \in Results(problem)
           /\ st.visited \subseteq TakeNext(problem, f, st).visited
  <1> DEFINE pi == First(problem, st)
             m == Moved(problem, f, st)
             P == DOMAIN problem.starters
             S == DOMAIN problem.slots
  <1>1. st.slot \in S /\ st.visited \in SUBSET P /\ st.match \in [P -> S \cup {0}]
    BY SearchFields
  <1>2. CASE Candidates(problem, st) = {}
    <2>1. /\ TakeNext(problem, f, st) = [found |-> FALSE, visited |-> st.visited, match |-> st.match]
          /\ TakeNext(problem, g, st) = [found |-> FALSE, visited |-> st.visited, match |-> st.match]
      BY <1>2, TakeNextIs
    <2>2. QED
      BY <1>1, <2>1 DEF Results
  <1>3. CASE Candidates(problem, st) # {}
    <2>1. /\ pi \in P \ st.visited
          /\ st.match[pi] # 0 => MoveFirst(problem, st) \in Searches(problem)
          /\ m \in Results(problem) /\ st.visited \cup {pi} \subseteq m.visited
          /\ GoOn(st, m) \in Searches(problem)
      BY <1>3, MovedIs
    <2>2. MoveFirst(problem, st).visited = st.visited \cup {pi} /\ GoOn(st, m).visited = m.visited
      BY DEF MoveFirst, GoOn
    <2>3. Moved(problem, g, st) = m
      BY <2>1, <2>2 DEF Moved
    <2>4. g[GoOn(st, m)] = f[GoOn(st, m)] /\ f[GoOn(st, m)] \in Results(problem)
          /\ m.visited \subseteq f[GoOn(st, m)].visited
      BY <2>1, <2>2 DEF AnswersAfter
    <2>5. TakeNext(problem, f, st) =
             IF m.found THEN [m EXCEPT !.match[pi] = st.slot] ELSE f[GoOn(st, m)]
      BY <1>3, TakeNextIs
    <2>6. TakeNext(problem, g, st) =
             IF m.found THEN [m EXCEPT !.match[pi] = st.slot] ELSE g[GoOn(st, m)]
      BY <1>3, <2>3, TakeNextIs
    <2>7. /\ [m EXCEPT !.match[pi] = st.slot] \in Results(problem)
          /\ [m EXCEPT !.match[pi] = st.slot].visited = m.visited
      BY <1>1, <2>1 DEF Results
    <2> HIDE DEF m
    <2>8. QED
      BY <2>1, <2>4, <2>5, <2>6, <2>7
  <1>4. QED
    BY <1>2, <1>3

-----------------------------------------------------------------------------
(* How much is left to visit: what a round asks for has less. *)
Unvisited(problem, st) == Cardinality(DOMAIN problem.starters \ st.visited)

LEMMA LessIsLeft ==
    ASSUME NEW problem, Posable(problem), NEW st \in Searches(problem), NEW t \in Searches(problem)
    PROVE  /\ Unvisited(problem, st) \in Nat
           /\ Unvisited(problem, st) <= Len(problem.starters)
           /\ st.visited \subseteq t.visited /\ t.visited # st.visited
              => Unvisited(problem, t) < Unvisited(problem, st)
  <1> DEFINE P == DOMAIN problem.starters
             A == P \ st.visited
             B == P \ t.visited
  <1>1. IsFiniteSet(P) /\ Cardinality(P) = Len(problem.starters)
    <2> DEFINE n == Len(problem.starters)
    <2>1. P = 1 .. n /\ n \in Nat
      BY DEF Posable
    <2> HIDE DEF P, n
    <2>2. IsFiniteSet(1 .. n) /\ Cardinality(1 .. n) = n
      BY <2>1, FS_Interval
    <2>3. P = 1 .. n /\ IsFiniteSet(P) /\ Cardinality(P) = n
      BY <2>1, <2>2
    <2>4. QED
      BY <2>3 DEF n
  <1>2. st.visited \in SUBSET P /\ t.visited \in SUBSET P
    BY SearchFields
  <1>3. A \in SUBSET P
    OBVIOUS
  <1> HIDE DEF P
  <1>4. IsFiniteSet(A) /\ Cardinality(A) <= Cardinality(P) /\ Cardinality(A) \in Nat
    <2> HIDE DEF A
    <2>1. QED
      BY <1>1, <1>3, FS_Subset, FS_CardinalityType
  <1>5. ASSUME st.visited \subseteq t.visited, t.visited # st.visited
        PROVE  Cardinality(B) < Cardinality(A)
    <2>1. B \in SUBSET A /\ B # A
      BY <1>2, <1>5
    <2> HIDE DEF A, B
    <2>2. Cardinality(B) <= Cardinality(A) /\ Cardinality(B) # Cardinality(A) /\ IsFiniteSet(B)
      BY <1>4, <2>1, FS_Subset
    <2>3. QED
      BY <1>4, <2>2, FS_CardinalityType
  <1>6. QED
    BY <1>1, <1>4, <1>5 DEF Unvisited, P

(* f is right about the searches with less than k left to visit.           *)
RightBelow(problem, f, k) ==
    \A st \in Searches(problem) : Unvisited(problem, st) < k =>
        /\ f[st] = TakeNext(problem, f, st)
        /\ f[st] \in Results(problem)
        /\ st.visited \subseteq f[st].visited

LEMMA RightAfter ==
    ASSUME NEW problem, Posable(problem), NEW f, NEW k \in Nat, RightBelow(problem, f, k),
           NEW st \in Searches(problem), Unvisited(problem, st) < k + 1
    PROVE  /\ AnswersAfter(problem, f, st)
           /\ \A t \in Searches(problem) :
                 st.visited \subseteq t.visited /\ t.visited # st.visited
                 => f[t] = TakeNext(problem, f, t)
  <1>1. ASSUME NEW t \in Searches(problem), st.visited \subseteq t.visited, t.visited # st.visited
        PROVE  Unvisited(problem, t) < k
    <2>1. Unvisited(problem, t) < Unvisited(problem, st)
          /\ Unvisited(problem, t) \in Nat /\ Unvisited(problem, st) \in Nat
      BY <1>1, LessIsLeft
    <2>2. QED
      BY <2>1
  <1>2. QED
    BY <1>1 DEF RightBelow, AnswersAfter

(* A function right below k, put through one more round, is right below    *)
(* k + 1.                                                                  *)
LEMMA OneMoreRound ==
    ASSUME NEW problem, Posable(problem), NEW g, NEW k \in Nat, RightBelow(problem, g, k)
    PROVE  RightBelow(problem, [st \in Searches(problem) |-> TakeNext(problem, g, st)], k + 1)
  <1> DEFINE f == [st \in Searches(problem) |-> TakeNext(problem, g, st)]
  <1>1. \A st \in Searches(problem) : f[st] = TakeNext(problem, g, st)
    OBVIOUS
  <1> HIDE DEF f
  <1>2. ASSUME NEW st \in Searches(problem), Unvisited(problem, st) < k + 1
        PROVE  /\ f[st] = TakeNext(problem, f, st)
               /\ f[st] \in Results(problem)
               /\ st.visited \subseteq f[st].visited
    <2>1. /\ AnswersAfter(problem, g, st)
          /\ \A t \in Searches(problem) :
                st.visited \subseteq t.visited /\ t.visited # st.visited => f[t] = g[t]
      BY <1>1, <1>2, RightAfter
    <2>2. /\ TakeNext(problem, f, st) = TakeNext(problem, g, st)
          /\ TakeNext(problem, g, st) \in Results(problem)
          /\ st.visited \subseteq TakeNext(problem, g, st).visited
      BY <2>1, RoundDepends
    <2>3. QED
      BY <1>1, <2>2
  <1>3. QED
    BY <1>2 DEF RightBelow, f

(* So there is a function right everywhere, and augment is one: it takes   *)
(* rounds as the code does, and what it has visited stays visited.         *)
LEMMA AugmentIs ==
    ASSUME NEW problem, Posable(problem), NEW st \in Searches(problem)
    PROVE  /\ Augment(problem)[st] = TakeNext(problem, Augment(problem), st)
           /\ AnswersAfter(problem, Augment(problem), st)
           /\ Augment(problem)[st] \in Results(problem)
           /\ st.visited \subseteq Augment(problem)[st].visited
  <1> DEFINE D == Searches(problem)
             G == {k \in Nat : \E f : f = [t \in D |-> f[t]] /\ RightBelow(problem, f, k)}
             n == Len(problem.starters) + 1
  <1>1. 0 \in G
    <2> DEFINE f == [t \in D |-> 0]
    <2>1. f = [t \in D |-> f[t]]
      OBVIOUS
    <2>2. RightBelow(problem, f, 0)
      <3> HIDE DEF f
      <3>1. \A t \in D : ~(Unvisited(problem, t) < 0)
        BY LessIsLeft
      <3>2. QED
        BY <3>1 DEF RightBelow
    <2> HIDE DEF f, D
    <2>3. QED
      BY <2>1, <2>2
  <1>2. ASSUME NEW k \in Nat, k \in G
        PROVE  k + 1 \in G
    <2>1. PICK g : RightBelow(problem, g, k)
      BY <1>2
    <2> DEFINE f == [t \in D |-> TakeNext(problem, g, t)]
    <2>2. f = [t \in D |-> f[t]]
      OBVIOUS
    <2>3. RightBelow(problem, f, k + 1)
      BY <2>1, OneMoreRound
    <2> HIDE DEF f, D
    <2>4. QED
      BY <2>2, <2>3
  <1> HIDE DEF G
  <1>3. n \in G
    <2>1. n \in Nat
      BY DEF Posable
    <2>2. QED
      BY <1>1, <1>2, <2>1, CountingUp
  <1>4. PICK f : f = [t \in D |-> f[t]] /\ RightBelow(problem, f, n)
    BY <1>3 DEF G
  <1>5. \A t \in D : Unvisited(problem, t) < n
    <2>1. \A t \in D : Unvisited(problem, t) \in Nat /\ Unvisited(problem, t) <= Len(problem.starters)
      BY LessIsLeft
    <2>2. QED
      BY <2>1 DEF Posable
  <1>6. \A t \in D : f[t] = TakeNext(problem, f, t)
    BY <1>4, <1>5 DEF RightBelow
  <1>7. f = [t \in D |-> TakeNext(problem, f, t)]
    <2>1. [t \in D |-> f[t]] = [t \in D |-> TakeNext(problem, f, t)]
      BY <1>6
    <2>2. QED
      BY <1>4, <2>1
  <1> DEFINE aug == Augment(problem)
  <1>8. aug = CHOOSE h : h = [t \in D |-> TakeNext(problem, h, t)]
    BY Zenon DEF Augment
  <1>9. aug = [t \in D |-> TakeNext(problem, aug, t)]
    BY <1>7, <1>8, Zenon
  <1> HIDE DEF aug
  <1>10. \A t \in D : aug[t] = TakeNext(problem, aug, t)
    BY <1>9, Zenon
  <1> DEFINE H == {k \in Nat : RightBelow(problem, aug, k)}
  <1>11. 0 \in H
    <2>1. \A t \in D : ~(Unvisited(problem, t) < 0)
      BY LessIsLeft
    <2>2. QED
      BY <2>1 DEF RightBelow
  <1>12. ASSUME NEW k \in Nat, k \in H
         PROVE  k + 1 \in H
    <2>1. RightBelow(problem, aug, k)
      BY <1>12
    <2>2. ASSUME NEW t \in D, Unvisited(problem, t) < k + 1
          PROVE  aug[t] \in Results(problem) /\ t.visited \subseteq aug[t].visited
      <3>1. AnswersAfter(problem, aug, t)
        BY <2>1, <2>2, RightAfter
      <3>2. TakeNext(problem, aug, t) \in Results(problem)
            /\ t.visited \subseteq TakeNext(problem, aug, t).visited
        BY <3>1, RoundDepends
      <3>3. QED
        BY <1>10, <3>2
    <2>3. RightBelow(problem, aug, k + 1)
      BY <1>10, <2>2 DEF RightBelow
    <2>4. QED
      BY <2>3
  <1> HIDE DEF H
  <1>13. n \in Nat /\ n \in H
    <2>1. n \in Nat
      BY DEF Posable
    <2>2. QED
      BY <1>11, <1>12, <2>1, CountingUp
  <1>14. RightBelow(problem, aug, n)
    BY <1>13 DEF H
  <1>15. /\ aug[st] \in Results(problem) /\ st.visited \subseteq aug[st].visited
         /\ AnswersAfter(problem, aug, st)
    BY <1>5, <1>14 DEF RightBelow, AnswersAfter
  <1>16. QED
    BY <1>10, <1>15 DEF aug

-----------------------------------------------------------------------------
(* What an augmenting search does. *)

CanTake(problem, s, p) == eligible(problem.positions, problem.starters[p], problem.slots[s])

EachCanTake(problem, match) ==
    \A p \in DOMAIN problem.starters : match[p] # 0 => CanTake(problem, match[p], p)

OneEach(problem, match) ==
    \A p, q \in DOMAIN problem.starters : match[p] = match[q] /\ match[p] # 0 => p = q

(* A search is for a slot of which the holder, if it has one, has been     *)
(* visited.                                                                *)
Ready(problem, st) ==
    /\ EachCanTake(problem, st.match)
    /\ OneEach(problem, st.match)
    /\ \A p \in DOMAIN problem.starters : st.match[p] = st.slot => p \in st.visited

(* It succeeds with the slot given to someone not visited before, nobody   *)
(* visited moved, and every other slot held as it was, by one starter; the *)
(* slot's holder, whom the caller moves, has it still.                     *)
Placed(problem, st, match) ==
    /\ EachCanTake(problem, match)
    /\ \A p \in st.visited : match[p] = st.match[p]
    /\ \E p \in DOMAIN problem.starters \ st.visited : match[p] = st.slot
    /\ \A p, q \in DOMAIN problem.starters :
          match[p] = match[q] /\ match[p] # 0 /\ p # q
          => match[p] = st.slot /\ (p \in st.visited \/ q \in st.visited)
    /\ \A q \in DOMAIN problem.starters :
          st.match[q] # 0 => \E p \in DOMAIN problem.starters : match[p] = st.match[q]
    /\ \A p \in DOMAIN problem.starters :
          match[p] # 0 /\ match[p] # st.slot => \E q \in DOMAIN problem.starters : st.match[q] = match[p]

(* It fails with nobody moved and everyone visited who could take the slot *)
(* or that of a starter visited on the way.                                *)
Stuck(problem, st, r) ==
    /\ r.match = st.match
    /\ \A p \in DOMAIN problem.starters : CanTake(problem, st.slot, p) => p \in r.visited
    /\ \A p \in r.visited \ st.visited :
          /\ st.match[p] # 0
          /\ \A q \in DOMAIN problem.starters : CanTake(problem, st.match[p], q) => q \in r.visited

Served(problem, st, r) == IF r.found THEN Placed(problem, st, r.match) ELSE Stuck(problem, st, r)

(* The first candidate is free and takes the slot.                         *)
LEMMA FreeTakes ==
    ASSUME NEW problem, Posable(problem), NEW st \in Searches(problem), Ready(problem, st),
           NEW pi \in DOMAIN problem.starters \ st.visited, CanTake(problem, st.slot, pi),
           st.match[pi] = 0
    PROVE  Placed(problem, st, [st.match EXCEPT ![pi] = st.slot])
  <1> DEFINE P == DOMAIN problem.starters
             S == DOMAIN problem.slots
             m == [st.match EXCEPT ![pi] = st.slot]
  <1>1. st.slot \in S /\ st.visited \in SUBSET P /\ st.match \in [P -> S \cup {0}] /\ 0 \notin S
    <2>1. 0 \notin S
      BY DEF Posable
    <2>2. QED
      BY <2>1, SearchFields
  <1>2. /\ m[pi] = st.slot
        /\ \A p \in P : p # pi => m[p] = st.match[p]
    BY <1>1
  <1>3. /\ \A p \in P : st.match[p] # 0 => CanTake(problem, st.match[p], p)
        /\ \A p, q \in P : st.match[p] = st.match[q] /\ st.match[p] # 0 => p = q
        /\ \A p \in P : st.match[p] = st.slot => p \in st.visited
    BY DEF Ready, EachCanTake, OneEach
  <1> HIDE DEF m
  <1>4. EachCanTake(problem, m)
    BY <1>2, <1>3 DEF EachCanTake
  <1>5. \A p \in st.visited : m[p] = st.match[p]
    BY <1>1, <1>2
  <1>6. \A q \in P : st.match[q] # 0 => m[q] = st.match[q]
    BY <1>2
  <1>7. \A p \in P : m[p] # 0 /\ m[p] # st.slot => st.match[p] = m[p]
    BY <1>2
  <1>8. ASSUME NEW p \in P, NEW q \in P, m[p] = m[q], m[p] # 0, p # q
        PROVE  m[p] = st.slot /\ (p \in st.visited \/ q \in st.visited)
    BY <1>2, <1>3, <1>8
  <1>9. QED
    BY <1>2, <1>4, <1>5, <1>6, <1>7, <1>8 DEF Placed, m

(* The first candidate holds another slot, finds a third for it, and takes *)
(* the slot.                                                               *)
LEMMA MovedTakes ==
    ASSUME NEW problem, Posable(problem), NEW st \in Searches(problem), Ready(problem, st),
           NEW pi \in DOMAIN problem.starters \ st.visited, CanTake(problem, st.slot, pi),
           st.match[pi] # 0,
           NEW t, t.slot = st.match[pi], t.visited = st.visited \cup {pi}, t.match = st.match,
           NEW match \in [DOMAIN problem.starters -> DOMAIN problem.slots \cup {0}],
           Placed(problem, t, match)
    PROVE  Placed(problem, st, [match EXCEPT ![pi] = st.slot])
  <1> DEFINE P == DOMAIN problem.starters
             S == DOMAIN problem.slots
             m == [match EXCEPT ![pi] = st.slot]
             old == st.match[pi]
  <1>1. st.slot \in S /\ st.visited \in SUBSET P /\ st.match \in [P -> S \cup {0}] /\ 0 \notin S
    <2>1. 0 \notin S
      BY DEF Posable
    <2>2. QED
      BY <2>1, SearchFields
  <1>2. /\ m[pi] = st.slot
        /\ \A p \in P : p # pi => m[p] = match[p]
    OBVIOUS
  <1>3. /\ \A p, q \in P : st.match[p] = st.match[q] /\ st.match[p] # 0 => p = q
        /\ \A p \in P : st.match[p] = st.slot => p \in st.visited
    BY DEF Ready, OneEach
  <1>4. /\ \A p \in P : match[p] # 0 => CanTake(problem, match[p], p)
        /\ \A p \in st.visited : match[p] = st.match[p]
        /\ match[pi] = old
        /\ \E p \in P \ st.visited : p # pi /\ match[p] = old
        /\ \A p, q \in P : match[p] = match[q] /\ match[p] # 0 /\ p # q
              => match[p] = old /\ (p \in st.visited \/ p = pi \/ q \in st.visited \/ q = pi)
        /\ \A q \in P : st.match[q] # 0 => \E p \in P : match[p] = st.match[q]
        /\ \A p \in P : match[p] # 0 /\ match[p] # old => \E q \in P : st.match[q] = match[p]
    BY DEF Placed, EachCanTake
  <1>5. old # st.slot /\ old # 0
    BY <1>3
  <1> HIDE DEF m
  <1>6. EachCanTake(problem, m)
    BY <1>2, <1>4 DEF EachCanTake
  <1>7. \A p \in st.visited : m[p] = st.match[p]
    BY <1>1, <1>2, <1>4
  <1>8. ASSUME NEW q \in P, match[q] = st.slot
        PROVE  q \in st.visited
    <2>1. st.slot # 0
      BY <1>1
    <2>2. PICK r \in P : st.match[r] = st.slot
      BY <1>4, <1>5, <1>8, <2>1
    <2>3. r \in st.visited /\ match[r] = st.slot
      BY <1>3, <1>4, <2>2
    <2>4. q = r
      BY <1>4, <1>5, <1>8, <2>1, <2>3
    <2>5. QED
      BY <2>3, <2>4
  <1>9. ASSUME NEW p \in P, NEW q \in P, m[p] = m[q], m[p] # 0, p # q
        PROVE  m[p] = st.slot /\ (p \in st.visited \/ q \in st.visited)
    <2>1. CASE p = pi \/ q = pi
      BY <1>2, <1>8, <1>9, <2>1
    <2>2. CASE p # pi /\ q # pi
      <3>1. match[p] = match[q] /\ match[p] = old /\ (p \in st.visited \/ q \in st.visited)
        BY <1>2, <1>4, <1>9, <2>2
      <3>2. st.match[p] = old \/ st.match[q] = old
        BY <1>4, <3>1
      <3>3. QED
        BY <1>3, <1>5, <2>2, <3>2
    <2>3. QED
      BY <2>1, <2>2
  <1>10. ASSUME NEW q \in P, st.match[q] # 0
         PROVE  \E p \in P : m[p] = st.match[q]
    <2>1. CASE st.match[q] = old
      BY <1>2, <1>4, <2>1
    <2>2. CASE st.match[q] # old
      <3>1. PICK p \in P : match[p] = st.match[q]
        BY <1>4, <1>10
      <3>2. p # pi
        BY <1>4, <2>2, <3>1
      <3>3. QED
        BY <1>2, <3>1, <3>2
    <2>3. QED
      BY <2>1, <2>2
  <1>11. ASSUME NEW p \in P, m[p] # 0, m[p] # st.slot
         PROVE  \E q \in P : st.match[q] = m[p]
    <2>1. p # pi /\ m[p] = match[p]
      BY <1>2, <1>11
    <2>2. CASE m[p] = old
      BY <2>2
    <2>3. CASE m[p] # old
      BY <1>4, <1>11, <2>1, <2>3
    <2>4. QED
      BY <2>2, <2>3
  <1>12. QED
    BY <1>2, <1>6, <1>7, <1>9, <1>10, <1>11 DEF Placed, m

(* The first candidate stays; the loop goes on from there.                 *)
LEMMA NextIsServed ==
    ASSUME NEW problem, Posable(problem), NEW st \in Searches(problem), Ready(problem, st),
           NEW pi \in DOMAIN problem.starters \ st.visited, st.match[pi] # 0,
           NEW t, t.slot = st.match[pi], t.visited = st.visited \cup {pi}, t.match = st.match,
           NEW moved, moved.visited \in SUBSET DOMAIN problem.starters, t.visited \subseteq moved.visited,
           Stuck(problem, t, moved),
           NEW u, u.slot = st.slot, u.visited = moved.visited, u.match = moved.match,
           NEW r \in Results(problem), u.visited \subseteq r.visited,
           Served(problem, u, r)
    PROVE  Served(problem, st, r)
  <1> DEFINE P == DOMAIN problem.starters
  <1>1. /\ moved.match = st.match
        /\ \A q \in P : CanTake(problem, st.match[pi], q) => q \in moved.visited
        /\ \A p \in moved.visited \ (st.visited \cup {pi}) :
              /\ st.match[p] # 0
              /\ \A q \in P : CanTake(problem, st.match[p], q) => q \in moved.visited
    BY DEF Stuck
  <1>2. st.visited \cup {pi} \subseteq moved.visited /\ moved.visited \subseteq r.visited /\ u.match = st.match
    BY <1>1
  <1>3. CASE r.found
    <2>1. Placed(problem, u, r.match)
      BY <1>3 DEF Served
    <2>2. \A p \in P : st.match[p] = st.slot => p \in st.visited
      BY DEF Ready
    <2>3. /\ EachCanTake(problem, r.match)
          /\ \A p \in moved.visited : r.match[p] = st.match[p]
          /\ \E p \in P \ moved.visited : r.match[p] = st.slot
          /\ \A p, q \in P : r.match[p] = r.match[q] /\ r.match[p] # 0 /\ p # q
                => r.match[p] = st.slot /\ (p \in moved.visited \/ q \in moved.visited)
          /\ \A q \in P : st.match[q] # 0 => \E p \in P : r.match[p] = st.match[q]
          /\ \A p \in P : r.match[p] # 0 /\ r.match[p] # st.slot => \E q \in P : st.match[q] = r.match[p]
      BY <1>2, <2>1 DEF Placed
    <2>4. ASSUME NEW p \in P, NEW q \in P, r.match[p] = r.match[q], r.match[p] # 0, p # q
          PROVE  r.match[p] = st.slot /\ (p \in st.visited \/ q \in st.visited)
      BY <2>2, <2>3, <2>4
    <2>5. Placed(problem, st, r.match)
      BY <1>2, <2>3, <2>4 DEF Placed
    <2>6. QED
      BY <1>3, <2>5 DEF Served
  <1>4. CASE ~r.found
    <2>1. Stuck(problem, u, r)
      BY <1>4 DEF Served
    <2>2. /\ r.match = st.match
          /\ \A p \in P : CanTake(problem, st.slot, p) => p \in r.visited
          /\ \A p \in r.visited \ moved.visited :
                /\ st.match[p] # 0
                /\ \A q \in P : CanTake(problem, st.match[p], q) => q \in r.visited
      BY <1>2, <2>1 DEF Stuck
    <2>3. ASSUME NEW p \in r.visited \ st.visited
          PROVE  /\ st.match[p] # 0
                 /\ \A q \in P : CanTake(problem, st.match[p], q) => q \in r.visited
      <3>1. CASE p \notin moved.visited
        BY <2>2, <2>3, <3>1
      <3>2. CASE p \in moved.visited /\ p # pi
        BY <1>1, <1>2, <2>3, <3>2
      <3>3. CASE p = pi
        BY <1>1, <1>2, <3>3
      <3>4. QED
        BY <3>1, <3>2, <3>3
    <2>4. QED
      BY <1>4, <2>2, <2>3 DEF Served, Stuck
  <1>5. QED
    BY <1>3, <1>4

-----------------------------------------------------------------------------
(* Every search serves, from those that have visited more down.            *)
LEMMA RoundServes ==
    ASSUME NEW problem, Posable(problem), NEW st \in Searches(problem), Ready(problem, st),
           \A t \in Searches(problem) :
               st.visited \subseteq t.visited /\ t.visited # st.visited /\ Ready(problem, t)
               => Served(problem, t, Augment(problem)[t])
    PROVE  Served(problem, st, Augment(problem)[st])
  <1> DEFINE P == DOMAIN problem.starters
             aug == Augment(problem)
             pi == First(problem, st)
             m == Moved(problem, aug, st)
             t == MoveFirst(problem, st)
             u == GoOn(st, m)
             r == aug[st]
  <1>1. /\ r = TakeNext(problem, aug, st) /\ AnswersAfter(problem, aug, st)
        /\ r \in Results(problem) /\ st.visited \subseteq r.visited
    BY AugmentIs
  <1>2. st.visited \in SUBSET P /\ st.slot \in DOMAIN problem.slots
        /\ st.match \in [P -> DOMAIN problem.slots \cup {0}]
    BY SearchFields
  <1>3. CASE Candidates(problem, st) = {}
    <2>1. r = [found |-> FALSE, visited |-> st.visited, match |-> st.match]
      BY <1>1, <1>3, TakeNextIs
    <2>2. \A p \in P : CanTake(problem, st.slot, p) => p \in st.visited
      BY <1>3 DEF Candidates, CanTake
    <2>3. Served(problem, st, r)
      <3> HIDE DEF r
      <3>1. QED
        BY <2>1, <2>2 DEF Served, Stuck
    <2>4. QED
      BY <2>3
  <1>4. CASE Candidates(problem, st) # {}
    <2>1. /\ pi \in P \ st.visited
          /\ st.match[pi] # 0 => t \in Searches(problem)
          /\ m \in Results(problem)
          /\ st.visited \cup {pi} \subseteq m.visited
          /\ u \in Searches(problem)
      BY <1>1, <1>4, MovedIs
    <2>2. CanTake(problem, st.slot, pi)
      BY <1>4, FirstIsOne DEF Candidates, CanTake
    <2>3. /\ t.slot = st.match[pi] /\ t.visited = st.visited \cup {pi} /\ t.match = st.match
          /\ u.slot = st.slot /\ u.visited = m.visited /\ u.match = m.match
      BY DEF MoveFirst, GoOn
    <2>4. r = IF m.found THEN [m EXCEPT !.match[pi] = st.slot] ELSE aug[u]
      BY <1>1, <1>4, TakeNextIs
    <2>5. /\ m.match \in [P -> DOMAIN problem.slots \cup {0}] /\ m.visited \in SUBSET P
          /\ [m EXCEPT !.match[pi] = st.slot].found = m.found
          /\ [m EXCEPT !.match[pi] = st.slot].match = [m.match EXCEPT ![pi] = st.slot]
      BY <2>1 DEF Results
    <2>6. /\ EachCanTake(problem, st.match) /\ OneEach(problem, st.match)
          /\ \A p \in P : st.match[p] = st.slot => p \in st.visited
      BY DEF Ready
    <2>7. CASE st.match[pi] = 0
      <3>1. m.found /\ m.match = st.match
        BY <2>7 DEF Moved
      <3>2. Placed(problem, st, [st.match EXCEPT ![pi] = st.slot])
        BY <2>1, <2>2, <2>7, FreeTakes
      <3>3. r.found /\ r.match = [st.match EXCEPT ![pi] = st.slot]
        <4> HIDE DEF m, r
        <4>1. QED
          BY <2>4, <2>5, <3>1
      <3>4. QED
        BY <3>2, <3>3 DEF Served
    <2>8. CASE st.match[pi] # 0
      <3>1. m = aug[t] /\ t \in Searches(problem)
        BY <2>1, <2>8 DEF Moved
      <3>2. Ready(problem, t)
        <4>1. \A p \in P : st.match[p] = st.match[pi] => p = pi
          BY <2>1, <2>6, <2>8 DEF OneEach
        <4> HIDE DEF t, m, u, r, aug, pi
        <4>2. QED
          BY <2>3, <2>6, <4>1 DEF Ready
      <3>3. Served(problem, t, m)
        BY <2>1, <2>3, <3>1, <3>2
      <3>4. CASE m.found
        <4>1. Placed(problem, t, m.match)
          BY <3>3, <3>4 DEF Served
        <4>2. r.found /\ r.match = [m.match EXCEPT ![pi] = st.slot]
          <5> HIDE DEF m, r
          <5>1. QED
            BY <2>4, <2>5, <3>4
        <4>3. Placed(problem, st, [m.match EXCEPT ![pi] = st.slot])
          <5> HIDE DEF t, m, u, r, aug, pi
          <5>1. QED
            BY <2>1, <2>2, <2>3, <2>5, <2>8, <4>1, MovedTakes
        <4>4. QED
          BY <4>2, <4>3 DEF Served
      <3>5. CASE ~m.found
        <4>1. Stuck(problem, t, m)
          BY <3>3, <3>5 DEF Served
        <4>2. r = aug[u]
          BY <2>4, <3>5
        <4>3. m.match = st.match
          BY <2>3, <4>1 DEF Stuck
        <4>4. Ready(problem, u)
          <5> HIDE DEF t, m, u, r, aug, pi
          <5>1. QED
            BY <2>1, <2>3, <2>6, <4>3 DEF Ready
        <4>5. st.visited \subseteq u.visited /\ u.visited # st.visited
          BY <2>1, <2>3
        <4>6. Served(problem, u, r)
          BY <2>1, <4>2, <4>4, <4>5
        <4>7. r \in Results(problem) /\ u.visited \subseteq r.visited
          BY <2>1, <4>2, AugmentIs
        <4>8. t.visited \subseteq m.visited
          BY <2>1, <2>3
        <4>9. Served(problem, st, r)
          <5> HIDE DEF t, m, u, r, aug, pi
          <5>1. QED
            BY <2>1, <2>3, <2>5, <2>8, <4>1, <4>6, <4>7, <4>8, NextIsServed
        <4>10. QED
          BY <4>9
      <3>6. QED
        BY <3>4, <3>5
    <2>9. QED
      BY <2>7, <2>8
  <1>5. QED
    BY <1>3, <1>4

(* augment fills its slot, or shows that it cannot be filled.              *)
LEMMA AugmentServes ==
    ASSUME NEW problem, Posable(problem), NEW st \in Searches(problem), Ready(problem, st)
    PROVE  Served(problem, st, Augment(problem)[st])
  <1> DEFINE P == DOMAIN problem.starters
             G == {V \in SUBSET P : \A t \in Searches(problem) :
                      t.visited = V /\ Ready(problem, t) => Served(problem, t, Augment(problem)[t])}
  <1>1. IsFiniteSet(P)
    BY FS_Interval DEF Posable
  <1>2. ASSUME NEW V \in SUBSET P, \A W \in SUBSET P : V \subseteq W /\ W # V => W \in G
        PROVE  V \in G
    <2>1. ASSUME NEW t \in Searches(problem), t.visited = V, Ready(problem, t)
          PROVE  Served(problem, t, Augment(problem)[t])
      <3>1. ASSUME NEW u \in Searches(problem), t.visited \subseteq u.visited, u.visited # t.visited,
                   Ready(problem, u)
            PROVE  Served(problem, u, Augment(problem)[u])
        <4>1. u.visited \in SUBSET P
          BY SearchFields
        <4>2. u.visited \in G
          BY <1>2, <2>1, <3>1, <4>1
        <4>3. QED
          BY <3>1, <4>2
      <3>2. QED
        BY <2>1, <3>1, RoundServes
    <2>2. QED
      BY <2>1
  <1>3. st.visited \in SUBSET P
    BY SearchFields
  <1> HIDE DEF G, P
  <1>4. \A V \in SUBSET P : V \in G
    <2>1. \A V \in SUBSET P : (\A W \in SUBSET P : V \subseteq W /\ W # V => W \in G) => V \in G
      BY <1>2
    <2>2. QED
      BY <1>1, <2>1, FromAboveDown
  <1>5. QED
    BY <1>3, <1>4 DEF G

-----------------------------------------------------------------------------
(* The loop over the slots. *)

Nobody(problem) ==
    [found |-> TRUE, visited |-> {}, match |-> [p \in DOMAIN problem.starters |-> 0]]

(* The search for the slot after those matched.                            *)
ForSlot(s, r) == [slot |-> s, visited |-> {}, match |-> r.match]

NextSlot(problem, s, r) == IF r.found THEN Augment(problem)[ForSlot(s, r)] ELSE r

(* A function defined from each number to the next exists: extend it by    *)
(* one.                                                                    *)
LEMMA AssignedIs ==
    ASSUME NEW problem, Posable(problem)
    PROVE  /\ AssignedSlots(problem)[0] = Nobody(problem)
           /\ \A s \in 1 .. Len(problem.slots) :
                 AssignedSlots(problem)[s] = NextSlot(problem, s, AssignedSlots(problem)[s - 1])
  <1> DEFINE n == Len(problem.slots)
             Body(h, s) == IF s = 0 THEN Nobody(problem) ELSE NextSlot(problem, s, h[s - 1])
             G == {k \in Nat : \E h : \A s \in 0 .. k : h[s] = Body(h, s)}
  <1>1. n \in Nat
    BY DEF Posable
  <1>2. 0 \in G
    <2> DEFINE h == [s \in {0} |-> Nobody(problem)]
    <2>1. \A s \in 0 .. 0 : h[s] = Body(h, s)
      OBVIOUS
    <2> HIDE DEF h, Body
    <2>2. QED
      BY <2>1
  <1>3. ASSUME NEW k \in Nat, k \in G
        PROVE  k + 1 \in G
    <2>1. PICK g : \A s \in 0 .. k : g[s] = Body(g, s)
      BY <1>3
    <2> DEFINE h == [s \in 0 .. k + 1 |-> IF s = k + 1 THEN Body(g, s) ELSE g[s]]
    <2>2. \A s \in 0 .. k : h[s] = g[s] /\ s \in 0 .. k + 1 /\ s # k + 1
      OBVIOUS
    <2>3. h[k + 1] = Body(g, k + 1)
      <3> HIDE DEF Body
      <3>1. k + 1 \in 0 .. k + 1
        OBVIOUS
      <3>2. QED
        BY <3>1
    <2> HIDE DEF h
    <2>4. ASSUME NEW s \in 0 .. k + 1
          PROVE  h[s] = Body(g, s) /\ Body(g, s) = Body(h, s)
      <3>1. s \in 0 .. k \/ s = k + 1
        OBVIOUS
      <3>2. h[s] = Body(g, s)
        <4> HIDE DEF Body
        <4>1. QED
          BY <2>1, <2>2, <2>3, <3>1
      <3>3. s # 0 => s - 1 \in 0 .. k
        OBVIOUS
      <3>4. s # 0 => h[s - 1] = g[s - 1]
        BY <2>2, <3>3
      <3>5. QED
        BY <3>2, <3>4
    <2>5. \A s \in 0 .. k + 1 : h[s] = Body(h, s)
      <3> HIDE DEF Body
      <3>1. QED
        BY <2>4
    <2> HIDE DEF Body
    <2>6. QED
      BY <2>5
  <1>4. n \in G
    <2> HIDE DEF G
    <2>1. QED
      BY <1>1, <1>2, <1>3, CountingUp
  <1>5. PICK g : \A s \in 0 .. n : g[s] = Body(g, s)
    BY <1>4
  <1> DEFINE f == [s \in 0 .. n |-> g[s]]
             a == AssignedSlots(problem)
  <1>6. \A s \in 0 .. n : f[s] = g[s]
    OBVIOUS
  <1>7. f = [s \in 0 .. n |-> Body(f, s)]
    <2>1. ASSUME NEW s \in 0 .. n
          PROVE  g[s] = Body(f, s)
      <3>1. s # 0 => s - 1 \in 0 .. n
        BY <1>1
      <3>2. s # 0 => f[s - 1] = g[s - 1]
        BY <1>6, <3>1
      <3>3. g[s] = Body(g, s)
        BY <1>5
      <3> HIDE DEF f
      <3>4. QED
        BY <3>2, <3>3
    <2>2. f = [s \in 0 .. n |-> g[s]]
      OBVIOUS
    <2> HIDE DEF f, Body
    <2>3. [s \in 0 .. n |-> g[s]] = [s \in 0 .. n |-> Body(f, s)]
      BY <2>1
    <2>4. QED
      BY <2>2, <2>3
  <1>8. a = CHOOSE h : h = [s \in 0 .. n |-> Body(h, s)]
    BY Zenon DEF AssignedSlots, Nobody, NextSlot, ForSlot
  <1>9. a = [s \in 0 .. n |-> Body(a, s)]
    <2> HIDE DEF a, f
    <2>1. QED
      BY <1>7, <1>8, Zenon
  <1> HIDE DEF a, f
  <1>10. \A s \in 0 .. n : a[s] = Body(a, s)
    BY <1>9, Zenon
  <1>11. 0 \in 0 .. n /\ \A s \in 1 .. n : s \in 0 .. n /\ s # 0
    BY <1>1
  <1>12. a[0] = Nobody(problem)
    BY <1>10, <1>11
  <1>13. \A s \in 1 .. n : a[s] = NextSlot(problem, s, a[s - 1])
    BY <1>10, <1>11
  <1>14. QED
    BY <1>12, <1>13 DEF a

-----------------------------------------------------------------------------
(* What the loop finds. *)

(* The starters fill the slots up to s, one each.                          *)
FilledUpTo(problem, s, match) ==
    /\ match \in [DOMAIN problem.starters -> DOMAIN problem.slots \cup {0}]
    /\ EachCanTake(problem, match)
    /\ OneEach(problem, match)
    /\ \A p \in DOMAIN problem.starters : match[p] # 0 => match[p] <= s
    /\ \A t \in 1 .. s : \E p \in DOMAIN problem.starters : match[p] = t

Seating(problem, f) ==
    /\ f \in [DOMAIN problem.slots -> DOMAIN problem.starters]
    /\ \A s, t \in DOMAIN problem.slots : f[s] = f[t] => s = t
    /\ \A s \in DOMAIN problem.slots : CanTake(problem, s, f[s])

(* Hall's condition fails: a slot nobody holds, and the slots of those     *)
(* visited, are one more than the starters who can take any of them.       *)
LEMMA StuckIsHopeless ==
    ASSUME NEW problem, Posable(problem), NEW s \in DOMAIN problem.slots, NEW m, NEW V,
           V \in SUBSET DOMAIN problem.starters,
           \A p \in V : m[p] \in DOMAIN problem.slots \ {s},
           \A p, q \in V : m[p] = m[q] => p = q,
           \A p \in DOMAIN problem.starters : CanTake(problem, s, p) => p \in V,
           \A p \in V, q \in DOMAIN problem.starters : CanTake(problem, m[p], q) => q \in V,
           NEW f, Seating(problem, f)
    PROVE  FALSE
  <1> DEFINE P == DOMAIN problem.starters
             H == {m[p] : p \in V}
             T == H \cup {s}
             h == [p \in V |-> m[p]]
             g == [t \in T |-> f[t]]
  <1>1. IsFiniteSet(P)
    <2>1. P = 1 .. Len(problem.starters) /\ Len(problem.starters) \in Nat
      BY DEF Posable
    <2> HIDE DEF P
    <2>2. QED
      BY <2>1, FS_Interval
  <1>2. IsFiniteSet(V)
    BY <1>1, FS_Subset
  <1>3. h \in Bijection(V, H)
    <2>1. h \in [V -> H] /\ (\A p, q \in V : h[p] = h[q] => p = q) /\ \A t \in H : \E p \in V : h[p] = t
      OBVIOUS
    <2> HIDE DEF h, H
    <2>2. QED
      BY <2>1 DEF Bijection, Injection, Surjection, IsInjective
  <1>4. IsFiniteSet(H) /\ Cardinality(H) = Cardinality(V) /\ Cardinality(H) \in Nat
    <2> HIDE DEF h, H
    <2>1. h \in Surjection(V, H) /\ h \in Bijection(V, H)
      BY <1>3 DEF Bijection
    <2>2. IsFiniteSet(H)
      BY <1>2, <2>1, FS_Surjection
    <2>3. Cardinality(H) = Cardinality(V)
      BY <1>2, <2>1, <2>2, FS_Bijection DEF ExistsBijection
    <2>4. QED
      BY <2>2, <2>3, FS_CardinalityType
  <1>5. s \notin H
    OBVIOUS
  <1>6. IsFiniteSet(T) /\ Cardinality(T) = Cardinality(V) + 1
    <2> HIDE DEF H
    <2>1. QED
      BY <1>4, <1>5, FS_AddElement
  <1>7. \A t \in T : t \in DOMAIN problem.slots /\ f[t] \in P /\ CanTake(problem, t, f[t])
    BY DEF Seating
  <1>8. \A t \in T : f[t] \in V
    <2>1. f[s] \in V
      BY <1>7
    <2>2. \A p \in V : f[m[p]] \in V
      BY <1>7
    <2>3. QED
      BY <2>1, <2>2
  <1>9. \A t, u \in T : f[t] = f[u] => t = u
    BY <1>7 DEF Seating
  <1>10. g \in Injection(T, V)
    <2>1. g \in [T -> V] /\ \A t, u \in T : g[t] = g[u] => t = u
      BY <1>8, <1>9
    <2> HIDE DEF g, T
    <2>2. QED
      BY <2>1 DEF Injection, IsInjective
  <1>11. Cardinality(T) <= Cardinality(V)
    <2> HIDE DEF g, T
    <2>1. QED
      BY <1>2, <1>10, FS_Injection
  <1>12. QED
    BY <1>4, <1>6, <1>11

(* One slot more, or none of the lineup's seatings is legal.               *)
LEMMA OneMoreSlot ==
    ASSUME NEW problem, Posable(problem), NEW s \in 1 .. Len(problem.slots),
           NEW r, FilledUpTo(problem, s - 1, r.match)
    PROVE  LET next == Augment(problem)[ForSlot(s, r)]
           IN  IF next.found THEN FilledUpTo(problem, s, next.match)
               ELSE ~ \E f : Seating(problem, f)
  <1> DEFINE P == DOMAIN problem.starters
             S == DOMAIN problem.slots
             st == ForSlot(s, r)
             next == Augment(problem)[st]
             m == r.match
  <1>1. s \in S /\ s \in Nat /\ s # 0
    BY DEF Posable
  <1>2. /\ m \in [P -> S \cup {0}] /\ EachCanTake(problem, m) /\ OneEach(problem, m)
        /\ \A p \in P : m[p] # 0 => m[p] <= s - 1
        /\ \A t \in 1 .. s - 1 : \E p \in P : m[p] = t
    BY DEF FilledUpTo
  <1>3. st.slot = s /\ st.visited = {} /\ st.match = m
    BY DEF ForSlot
  <1>4. st \in Searches(problem)
    BY <1>1, <1>2, IsSearch DEF ForSlot
  <1>5. \A p \in P : m[p] # s
    <2>1. S \subseteq Nat
      BY DEF Posable
    <2>2. \A p \in P : m[p] = 0 \/ (m[p] \in Nat /\ m[p] <= s - 1)
      BY <1>2, <2>1
    <2>3. QED
      BY <1>1, <2>2
  <1>6. Ready(problem, st)
    <2> HIDE DEF st, m
    <2>1. QED
      BY <1>2, <1>3, <1>5 DEF Ready
  <1>7. Served(problem, st, next) /\ next \in Results(problem)
    BY <1>4, <1>6, AugmentServes, AugmentIs
  <1> HIDE DEF st, next, m
  <1>8. CASE next.found
    <2>1. Placed(problem, st, next.match) /\ next.match \in [P -> S \cup {0}]
      BY <1>7, <1>8 DEF Served, Results
    <2>2. /\ EachCanTake(problem, next.match)
          /\ \E p \in P : next.match[p] = s
          /\ \A p, q \in P : next.match[p] = next.match[q] /\ next.match[p] # 0 => p = q
          /\ \A q \in P : m[q] # 0 => \E p \in P : next.match[p] = m[q]
          /\ \A p \in P : next.match[p] # 0 /\ next.match[p] # s => \E q \in P : m[q] = next.match[p]
      BY <1>3, <2>1 DEF Placed
    <2>3. ASSUME NEW p \in P, next.match[p] # 0
          PROVE  next.match[p] <= s
      <3>1. CASE next.match[p] = s
        BY <1>1, <3>1
      <3>2. CASE next.match[p] # s
        <4>1. PICK q \in P : m[q] = next.match[p]
          BY <2>2, <2>3, <3>2
        <4>2. next.match[p] <= s - 1 /\ next.match[p] \in S
          BY <1>2, <2>1, <2>3, <4>1
        <4>3. next.match[p] \in Nat
          BY <4>2 DEF Posable
        <4>4. QED
          BY <1>1, <4>2, <4>3
      <3>3. QED
        BY <3>1, <3>2
    <2>4. ASSUME NEW t \in 1 .. s
          PROVE  \E p \in P : next.match[p] = t
      <3>1. t = s \/ (t \in 1 .. s - 1 /\ t # 0)
        BY <1>1
      <3>2. QED
        BY <1>2, <2>2, <3>1
    <2>5. FilledUpTo(problem, s, next.match)
      BY <2>1, <2>2, <2>3, <2>4 DEF FilledUpTo, OneEach
    <2>6. QED
      BY <1>8, <2>5 DEF next, st
  <1>9. CASE ~next.found
    <2> DEFINE V == next.visited
    <2>1. Stuck(problem, st, next) /\ V \in SUBSET P
      BY <1>7, <1>9 DEF Served, Results
    <2>2. /\ \A p \in P : CanTake(problem, s, p) => p \in V
          /\ \A p \in V : m[p] # 0 /\ \A q \in P : CanTake(problem, m[p], q) => q \in V
      BY <1>3, <2>1 DEF Stuck
    <2>3. \A p \in V : m[p] \in S \ {s}
      BY <1>2, <1>5, <2>1, <2>2
    <2>4. \A p, q \in V : m[p] = m[q] => p = q
      BY <1>2, <2>1, <2>2 DEF OneEach
    <2> HIDE DEF V
    <2>5. ~ \E f : Seating(problem, f)
      BY <1>1, <2>1, <2>2, <2>3, <2>4, StuckIsHopeless
    <2>6. QED
      BY <1>9, <2>5 DEF next, st
  <1>10. QED
    BY <1>8, <1>9

(* The loop fills every slot or stops where no seating exists.             *)
LEMMA LoopDecides ==
    ASSUME NEW problem, Posable(problem)
    PROVE  LET r == AssignedSlots(problem)[Len(problem.slots)]
           IN  IF r.found THEN FilledUpTo(problem, Len(problem.slots), r.match)
               ELSE ~ \E f : Seating(problem, f)
  <1> DEFINE n == Len(problem.slots)
             a == AssignedSlots(problem)
             Decided(s) == IF a[s].found THEN FilledUpTo(problem, s, a[s].match)
                           ELSE ~ \E f : Seating(problem, f)
             G == {k \in Nat : k <= n => Decided(k)}
  <1>1. n \in Nat
    BY DEF Posable
  <1>2. Decided(0)
    <2>1. a[0] = Nobody(problem)
      BY AssignedIs
    <2>2. a[0].found /\ a[0].match = [p \in DOMAIN problem.starters |-> 0]
      BY <2>1 DEF Nobody
    <2>3. FilledUpTo(problem, 0, [p \in DOMAIN problem.starters |-> 0])
      BY DEF FilledUpTo, EachCanTake, OneEach
    <2> HIDE DEF a
    <2>4. QED
      BY <2>2, <2>3
  <1>3. ASSUME NEW k \in Nat, k + 1 <= n, Decided(k)
        PROVE  Decided(k + 1)
    <2>1. k + 1 \in 1 .. n /\ (k + 1) - 1 = k
      BY <1>1, <1>3
    <2>2. a[k + 1] = NextSlot(problem, k + 1, a[k])
      BY <2>1, AssignedIs
    <2>3. CASE a[k].found
      <3>1. FilledUpTo(problem, (k + 1) - 1, a[k].match)
        BY <1>3, <2>1, <2>3
      <3>2. a[k + 1] = Augment(problem)[ForSlot(k + 1, a[k])]
        BY <2>2, <2>3 DEF NextSlot
      <3> HIDE DEF a
      <3>3. LET next == Augment(problem)[ForSlot(k + 1, a[k])]
            IN  IF next.found THEN FilledUpTo(problem, k + 1, next.match)
                ELSE ~ \E f : Seating(problem, f)
        BY <2>1, <3>1, OneMoreSlot
      <3>4. QED
        BY <3>2, <3>3
    <2>4. CASE ~a[k].found
      <3>1. a[k + 1] = a[k]
        BY <2>2, <2>4 DEF NextSlot
      <3> HIDE DEF a
      <3>2. QED
        BY <1>3, <2>4, <3>1
    <2>5. QED
      BY <2>3, <2>4
  <1> HIDE DEF Decided
  <1>4. 0 \in G
    BY <1>2
  <1>5. ASSUME NEW k \in Nat, k \in G
        PROVE  k + 1 \in G
    <2>1. k + 1 <= n => k <= n
      BY <1>1
    <2>2. QED
      BY <1>3, <1>5, <2>1
  <1>6. n \in G
    <2> HIDE DEF G, n
    <2>1. QED
      BY <1>1, <1>4, <1>5, CountingUp
  <1>7. Decided(n)
    BY <1>1, <1>6
  <1>8. QED
    BY <1>7 DEF Decided

-----------------------------------------------------------------------------
(* Between as many slots and starters, a seating is a bijection.           *)
LEMMA SeatingIsLegal ==
    ASSUME NEW problem, Posable(problem), Len(problem.starters) = Len(problem.slots)
    PROVE  (\E f : Seating(problem, f))
           <=> \E f \in Bijection(DOMAIN problem.slots, DOMAIN problem.starters) :
                  \A s \in DOMAIN problem.slots :
                     eligible(problem.positions, problem.starters[f[s]], problem.slots[s])
  <1> DEFINE S == DOMAIN problem.slots
             P == DOMAIN problem.starters
  <1>1. P = S /\ IsFiniteSet(S)
    <2>1. P = 1 .. Len(problem.slots) /\ S = 1 .. Len(problem.slots) /\ Len(problem.slots) \in Nat
      BY DEF Posable
    <2> HIDE DEF P, S
    <2>2. QED
      BY <2>1, FS_Interval
  <1>2. ASSUME NEW f, Seating(problem, f)
        PROVE  /\ f \in Bijection(S, P)
               /\ \A s \in S : eligible(problem.positions, problem.starters[f[s]], problem.slots[s])
    <2>1. f \in [S -> P] /\ (\A s, t \in S : f[s] = f[t] => s = t) /\ \A s \in S : CanTake(problem, s, f[s])
      BY <1>2 DEF Seating
    <2> HIDE DEF S, P
    <2>2. f \in Injection(S, P)
      BY <2>1 DEF Injection, IsInjective
    <2>3. f \in Surjection(S, P)
      BY <1>1, <2>2, FS_Injection
    <2>4. QED
      BY <2>1, <2>2, <2>3 DEF Bijection, CanTake
  <1>3. ASSUME NEW f \in Bijection(S, P),
               \A s \in S : eligible(problem.positions, problem.starters[f[s]], problem.slots[s])
        PROVE  Seating(problem, f)
    <2>1. f \in [S -> P] /\ \A s, t \in S : f[s] = f[t] => s = t
      <3> HIDE DEF S, P
      <3>1. QED
        BY DEF Bijection, Injection, IsInjective
    <2>2. QED
      BY <1>3, <2>1 DEF Seating, CanTake
  <1>4. QED
    BY <1>2, <1>3

(* assignSlots accepts just the lineups that can be laid out.              *)
LEMMA AssignDecides ==
    ASSUME NEW problem, Posable(problem), Len(problem.starters) = Len(problem.slots)
    PROVE  assignSlots(problem) <=> \E f : Seating(problem, f)
  <1> DEFINE S == DOMAIN problem.slots
             P == DOMAIN problem.starters
             r == AssignedSlots(problem)[Len(problem.slots)]
             f == [s \in S |-> CHOOSE p \in P : r.match[p] = s]
  <1>1. IF r.found THEN FilledUpTo(problem, Len(problem.slots), r.match)
        ELSE ~ \E g : Seating(problem, g)
    BY LoopDecides
  <1>2. ASSUME FilledUpTo(problem, Len(problem.slots), r.match)
        PROVE  Seating(problem, f)
    <2>1. \A s \in S : \E p \in P : r.match[p] = s
      BY <1>2 DEF FilledUpTo, Posable
    <2>2. \A s \in S : f[s] \in P /\ r.match[f[s]] = s
      <3>1. \A s \in S : f[s] = CHOOSE p \in P : r.match[p] = s
        OBVIOUS
      <3> HIDE DEF f, r
      <3>2. QED
        BY <2>1, <3>1
    <2>3. f \in [S -> P]
      <3>1. f = [s \in S |-> f[s]]
        OBVIOUS
      <3> HIDE DEF f
      <3>2. QED
        BY <2>2, <3>1
    <2> HIDE DEF f, r
    <2>4. \A s \in S : s # 0
      BY DEF Posable
    <2>5. \A s \in S : CanTake(problem, s, f[s])
      BY <1>2, <2>2, <2>4 DEF FilledUpTo, EachCanTake
    <2>6. \A s, t \in S : f[s] = f[t] => s = t
      BY <2>2
    <2>7. QED
      BY <2>3, <2>5, <2>6 DEF Seating
  <1>3. assignSlots(problem) = r.found
    BY DEF assignSlots
  <1> HIDE DEF f, r
  <1>4. QED
    BY <1>1, <1>2, <1>3

(* Slots without a bench among them are all starting slots.                *)
LEMMA AllStarting ==
    ASSUME NEW n \in Nat, NEW t, t = [i \in 1 .. n |-> t[i]],
           \A i \in 1 .. n : t[i] \notin nonStartingSlots
    PROVE  StartingSlots(t) = t
  <1> DEFINE I == 1 .. n
             K == {i \in DOMAIN t : t[i] \notin nonStartingSlots}
             kept == InOrder(K, LAMBDA i, j : i < j)
  <1>1. DOMAIN t = I
    OBVIOUS
  <1>2. K = I
    BY <1>1
  <1>3. I \in SUBSET Nat /\ IsFiniteSet(I) /\ Cardinality(I) = n
    BY FS_Interval
  <1>4. StartingSlots(t) = [i \in DOMAIN kept |-> t[kept[i]]]
    BY Zenon DEF StartingSlots, Filtered
  <1> HIDE DEF K
  <1>5. /\ ListsByRank(kept, K, Lower(K))
        /\ [i \in DOMAIN kept |-> t[kept[i]]] = [i \in 1 .. Cardinality(K) |-> t[kept[i]]]
    BY <1>2, <1>3, KeptEntries
  <1> HIDE DEF kept
  <1>6. ASSUME NEW i \in I
        PROVE  kept[i] = i
    <2>1. Lower(I)[i] = 1 .. (i - 1) /\ i \in Nat /\ i - 1 \in Nat
      BY DEF Lower
    <2>2. Cardinality(1 .. (i - 1)) = i - 1
      <3> DEFINE b == i - 1
      <3>1. b \in Nat
        BY <2>1
      <3> HIDE DEF b
      <3>2. Cardinality(1 .. b) = b
        BY <3>1, FS_Interval
      <3>3. QED
        BY <3>2 DEF b
    <2>3. IsOrder(I, Lower(I))
      BY <1>3, NumbersAreOrdered
    <2>4. kept[Cardinality(Lower(I)[i]) + 1] = i
      BY <1>2, <1>3, <1>5, <2>3, ListedAtItsRank
    <2>5. QED
      BY <2>1, <2>2, <2>4
  <1>7. [i \in I |-> t[kept[i]]] = [i \in I |-> t[i]]
    BY <1>6
  <1>8. [i \in 1 .. Cardinality(K) |-> t[kept[i]]] = [i \in I |-> t[kept[i]]]
    BY <1>2, <1>3
  <1>9. QED
    BY <1>4, <1>5, <1>7, <1>8

(* Validation in words: as many starters as slots, none twice, and a       *)
(* seating.                                                                *)
LEMMA ValidationDecides ==
    ASSUME NEW slots, StartingSlots(slots) = slots, ~NothingToValidate(slots),
           Len(slots) \in Nat, DOMAIN slots = 1 .. Len(slots),
           NEW starters, Len(starters) \in Nat, DOMAIN starters = 1 .. Len(starters),
           NEW positions
    PROVE  ValidateLineup(slots, starters, positions) <=> IsLegal(slots, starters, positions)
  <1> DEFINE problem == [slots |-> slots, starters |-> starters, positions |-> positions]
  <1>1. /\ problem.slots = slots /\ problem.starters = starters /\ problem.positions = positions
        /\ Posable(problem)
    BY DEF Posable
  <1>2. ValidateLineup(slots, starters, positions)
        <=> Len(starters) = Len(slots) /\ IsInjective(starters) /\ assignSlots(problem)
    BY DEF ValidateLineup
  <1> HIDE DEF problem
  <1>3. Len(starters) = Len(slots) =>
           (assignSlots(problem) <=> \E f \in Bijection(DOMAIN slots, DOMAIN starters) :
              \A s \in DOMAIN slots : eligible(positions, starters[f[s]], slots[s]))
    <2>1. SUFFICES ASSUME Len(starters) = Len(slots)
                   PROVE  assignSlots(problem) <=> \E f \in Bijection(DOMAIN slots, DOMAIN starters) :
                             \A s \in DOMAIN slots : eligible(positions, starters[f[s]], slots[s])
      OBVIOUS
    <2>2. assignSlots(problem) <=> \E f : Seating(problem, f)
      BY <1>1, <2>1, AssignDecides
    <2>3. (\E f : Seating(problem, f))
           <=> \E f \in Bijection(DOMAIN problem.slots, DOMAIN problem.starters) :
                  \A s \in DOMAIN problem.slots :
                     eligible(problem.positions, problem.starters[f[s]], problem.slots[s])
      BY <1>1, <2>1, SeatingIsLegal
    <2>4. QED
      BY <1>1, <2>2, <2>3
  <1>4. QED
    BY <1>2, <1>3 DEF IsLegal

(* A filtered sequence is its own listing. *)
LEMMA SlotsAreAFunction ==
    ASSUME NEW s
    PROVE  StartingSlots(s) = [i \in DOMAIN StartingSlots(s) |-> StartingSlots(s)[i]]
  <1> DEFINE kept == InOrder({i \in DOMAIN s : s[i] \notin nonStartingSlots}, LAMBDA i, j : i < j)
             t == StartingSlots(s)
  <1>1. t = [i \in DOMAIN kept |-> s[kept[i]]]
    BY Zenon DEF StartingSlots, Filtered
  <1> HIDE DEF t, kept
  <1>2. t = [i \in DOMAIN t |-> t[i]]
    BY <1>1
  <1>3. QED
    BY <1>2 DEF t

(* A lineup is accepted exactly if it can be laid out in the league's      *)
(* slots, for every league, list of starters and positions: no legal       *)
(* lineup is refused for the order of its starters or the flex slots it    *)
(* crosses (ValidateLineup, assignSlots).                                  *)
THEOREM ValidationIsExact == SSpec => []KuhnDecides
  <1>1. ScoresInv => KuhnDecides
    <2>1. SUFFICES ASSUME ScoresInv, Solving
                   PROVE  ValidateLineup(in.slots, grading.starters, in.positions)
                          <=> IsLegal(in.slots, grading.starters, in.positions)
      BY DEF KuhnDecides
    <2>2. Posed /\ ~NothingToValidate(in.slots) /\ world \in Worlds
      BY <2>1 DEF Solving, ScoresInv, SolverInv, OnTrack
    <2> DEFINE given == world.rosterPositions[grading.league]
               slots == in.slots
    <2>3. slots = StartingSlots(given) /\ grading \in world.lineups /\ Where(grading) \in DOMAIN world.matchups
      BY <2>2 DEF Posed, InputOf
    <2>4. IsSequence(given) /\ IsSequence(grading.starters)
      BY <2>2, <2>3, WorldFacts
    <2>5. Len(slots) \in Nat /\ DOMAIN slots = 1 .. Len(slots)
      BY <2>3, <2>4, SlotsAreListed
    <2>6. slots = [i \in 1 .. Len(slots) |-> slots[i]]
      BY <2>3, <2>5, SlotsAreAFunction
    <2>7. \A i \in 1 .. Len(slots) : slots[i] \notin nonStartingSlots
      <3>1. \A i \in 1 .. Len(slots) : slots[i] \in DOMAIN SlotEligibility
        BY <2>2, <2>5 DEF NothingToValidate
      <3>2. DOMAIN SlotEligibility \cap nonStartingSlots = {}
        BY DEF SlotEligibility, nonStartingSlots
      <3>3. QED
        BY <3>1, <3>2
    <2>8. Len(grading.starters) \in Nat /\ DOMAIN grading.starters = 1 .. Len(grading.starters)
      BY <2>4, LenProperties DEF IsSequence
    <2> HIDE DEF slots
    <2>9. StartingSlots(slots) = slots
      BY <2>5, <2>6, <2>7, AllStarting
    <2>10. ~NothingToValidate(slots)
      BY <2>2 DEF slots
    <2>11. ValidateLineup(slots, grading.starters, in.positions)
           <=> IsLegal(slots, grading.starters, in.positions)
      BY <2>5, <2>8, <2>9, <2>10, ValidationDecides
    <2>12. QED
      BY <2>11 DEF slots
  <1>2. QED
    BY <1>1, ScoresInvariance, PTL
=============================================================================
