------------------------------- MODULE Boards -------------------------------
(***************************************************************************)
(* week_results and its readers: lineups of past weeks are graded one at a *)
(* time, in any order, and upserted, while a client walks through the      *)
(* pages of a week's results.  Here a lineup may come out with any totals; *)
(* Scores computes them.                                                   *)
(***************************************************************************)
EXTENDS Standings

CONSTANTS
    Worlds,    \* leagues' roster positions, matchups, lineups to grade, pages asked for
    NoLineup,  \* no lineup is being graded
    NoWalk     \* the client has not started

ASSUME BoardsAssumption ==
    \A w \in Worlds : /\ NoLineup \notin w.lineups
                      /\ \A l \in w.lineups : l.user \in Users
                      /\ \A ask \in w.asks : ask.limit \in Nat \ {0}

VARIABLES
    world,    \* what was set and what was played; it does not change
    grading,  \* the lineup being graded
    results,  \* week_results
    walk      \* the client: its search, page size and offset, and whom it has seen

boardVars == <<world, grading, results, walk>>

KeyOf(r) == [user |-> r.user, league |-> r.league, roster |-> r.roster,
             week |-> r.week, season |-> r.season]

Seasons == {l.season : l \in world.lineups}
Leagues == DOMAIN world.rosterPositions

BoardsInit ==
    /\ world \in Worlds
    /\ grading = NoLineup
    /\ results = {}
    /\ walk = NoWalk

(* The boards only change as a lineup ends. *)
AtRest == grading = NoLineup

BeginGrade(l) ==
    /\ AtRest
    /\ \A r \in results : KeyOf(r) # KeyOf(l)
    /\ grading' = l
    /\ UNCHANGED <<world, results, walk>>

WeekResult(l, userTotal, officialTotal, optimalTotal) ==
    [user |-> l.user, league |-> l.league, roster |-> l.roster, week |-> l.week,
     season |-> l.season, userTotal |-> userTotal, officialTotal |-> officialTotal,
     optimalTotal |-> optimalTotal,
     result |-> GradeWeek(userTotal, officialTotal, optimalTotal).result]

UpsertWeekResult(r) == results' = {s \in results : KeyOf(s) # KeyOf(r)} \cup {r}

EndGrade(userTotal, officialTotal, optimalTotal) ==
    /\ ~AtRest
    /\ grading' = NoLineup
    /\ UpsertWeekResult(WeekResult(grading, userTotal, officialTotal, optimalTotal))
    /\ UNCHANGED <<world, walk>>

(* The upsert fails, or the run is over: the lineup is left for another.   *)
AbandonGrade ==
    /\ ~AtRest
    /\ grading' = NoLineup
    /\ UNCHANGED <<world, results, walk>>

-----------------------------------------------------------------------------
(* A client of GET .../results for one roster's week, following offset     *)
(* until a page comes back short.  Its queries read results only, so they  *)
(* commute with a lineup's grading and are taken between two lineups.      *)
Setters(at) == {r.user : r \in {s \in OfRoster(results, at) : s.user \in Registered}}

BeginWalk(ask) ==
    /\ walk = NoWalk
    /\ AtRest
    /\ walk' = [at |-> ask.at, q |-> ask.q, limit |-> ask.limit, offset |-> 0, phase |-> "baseline",
                there |-> Setters(ask.at) \cap ask.q, seen |-> {}]
    /\ UNCHANGED <<world, grading, results>>

(* WeeklyResults' first query: a week nobody set returns without rows. *)
QueryBaseline ==
    /\ walk # NoWalk
    /\ AtRest
    /\ walk.phase = "baseline"
    /\ walk' = [walk EXCEPT !.phase = IF Baseline(results, walk.at).setterCount = 0
                                      THEN "done" ELSE "setters"]
    /\ UNCHANGED <<world, grading, results>>

(* Its second query, which sees what was upserted since the first. *)
QuerySetters ==
    /\ walk # NoWalk
    /\ AtRest
    /\ walk.phase = "setters"
    /\ LET page == Page(MatchingSetters(OfRoster(results, walk.at), walk.q), walk.limit, walk.offset)
       IN  walk' = [walk EXCEPT !.seen   = @ \cup {page[i].user : i \in DOMAIN page},
                                !.offset = @ + walk.limit,
                                !.phase  = IF Len(page) < walk.limit THEN "done" ELSE "baseline"]
    /\ UNCHANGED <<world, grading, results>>

BoardsNext ==
    \/ \E l \in world.lineups : BeginGrade(l)
    \/ \E user, official, optimal \in Int : EndGrade(user, official, optimal)
    \/ AbandonGrade
    \/ \E ask \in world.asks : BeginWalk(ask)
    \/ QueryBaseline
    \/ QuerySetters

BoardsSpec == BoardsInit /\ [][BoardsNext]_boardVars

-----------------------------------------------------------------------------
(* Rows are of lineups that were set, one for each; the client keeps to    *)
(* what it asked for, and no page shows someone without an account.        *)
BoardsTypeOK ==
    /\ world \in Worlds
    /\ grading \in world.lineups \cup {NoLineup}
    /\ IsFiniteSet(results)
    /\ {KeyOf(r) : r \in results} \subseteq {KeyOf(l) : l \in world.lineups}
    /\ \A r, s \in results : KeyOf(r) = KeyOf(s) => r = s
    /\ \A r \in results : /\ {r.userTotal, r.officialTotal, r.optimalTotal} \subseteq Int
                          /\ r.result \in {"user", "official", "tie"}
    /\ walk # NoWalk => \E ask \in world.asks :
          walk \in [at : {ask.at}, q : {ask.q}, limit : {ask.limit}, offset : Nat,
                   phase : {"baseline", "setters", "done"},
                   there : SUBSET Registered, seen : SUBSET Registered]

Scored(u, season) ==
    {r \in results : r.user = u /\ r.season = season /\ r.optimalTotal > 0}

Boards == {AllLeagues} \cup Leagues

(* D7, E5: weeks without an optimum earn nobody a rank.  On the global     *)
(* board exactly the users with globalMinWeeks scored weeks, pooled over   *)
(* leagues, are ranked, and none of them stands below one who is not       *)
(* (Leaderboard's weeks_played, applyRanking).                             *)
RanksRestOnScoredWeeks ==
    AtRest => \A season \in Seasons :
        LET board == GlobalLeaderboard(results, season)
        IN  \A i \in DOMAIN board :
               /\ board[i].rank > 0 <=>
                     Cardinality(Scored(board[i].row.user, season)) >= globalMinWeeks
               /\ \A j \in DOMAIN board : i < j /\ board[j].rank > 0 => board[i].rank > 0

WeekEdge(r) == GradeWeek(r.userTotal, r.officialTotal, r.optimalTotal).edge

(* The board's edge is the mean of the edges the compare endpoint reports  *)
(* week by week, a commissioner's override above the optimum included, for *)
(* users all of whose weeks are scored (Leaderboard against GradeWeek).    *)
EdgeReconciles ==
    AtRest => \A season \in Seasons, league \in Boards :
        LET board == Leaderboard(results, season, league)
        IN  \A i \in DOMAIN board :
               LET mine == {r \in OnBoard(results, season, league) : r.user = board[i].user}
               IN  (\A r \in mine : r.optimalTotal > 0) => board[i].edge = Avg(mine, WeekEdge)

(* A searched or paged row carries its true standing: one more than the    *)
(* registered setters of the roster's week who did better, whom the search *)
(* does not match included (WeeklyResults' window).                        *)
SearchKeepsStanding ==
    AtRest => \A l \in world.lineups, q \in SUBSET Registered :
        LET setters == OfRoster(results, l)
            rows    == MatchingSetters(setters, q)
            of(u)   == CHOOSE r \in setters : r.user = u
        IN  \A i \in DOMAIN rows :
               rows[i].rank = 1 + Cardinality({r \in setters :
                                      r.user \in Registered /\ SetterOrder(r, of(rows[i].user))})

(* Whoever had a result when a client began to page through a week is on   *)
(* one of its pages, whatever is graded between the two queries of a page  *)
(* and between the pages: rows only get inserted, so nobody moves up past  *)
(* the offset (WeeklyResults, UpsertWeekResult).                           *)
PagesSkipNobody ==
    walk # NoWalk => (walk.phase = "done" => walk.there \subseteq walk.seen)

(* What makes this hold from step to step: only a lineup without a result  *)
(* is graded, so that rows get inserted and never replaced, and whoever    *)
(* was there and has not been seen is behind the offset.                   *)
NotYetGraded == ~AtRest => \A r \in results : KeyOf(r) # KeyOf(grading)

Matches == {r \in OfRoster(results, walk.at) : r.user \in Registered /\ r.user \in walk.q}

UnseenAreAhead ==
    walk # NoWalk => (walk.phase # "done" =>
        /\ walk.offset <= Cardinality(Matches)
        /\ \A u \in walk.there \ walk.seen : \E x \in Matches :
              /\ x.user = u
              /\ walk.offset <= Cardinality({y \in Matches : SetterOrder(y, x)}))

BoardsInv == BoardsTypeOK /\ NotYetGraded /\ UnseenAreAhead /\ PagesSkipNobody

-----------------------------------------------------------------------------
(* What the documentation says of the edge and the query does not keep:    *)
(* "edge - mean of per-week (user_efficiency - official_efficiency)"       *)
(* (api.md:354), over the weeks weeks_played counts (db.go:277).           *)
EdgeIsOverScoredWeeks ==
    \A season \in Seasons :
        LET board == Leaderboard(results, season, AllLeagues)
        IN  \A i \in DOMAIN board :
               board[i].edge = Avg(Scored(board[i].user, season), WeekEdge)
=============================================================================
