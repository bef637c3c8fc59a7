--------------------------- MODULE GradingProofs ---------------------------
(* Theorems about grading, for any calendar whose kickoffs are at least a  *)
(* request deadline apart, any number of runs and any number of requests.  *)
EXTENDS Grading, LineupsProofs

(* CURRENT_WEEK is not set: the live week comes from week_locks.           *)
Inferred == Override = 0

LEMMA NextOrGrade ==
    ASSUME [GNext]_allVars
    PROVE  /\ [Next]_vars
           /\ \/ UNCHANGED gradingVars
              \/ UNCHANGED vars /\ \E g \in Graders : GradeStep(g)
  BY DEF GNext, allVars, GradeStep, BeginGrade, ListLineups, GradeLineup, SkipLineup, AbandonRun

-----------------------------------------------------------------------------
(* Types. *)
LEMMA LiveWeeksType == LiveWeeks \subseteq Nat
  <1>1. CASE Override > 0
    BY <1>1, GradingAssumption DEF LiveWeeks
  <1>2. CASE ~(Override > 0)
    <2>1. CASE KickedOff(CurrentSeason, now) = {}
      BY <1>2, <2>1 DEF LiveWeeks, LiveWeek, ResolvedWeek, CurrentWeekFromLocks
    <2>2. CASE KickedOff(CurrentSeason, now) # {}
      <3>1. /\ KickedOff(CurrentSeason, now) \in SUBSET Weeks
            /\ KickedOff(CurrentSeason, now) \subseteq Nat
        BY ClockAssumption DEF KickedOff
      <3>2. \E w \in KickedOff(CurrentSeason, now) :
               \A v \in KickedOff(CurrentSeason, now) : v <= w
        BY <2>2, <3>1, ClockAssumption
      <3>3. CurrentWeekFromLocks(CurrentSeason, now) \in KickedOff(CurrentSeason, now)
        BY <2>2, <3>2 DEF CurrentWeekFromLocks
      <3>4. QED
        BY <1>2, <3>1, <3>3 DEF LiveWeeks, LiveWeek, ResolvedWeek
    <2>3. QED
      BY <2>1, <2>2
  <1>3. QED
    BY <1>1, <1>2

LEMMA GradableType ==
    ASSUME TypeOK, NEW live
    PROVE  GradableLineups(live) \subseteq Pending
  BY DEF GradableLineups, Gradable, Ungraded, Present, Pending, TypeOK, Table

LEMMA ResultKeyType ==
    ASSUME NEW p \in Pending
    PROVE  /\ ResultKeyOf(p.key, p.row) \in ResultKey
           /\ p.row.starters \in StarterLists
  BY DEF Pending, Key, Row, ResultKeyOf, ResultKey

(* What a step does to one run: its list shrinks or is read.               *)
LEMMA RunStep ==
    ASSUME GTypeOK, [GNext]_allVars, NEW g \in Graders
    PROVE  \/ /\ run'[g].pending \subseteq run[g].pending
              /\ run'[g].live \in {0, run[g].live} \cup LiveWeeks
           \/ /\ run'[g].pending = GradableLineups(run[g].live)
              /\ run'[g].live = run[g].live
              /\ UNCHANGED <<vars, results>>
  <1>1. run \in [Graders -> [live: Nat, pending: SUBSET Pending, at: Nat]]
    BY DEF GTypeOK
  <1>2. CASE UNCHANGED run
    BY <1>2
  <1>3. ASSUME NEW h \in Graders, BeginGrade(h)
        PROVE  /\ run'[g].pending \subseteq run[g].pending
               /\ run'[g].live \in {0, run[g].live} \cup LiveWeeks
    BY <1>1, <1>3 DEF BeginGrade
  <1>4. ASSUME NEW h \in Graders, ListLineups(h)
        PROVE  \/ /\ run'[g].pending \subseteq run[g].pending
                  /\ run'[g].live \in {0, run[g].live}
               \/ /\ run'[g].pending = GradableLineups(run[g].live)
                  /\ run'[g].live = run[g].live
                  /\ UNCHANGED <<vars, results>>
    <2>1. CASE g = h
      BY <1>1, <1>4, <2>1 DEF ListLineups, NotRunning
    <2>2. CASE g # h
      BY <1>1, <1>4, <2>2 DEF ListLineups
    <2>3. QED
      BY <2>1, <2>2
  <1>5. ASSUME NEW h \in Graders, NEW p, Drop(h, p)
        PROVE  /\ run'[g].pending \subseteq run[g].pending
               /\ run'[g].live \in {0, run[g].live}
    <2>1. CASE g = h
      BY <1>1, <1>5, <2>1 DEF Drop, NotRunning
    <2>2. CASE g # h
      BY <1>1, <1>5, <2>2 DEF Drop
    <2>3. QED
      BY <2>1, <2>2
  <1>6. ASSUME NEW h \in Graders, AbandonRun(h)
        PROVE  /\ run'[g].pending \subseteq run[g].pending
               /\ run'[g].live \in {0, run[g].live}
    BY <1>1, <1>6 DEF AbandonRun, NotRunning
  <1>7. QED
    BY <1>2, <1>3, <1>4, <1>5, <1>6, NextOrGrade
       DEF gradingVars, GradeStep, GradeLineup, SkipLineup

(* The one write to week_results: the score of a copy a run holds.         *)
LEMMA ResultStep ==
    ASSUME GTypeOK, [GNext]_allVars
    PROVE  \/ results' = results
           \/ /\ UNCHANGED vars
              /\ \E g \in Graders : \E p \in run[g].pending :
                    /\ p \in Pending
                    /\ results' = [results EXCEPT ![ResultKeyOf(p.key, p.row)] = p.row.starters]
  BY NextOrGrade DEF gradingVars, GTypeOK, GradeStep, BeginGrade, ListLineups, GradeLineup,
                     SkipLineup, AbandonRun

LEMMA GradingInitType == GInit => GTypeOK
  BY InitType DEF GInit, GTypeOK, NotRunning

LEMMA GradingNextType == GTypeOK /\ [GNext]_allVars => GTypeOK'
  <1> SUFFICES ASSUME GTypeOK, [GNext]_allVars PROVE GTypeOK'
    OBVIOUS
  <1>1. TypeOK /\ TypeOK'
    BY NextOrGrade, NextType DEF GTypeOK
  <1>2. results' \in [ResultKey -> StarterLists \cup {NoResult}]
    BY ResultStep, ResultKeyType DEF GTypeOK
  <1> DEFINE Runs == [live: Nat, pending: SUBSET Pending, at: Nat]
  <1>3. run \in [Graders -> Runs] /\ NotRunning \in Runs /\ now \in Nat
    BY <1>1 DEF GTypeOK, TypeOK, NotRunning
  <1>4. run' \in [Graders -> Runs]
    <2>1. ASSUME NEW g \in Graders, BeginGrade(g)
          PROVE  run' \in [Graders -> Runs]
      BY <1>3, <2>1, LiveWeeksType DEF BeginGrade
    <2>2. ASSUME NEW g \in Graders, ListLineups(g)
          PROVE  run' \in [Graders -> Runs]
      BY <1>1, <1>3, <2>2, GradableType DEF ListLineups
    <2>3. ASSUME NEW g \in Graders, NEW p, Drop(g, p)
          PROVE  run' \in [Graders -> Runs]
      BY <1>3, <2>3 DEF Drop
    <2>4. ASSUME NEW g \in Graders, AbandonRun(g)
          PROVE  run' \in [Graders -> Runs]
      BY <1>3, <2>4 DEF AbandonRun
    <2>5. QED
      BY <1>3, <2>1, <2>2, <2>3, <2>4, NextOrGrade
         DEF gradingVars, GradeStep, GradeLineup, SkipLineup
  <1>5. QED
    BY <1>1, <1>2, <1>4 DEF GTypeOK

(* Lineups, results and runs keep their types, CURRENT_WEEK set or not.    *)
THEOREM GradingTypeCorrect == GSpec => []GTypeOK
  BY GradingInitType, GradingNextType, PTL DEF GSpec

-----------------------------------------------------------------------------
(* Weeks that have been played. *)
LEMMA ClockNat ==
    ASSUME NEW s, NEW w, SeededLock(s, w)
    PROVE  LocksAt[<<s, w>>] \in Nat
  BY ClockAssumption DEF SeededLock

LEMMA PlayedKept ==
    ASSUME TypeOK, [Next]_vars, NEW w, Played(w)
    PROVE  Played(w)'
  <1>1. PICK v \in Weeks : w < v /\ WeekLocked(CurrentSeason, v, now)
    BY DEF Played
  <1>2. now \in Nat /\ now' \in Nat /\ now <= now'
    BY ClockStep
  <1>3. /\ <<CurrentSeason, v>> \in Seeded /\ LocksAt[<<CurrentSeason, v>>] <= now
        /\ LocksAt[<<CurrentSeason, v>>] \in Nat
    BY <1>1, ClockNat DEF WeekLocked, SeededLock
  <1>4. LocksAt[<<CurrentSeason, v>>] <= now'
    BY <1>2, <1>3
  <1>5. QED
    BY <1>1, <1>3, <1>4 DEF Played, WeekLocked, Seeded

(* Of the weeks before the live week each has one after it that has kicked *)
(* off: the live week itself.                                              *)
LEMMA LiveWeekIsPast ==
    ASSUME Inferred, NEW live \in LiveWeeks, NEW w \in Weeks, w < live
    PROVE  Played(w)
  <1>1. w \in Nat \ {0}
    BY ClockAssumption
  <1>2. live # 1 /\ live = ResolvedWeek(CurrentSeason, now)
    BY <1>1 DEF Inferred, LiveWeeks, LiveWeek
  <1>3. KickedOff(CurrentSeason, now) # {}
    BY <1>2 DEF ResolvedWeek, CurrentWeekFromLocks
  <1>4. \E v \in KickedOff(CurrentSeason, now) :
           \A u \in KickedOff(CurrentSeason, now) : u <= v
    <2>1. KickedOff(CurrentSeason, now) \in SUBSET Weeks
      BY DEF KickedOff
    <2>2. QED
      BY <1>3, <2>1, ClockAssumption
  <1>5. CurrentWeekFromLocks(CurrentSeason, now) \in KickedOff(CurrentSeason, now)
    BY <1>3, <1>4 DEF CurrentWeekFromLocks
  <1>6. live \in KickedOff(CurrentSeason, now)
    BY <1>2, <1>5 DEF ResolvedWeek
  <1>7. QED
    BY <1>6 DEF KickedOff, Played

(* A write admitted before the kickoff of a week that has been played is   *)
(* no longer in time.                                                      *)
LEMMA TooLate ==
    ASSUME TypeOK, NEW w \in Weeks, SeededLock(CurrentSeason, w), Played(w),
           NEW r \in Requests, req[r].at \in Nat,
           ~WeekLocked(CurrentSeason, w, req[r].at), InTime(r)
    PROVE  FALSE
  <1>1. PICK v \in Weeks : w < v /\ WeekLocked(CurrentSeason, v, now)
    BY DEF Played
  <1>2. /\ <<CurrentSeason, v>> \in Seeded /\ LocksAt[<<CurrentSeason, v>>] <= now
        /\ LocksAt[<<CurrentSeason, v>>] \in Nat /\ LocksAt[<<CurrentSeason, w>>] \in Nat
    BY <1>1, ClockNat DEF WeekLocked, SeededLock
  <1>3. LocksAt[<<CurrentSeason, w>>] + RequestTimeout <= LocksAt[<<CurrentSeason, v>>]
    BY <1>1, <1>2, KickoffGapAssumption, GradingAssumption DEF SeededLock
  <1>4. now \in Nat /\ RequestTimeout \in Nat
    BY LineupsAssumption DEF TypeOK
  <1>5. now < LocksAt[<<CurrentSeason, w>>] + RequestTimeout
    BY <1>4, LateBy
  <1>6. QED
    BY <1>2, <1>3, <1>4, <1>5

(* A row of the season whose week has been played is never new and never   *)
(* rewritten, and an account's never goes.                                 *)
LEMMA PlayedRowStep ==
    ASSUME IInv, [Next]_vars, NEW k \in Key, SeededLock(CurrentSeason, k.week), Played(k.week)
    PROVE  /\ Present(k)' /\ lineups'[k].season = CurrentSeason => lineups'[k] = lineups[k]
           /\ Present(k) /\ lineups[k].season = CurrentSeason /\ k.user \in Accounts =>
                 lineups'[k] = lineups[k]
  <1>1. TypeOK /\ AdmittedUnlocked /\ ChecksStillHold /\ k.week \in Weeks
    BY DEF IInv, Key
  <1>2. CurrentSeason # NoSeason
    BY ClockAssumption, GradingAssumption
  <1>3. ASSUME NEW r \in Requests, req[r].op = "create", InTime(r), req[r].key = k
        PROVE  req[r].season # CurrentSeason
    <2>1. req[r].at \in Nat
      BY <1>1, <1>3, RequestKinds DEF CreateReq
    <2>2. ~WeekLocked(req[r].season, k.week, req[r].at)
      BY <1>1, <1>3 DEF AdmittedUnlocked
    <2>3. QED
      BY <1>1, <1>3, <2>1, <2>2, TooLate
  <1>4. ASSUME NEW r \in Requests, Present(k), req[r].op = "update", InTime(r),
               lineups[k].id = req[r].id
        PROVE  lineups[k].season # CurrentSeason
    <2>1. req[r].at \in Nat
      BY <1>1, <1>4, RequestKinds DEF UpdateReq
    <2>2. ~WeekLocked(lineups[k].season, k.week, req[r].at)
      BY <1>1, <1>4 DEF AdmittedUnlocked, ChecksStillHold
    <2>3. QED
      BY <1>1, <1>4, <2>1, <2>2, TooLate
  <1>5. ASSUME NEW r \in Requests, Present(k),
               lineups'[k] = [lineups[k] EXCEPT !.starters = req[r].starters, !.updatedAt = now]
        PROVE  lineups'[k].season = lineups[k].season
    <2>1. lineups[k] \in Row
      BY <1>1, <1>5 DEF Present, TypeOK, Table
    <2>2. QED
      BY <1>5, <2>1 DEF Row
  <1>6. Present(k)' /\ lineups'[k].season = CurrentSeason => lineups'[k] = lineups[k]
    BY <1>1, <1>2, <1>3, <1>4, <1>5, RowStep
  <1>7. ASSUME Present(k), lineups[k].season = CurrentSeason, k.user \in Accounts
        PROVE  lineups'[k] = lineups[k]
    <2>1. Present(k)'
      BY <1>7, RowsAreKept, LineupsAssumption
    <2>2. QED
      BY <1>4, <1>7, <2>1, RowRewritten
  <1>8. QED
    BY <1>6, <1>7

-----------------------------------------------------------------------------
(* The induction step, conjunct by conjunct. *)
LEMMA RunsArePastStep ==
    Inferred /\ GInv /\ [GNext]_allVars => RunsArePast'
  <1> SUFFICES ASSUME Inferred, GInv, [GNext]_allVars, NEW g \in Graders
               PROVE  /\ \A w \in Weeks : w < run'[g].live => Played(w)'
                      /\ \A p \in run'[g].pending : Played(p.key.week)'
    BY DEF RunsArePast, Played, WeekLocked, Seeded
  <1>1. /\ GTypeOK /\ TypeOK /\ RunsArePast /\ [Next]_vars
        /\ \A w \in Weeks : w \in Nat \ {0}
    BY NextOrGrade, ClockAssumption DEF GInv, GTypeOK
  <1>2. ASSUME NEW w \in Weeks, w < run'[g].live
        PROVE  Played(w)'
    <2>1. Played(w)
      BY <1>1, <1>2, RunStep, LiveWeekIsPast DEF RunsArePast
    <2>2. QED
      BY <1>1, <2>1, PlayedKept
  <1>3. ASSUME NEW p \in run'[g].pending
        PROVE  Played(p.key.week)'
    <2>1. Played(p.key.week)
      <3>1. CASE p \in run[g].pending
        BY <1>1, <3>1 DEF RunsArePast
      <3>2. CASE p \in GradableLineups(run[g].live)
        <4>1. p.key \in Key /\ p.key.week < run[g].live
          BY <3>2 DEF GradableLineups, Gradable
        <4>2. QED
          BY <1>1, <4>1 DEF RunsArePast, Key
      <3>3. QED
        BY <1>1, <1>3, <3>1, <3>2, RunStep
    <2>2. QED
      BY <1>1, <2>1, PlayedKept
  <1>4. QED
    BY <1>2, <1>3

LEMMA ResultsArePastStep ==
    GInv /\ [GNext]_allVars => ResultsArePast'
  <1> SUFFICES ASSUME GInv, [GNext]_allVars, NEW rk \in ResultKey, results'[rk] # NoResult
               PROVE  Played(rk.week)'
    BY DEF ResultsArePast, Played, WeekLocked, Seeded
  <1>1. GTypeOK /\ TypeOK /\ RunsArePast /\ ResultsArePast /\ [Next]_vars
    BY NextOrGrade DEF GInv, GTypeOK
  <1>2. Played(rk.week)
    <2>1. CASE results'[rk] = results[rk]
      BY <1>1, <2>1 DEF ResultsArePast
    <2>2. ASSUME NEW g \in Graders, NEW p \in run[g].pending, p \in Pending,
                 results' = [results EXCEPT ![ResultKeyOf(p.key, p.row)] = p.row.starters],
                 ResultKeyOf(p.key, p.row) = rk
          PROVE  Played(rk.week)
      <3>1. rk.week = p.key.week
        BY <2>2 DEF ResultKeyOf
      <3>2. QED
        BY <1>1, <2>2, <3>1 DEF RunsArePast
    <2>3. QED
      BY <1>1, <2>1, <2>2, ResultStep DEF GTypeOK
  <1>3. QED
    BY <1>1, <1>2, PlayedKept

(* The fields of a result key. *)
LEMMA KeyFields ==
    ASSUME NEW k, NEW row
    PROVE  /\ ResultKeyOf(k, row).user = k.user
           /\ ResultKeyOf(k, row).week = k.week
           /\ ResultKeyOf(k, row).season = row.season
  BY DEF ResultKeyOf

LEMMA PendingStandsStep ==
    GInv /\ [GNext]_allVars => PendingStands'
  <1> SUFFICES ASSUME GInv, [GNext]_allVars,
                      NEW g \in Graders, NEW p \in run'[g].pending,
                      p.key.user \in Accounts, Protected(ResultKeyOf(p.key, p.row))
               PROVE  /\ lineups'[p.key] # NoRow
                      /\ lineups'[p.key].season = p.row.season
                      /\ lineups'[p.key].starters = p.row.starters
    BY DEF PendingStands, Present, Protected, SeededLock, Seeded, ResultKeyOf
  <1>1. GTypeOK /\ IInv /\ RunsArePast /\ PendingStands /\ [Next]_vars
    BY NextOrGrade DEF GInv
  <1>2. CASE p \in run[g].pending
    <2>1. Present(p.key) /\ lineups[p.key].season = p.row.season
          /\ lineups[p.key].starters = p.row.starters
      BY <1>1, <1>2 DEF PendingStands
    <2>2. p.key \in Key
      BY <1>1, <1>2 DEF GTypeOK, Pending
    <2>3. /\ p.row.season = CurrentSeason /\ SeededLock(CurrentSeason, p.key.week)
          /\ Played(p.key.week)
      BY <1>1, <1>2, KeyFields DEF Protected, RunsArePast
    <2>4. lineups'[p.key] = lineups[p.key]
      BY <1>1, <2>1, <2>2, <2>3, PlayedRowStep
    <2>5. QED
      BY <2>1, <2>4 DEF Present
  <1>3. CASE p \in GradableLineups(run[g].live) /\ UNCHANGED vars
    BY <1>3 DEF GradableLineups, Gradable, Ungraded, Present, vars
  <1>4. QED
    BY <1>1, <1>2, <1>3, RunStep

LEMMA ResultsStandStep ==
    GInv /\ [GNext]_allVars => ResultsStandForPicks'
  <1> SUFFICES ASSUME GInv, [GNext]_allVars,
                      NEW rk \in ResultKey, rk.user \in Accounts, Protected(rk),
                      results'[rk] # NoResult
               PROVE  \E k \in Key : /\ lineups'[k] # NoRow
                                     /\ ResultKeyOf(k, lineups'[k]) = rk
                                     /\ lineups'[k].starters = results'[rk]
    BY DEF ResultsStandForPicks, ProtectedKeys, Shows, Present, Protected, SeededLock, Seeded,
           ResultKeyOf
  <1>1. /\ GTypeOK /\ IInv /\ ResultsArePast /\ PendingStands /\ ResultsStandForPicks
        /\ [Next]_vars
    BY NextOrGrade DEF GInv
  <1>2. CASE results'[rk] = results[rk]
    <2>1. PICK k \in Key : /\ Present(k) /\ ResultKeyOf(k, lineups[k]) = rk
                           /\ lineups[k].starters = results[rk]
      BY <1>1, <1>2 DEF ResultsStandForPicks, ProtectedKeys, Shows
    <2>2. k.user = rk.user /\ k.week = rk.week /\ lineups[k].season = rk.season
      BY <2>1, KeyFields
    <2>3. /\ lineups[k].season = CurrentSeason /\ SeededLock(CurrentSeason, k.week)
          /\ Played(k.week)
      BY <1>1, <1>2, <2>2 DEF Protected, ResultsArePast
    <2>4. lineups'[k] = lineups[k]
      BY <1>1, <2>1, <2>2, <2>3, PlayedRowStep
    <2>5. QED
      BY <1>2, <2>1, <2>4 DEF Present
  <1>3. ASSUME NEW g \in Graders, NEW p \in run[g].pending, p \in Pending, UNCHANGED vars,
               results' = [results EXCEPT ![ResultKeyOf(p.key, p.row)] = p.row.starters],
               ResultKeyOf(p.key, p.row) = rk
        PROVE  /\ p.key \in Key /\ lineups'[p.key] # NoRow
               /\ ResultKeyOf(p.key, lineups'[p.key]) = rk
               /\ lineups'[p.key].starters = results'[rk]
    <2>1. p.key.user \in Accounts /\ p.key \in Key
      BY <1>3, KeyFields DEF Pending
    <2>2. Present(p.key) /\ lineups[p.key].season = p.row.season
          /\ lineups[p.key].starters = p.row.starters
      BY <1>1, <1>3, <2>1 DEF PendingStands
    <2>3. ResultKeyOf(p.key, lineups[p.key]) = rk
      BY <1>3, <2>2 DEF ResultKeyOf
    <2>4. lineups' = lineups /\ results'[rk] = p.row.starters
      BY <1>1, <1>3 DEF vars, GTypeOK
    <2>5. QED
      BY <2>1, <2>2, <2>3, <2>4 DEF Present
  <1>4. QED
    BY <1>1, <1>2, <1>3, ResultStep DEF GTypeOK

LEMMA InitGInv == GInit => GInv
  <1> SUFFICES ASSUME GInit PROVE GInv
    OBVIOUS
  <1>1. GTypeOK /\ IInv
    BY GradingInitType, InitInv DEF GInit
  <1>2. ASSUME NEW g \in Graders
        PROVE  run[g].pending = {} /\ \A w \in Weeks : ~(w < run[g].live)
    BY ClockAssumption DEF GInit, NotRunning
  <1>3. \A rk \in ResultKey : results[rk] = NoResult
    BY DEF GInit
  <1>4. QED
    BY <1>1, <1>2, <1>3
       DEF GInv, RunsArePast, ResultsArePast, PendingStands, ResultsStandForPicks, ProtectedKeys

LEMMA NextGInv == Inferred /\ GInv /\ [GNext]_allVars => GInv'
  <1> SUFFICES ASSUME Inferred, GInv, [GNext]_allVars PROVE GInv'
    OBVIOUS
  <1>1. GTypeOK' /\ IInv'
    BY GradingNextType, NextOrGrade, NextInv DEF GInv
  <1>2. QED
    BY <1>1, RunsArePastStep, ResultsArePastStep, PendingStandsStep, ResultsStandStep DEF GInv

(* The inductive invariant of grading while nobody sets CURRENT_WEEK.      *)
THEOREM GradingInvariance ==
    ASSUME Inferred
    PROVE  GSpec => []GInv
  <1>1. GInv /\ [GNext]_allVars => GInv'
    BY NextGInv
  <1>2. QED
    BY <1>1, InitGInv, PTL DEF GSpec

(* The score an account is shown for a week is that of a lineup it is      *)
(* shown for it, whatever runs, edits and merges overlap and however late  *)
(* a write or an upsert lands (GradeSeason, ListGradableLineups).          *)
THEOREM ResultsStand ==
    ASSUME Inferred
    PROVE  GSpec => []ResultsStandForPicks
  <1>1. GInv => ResultsStandForPicks
    BY DEF GInv
  <1>2. QED
    BY <1>1, GradingInvariance, PTL

-----------------------------------------------------------------------------
(* The copy a run upserts is the score of a lineup that stands.            *)
LEMMA UpsertShows ==
    ASSUME PendingStands, NEW g \in Graders, NEW p \in run[g].pending, p \in Pending,
           ResultKeyOf(p.key, p.row) \in ProtectedKeys
    PROVE  p.key \in Key /\ Shows(p.key, ResultKeyOf(p.key, p.row), p.row.starters)
  <1>1. /\ p.key.user \in Accounts /\ p.key \in Key
        /\ Protected(ResultKeyOf(p.key, p.row))
    BY KeyFields DEF ProtectedKeys, Pending
  <1>2. /\ Present(p.key) /\ lineups[p.key].season = p.row.season
        /\ lineups[p.key].starters = p.row.starters
    BY <1>1 DEF PendingStands
  <1>3. QED
    BY <1>1, <1>2 DEF Shows, ResultKeyOf

(* Two lineups of one result key differ in nothing but source. *)
LEMMA ShownTwice ==
    ASSUME NEW j \in Key, NEW k \in Key, NEW rk, NEW s, NEW t,
           Shows(j, rk, s), Shows(k, rk, t)
    PROVE  k = [j EXCEPT !.source = k.source]
  <1>1. j.user = k.user /\ j.roster = k.roster /\ j.week = k.week
    BY DEF Shows, ResultKeyOf
  <1>2. QED
    BY <1>1 DEF Key

(* An account's result of a locked week is only overwritten by the score   *)
(* of another lineup that stands for the same roster and week, set under   *)
(* another source: whoever has one source keeps the first result, whatever *)
(* runs overlap (UpsertWeekResult).                                        *)
THEOREM OnlySourcesOverwrite ==
    ASSUME Inferred
    PROVE  GSpec => OnlyAnotherSourceOverwrites
  <1>1. ASSUME GInv, [GNext]_allVars, NEW rk \in ProtectedKeys,
               results[rk] # NoResult, results'[rk] # results[rk]
        PROVE  \E j, k \in Key : /\ Shows(j, rk, results[rk])
                                 /\ Shows(k, rk, results'[rk])
                                 /\ k = [j EXCEPT !.source = k.source]
    <2>1. /\ GTypeOK /\ PendingStands /\ rk \in ResultKey
      BY <1>1 DEF GInv, ProtectedKeys
    <2>2. PICK j \in Key : Shows(j, rk, results[rk])
      BY <1>1 DEF GInv, ResultsStandForPicks
    <2>3. PICK g \in Graders : \E p \in run[g].pending :
              /\ p \in Pending
              /\ results' = [results EXCEPT ![ResultKeyOf(p.key, p.row)] = p.row.starters]
      BY <1>1, <2>1, ResultStep
    <2>4. PICK p \in run[g].pending :
              /\ p \in Pending
              /\ results' = [results EXCEPT ![ResultKeyOf(p.key, p.row)] = p.row.starters]
      BY <2>3
    <2>5. rk = ResultKeyOf(p.key, p.row) /\ results'[rk] = p.row.starters
      BY <1>1, <2>1, <2>4 DEF GTypeOK
    <2>6. p.key \in Key /\ Shows(p.key, rk, results'[rk])
      BY <2>1, <2>4, <2>5, UpsertShows
    <2>7. QED
      BY <2>2, <2>6, ShownTwice
  <1>2. GInv /\ [GNext]_allVars =>
          [\A rk \in ProtectedKeys :
              results[rk] # NoResult /\ results'[rk] # results[rk] =>
              \E j, k \in Key : /\ Shows(j, rk, results[rk])
                                /\ Shows(k, rk, results'[rk])
                                /\ k = [j EXCEPT !.source = k.source]]_allVars
    BY <1>1
  <1>3. QED
    BY <1>2, GradingInvariance, PTL DEF GSpec, OnlyAnotherSourceOverwrites

-----------------------------------------------------------------------------
(* Refinement of the ledger. *)
LEMMA LedgerInit == GInit => Books!Init
  <1> SUFFICES ASSUME GInit PROVE Books!Init
    OBVIOUS
  <1>1. ASSUME NEW rk \in ProtectedKeys
        PROVE  PicksOf(rk) = {} /\ results[rk] = NoResult
    BY DEF GInit, Init, PicksOf, Present, ProtectedKeys
  <1>2. QED
    BY <1>1 DEF Books!Init, Picked, Graded

(* The picks of a protected key whose week has been played stay as they are. *)
LEMMA PlayedPicksStay ==
    ASSUME IInv, [Next]_vars, NEW rk \in ProtectedKeys, Played(rk.week)
    PROVE  PicksOf(rk)' = PicksOf(rk)
  <1>1. /\ rk.user \in Accounts /\ rk.season = CurrentSeason
        /\ SeededLock(CurrentSeason, rk.week)
    BY DEF ProtectedKeys, Protected
  <1>2. ASSUME NEW k \in Key, lineups'[k] # NoRow, ResultKeyOf(k, lineups'[k]) = rk
        PROVE  lineups'[k] = lineups[k]
    <2>1. k.week = rk.week /\ lineups'[k].season = rk.season
      BY <1>2, KeyFields
    <2>2. QED
      BY <1>1, <1>2, <2>1, PlayedRowStep DEF Present
  <1>3. ASSUME NEW k \in Key, lineups[k] # NoRow, ResultKeyOf(k, lineups[k]) = rk
        PROVE  lineups'[k] = lineups[k]
    <2>1. k.user = rk.user /\ k.week = rk.week /\ lineups[k].season = rk.season
      BY <1>3, KeyFields
    <2>2. QED
      BY <1>1, <1>3, <2>1, PlayedRowStep DEF Present
  <1>4. \A k \in Key : (lineups'[k] # NoRow /\ ResultKeyOf(k, lineups'[k]) = rk)
                      <=> (lineups[k] # NoRow /\ ResultKeyOf(k, lineups[k]) = rk)
    BY <1>2, <1>3
  <1>5. QED
    BY <1>2, <1>4 DEF PicksOf, Present, ResultKeyOf

LEMMA PicksType ==
    ASSUME TypeOK, NEW rk
    PROVE  PicksOf(rk) \subseteq StarterLists
  BY DEF PicksOf, Present, TypeOK, Table, Row

(* Lineup requests and the clock repick; results stand still. *)
LEMMA LineupsRepick ==
    ASSUME GInv, [Next]_vars, TypeOK', UNCHANGED gradingVars
    PROVE  Books!Repick
  <1>1. Graded' = Graded /\ DOMAIN Graded = ProtectedKeys
    BY DEF Graded, gradingVars, ProtectedKeys, Protected, SeededLock, Seeded
  <1>2. Picked' \in [ProtectedKeys -> SUBSET StarterLists]
    <2>1. \A rk \in ProtectedKeys : PicksOf(rk)' \subseteq StarterLists
      BY DEF PicksOf, Present, TypeOK, Table, Row
    <2>2. QED
      BY <2>1 DEF Picked, ProtectedKeys, Protected, SeededLock, Seeded
  <1>3. ASSUME NEW rk \in ProtectedKeys, Graded[rk] # NoResult
        PROVE  Picked'[rk] = Picked[rk]
    <2>1. results[rk] # NoResult /\ rk \in ResultKey
      BY <1>3 DEF Graded, ProtectedKeys
    <2>2. Played(rk.week) /\ IInv
      BY <2>1 DEF GInv, ResultsArePast
    <2>3. PicksOf(rk)' = PicksOf(rk)
      BY <2>2, PlayedPicksStay
    <2>4. QED
      BY <2>3 DEF Picked, ProtectedKeys, Protected, SeededLock, Seeded
  <1>4. QED
    BY <1>1, <1>2, <1>3 DEF Books!Repick

(* A run's upsert grades an entry on a pick that stands, for the first     *)
(* time or again, or is about no protected week of an account's.           *)
LEMMA UpsertGrades ==
    ASSUME GInv, UNCHANGED vars,
           NEW g \in Graders, NEW p \in run[g].pending, p \in Pending,
           results' = [results EXCEPT ![ResultKeyOf(p.key, p.row)] = p.row.starters]
    PROVE  [Books!Next]_<<Picked, Graded>>
  <1> DEFINE rk == ResultKeyOf(p.key, p.row)
             s == p.row.starters
  <1>1. GTypeOK /\ rk \in ResultKey /\ s \in StarterLists
    BY ResultKeyType DEF GInv
  <1>2. Picked' = Picked
    BY DEF Picked, PicksOf, Present, ResultKeyOf, ProtectedKeys, Protected, SeededLock,
           Seeded, vars
  <1> HIDE DEF rk, s
  <1>3. results' = [results EXCEPT ![rk] = s] /\ DOMAIN results = ResultKey
    BY <1>1 DEF GTypeOK, rk, s
  <1>4. CASE rk \notin ProtectedKeys
    <2>1. \A k \in ProtectedKeys : results'[k] = results[k]
      BY <1>3, <1>4 DEF ProtectedKeys
    <2>2. Graded' = Graded
      BY <2>1 DEF Graded, ProtectedKeys, Protected, SeededLock, Seeded
    <2>3. QED
      BY <1>2, <2>2
  <1>5. CASE rk \in ProtectedKeys
    <2>1. Graded' = [Graded EXCEPT ![rk] = s]
      <3>1. \A k \in ProtectedKeys : results'[k] = IF k = rk THEN s ELSE results[k]
        BY <1>3 DEF ProtectedKeys
      <3>2. QED
        BY <1>5, <3>1 DEF Graded, ProtectedKeys, Protected, SeededLock, Seeded
    <2>2. p.key \in Key /\ Shows(p.key, rk, s)
      BY <1>5, UpsertShows DEF GInv, rk, s
    <2>3. s \in Picked[rk]
      BY <1>5, <2>2 DEF Picked, PicksOf, Shows
    <2>4. Books!Grade(rk, s)
      BY <1>2, <2>1, <2>3 DEF Books!Grade
    <2>5. QED
      BY <1>1, <1>5, <2>4 DEF Books!Next
  <1>6. QED
    BY <1>4, <1>5

LEMMA LedgerNext ==
    GInv /\ [GNext]_allVars => [Books!Next]_<<Picked, Graded>>
  <1> SUFFICES ASSUME GInv, [GNext]_allVars
               PROVE  [Books!Next]_<<Picked, Graded>>
    OBVIOUS
  <1>1. GTypeOK /\ GTypeOK' /\ [Next]_vars
    BY GradingNextType, NextOrGrade DEF GInv
  <1>2. CASE UNCHANGED gradingVars
    BY <1>1, <1>2, LineupsRepick DEF Books!Next, GTypeOK
  <1>3. CASE UNCHANGED vars /\ results' = results
    <2>1. Picked' = Picked
      BY <1>3 DEF Picked, PicksOf, Present, ResultKeyOf, ProtectedKeys, Protected,
                  SeededLock, Seeded, vars
    <2>2. Graded' = Graded
      BY <1>3 DEF Graded, ProtectedKeys, Protected, SeededLock, Seeded
    <2>3. QED
      BY <2>1, <2>2
  <1>4. QED
    BY <1>1, <1>2, <1>3, NextOrGrade, ResultStep, UpsertGrades

(* Lineups, merges, kickoffs and grading runs together implement the       *)
(* ledger: once an account's week has a result none of its picks moves,    *)
(* and the result is always one of them, for lineups of any sources        *)
(* (HandleUpdateLineup, MergeAnonymousData, GradeSeason).                  *)
THEOREM GradingImplementsLedger ==
    ASSUME Inferred
    PROVE  GSpec => ImplementsLedger
  <1>1. QED
    BY GradingInvariance, LedgerInit, LedgerNext, PTL
       DEF GSpec, ImplementsLedger, Books!Spec
=============================================================================
