------------------------------ MODULE Grading ------------------------------
(***************************************************************************)
(* POST /admin/grade on top of the lineups table: a run lists the lineups  *)
(* of past weeks that have no week_results row, then fetches and upserts   *)
(* one lineup at a time while lineups are edited and merged, and while     *)
(* another run may be doing the same.                                      *)
(***************************************************************************)
EXTENDS Lineups

CONSTANTS
    CurrentSeason,   \* CURRENT_SEASON
    Override,        \* CURRENT_WEEK; 0 infers the live week from week_locks
    Graders,         \* grading runs the server has in flight at once
    NoResult         \* absence of a week_results row

ASSUME GradingAssumption ==
    /\ CurrentSeason \in Seasons
    /\ Override \in Nat
    /\ NoResult \notin StarterLists

(* Kickoffs of a season are days apart, a request lives seconds. *)
ASSUME KickoffGapAssumption ==
    \A s \in Seasons : \A v, w \in Weeks :
        /\ <<s, v>> \in Seeded
        /\ <<s, w>> \in Seeded
        /\ v < w
        => LocksAt[<<s, v>>] + RequestTimeout <= LocksAt[<<s, w>>]

VARIABLES
    results,  \* week_results: the starters each row's totals were computed from
    run       \* each grading run in flight: the live week it read, its list, its start

gradingVars == <<results, run>>

allVars == <<vars, gradingVars>>

(* The primary key of week_results: source is not part of it. *)
ResultKey == [user: Users, roster: Rosters, week: Weeks, season: Seasons \cup {NoSeason}]

ResultKeyOf(k, row) ==
    [user |-> k.user, roster |-> k.roster, week |-> k.week, season |-> row.season]

Pending == [key: Key, row: Row]

(* A run that has read the live week and not the lineups has no list yet.  *)
NotRunning == [live |-> 0, pending |-> {}, at |-> 0]

GTypeOK ==
    /\ TypeOK
    /\ results \in [ResultKey -> StarterLists \cup {NoResult}]
    /\ run \in [Graders -> [live: Nat, pending: SUBSET Pending, at: Nat]]

GInit ==
    /\ Init
    /\ results = [k \in ResultKey |-> NoResult]
    /\ run = [g \in Graders |-> NotRunning]

-----------------------------------------------------------------------------
(* The live week, and what one call of the resolver may answer: a query    *)
(* that fails reads as week 1.                                             *)
LiveWeek == IF Override > 0 THEN Override ELSE ResolvedWeek(CurrentSeason, now)

LiveWeeks == IF Override > 0 THEN {Override} ELSE {LiveWeek, 1}

Ungraded(k) == Present(k) /\ results[ResultKeyOf(k, lineups[k])] = NoResult

(* Faults: a week graded as soon as it has kicked off, and a run that only *)
(* looks at the week just played.                                          *)
GradableAtKickoff(k, live) == Ungraded(k) /\ k.week <= live
GradableNewlyFinal(k, live) == Ungraded(k) /\ k.week = live - 1

(* ListGradableLineups: past weeks by number, whatever the season, without *)
(* a result of the same user, roster, week and season.                     *)
Gradable(k, live) == Ungraded(k) /\ k.week < live

GradableLineups(live) ==
    {[key |-> k, row |-> lineups[k]] : k \in {j \in Key : Gradable(j, live)}}

(* A run reads the live week, and then the lineups of the weeks before it. *)
BeginGrade(g) ==
    /\ run[g] = NotRunning
    /\ \E live \in LiveWeeks :
          run' = [run EXCEPT ![g] = [live |-> live, pending |-> {}, at |-> now]]
    /\ UNCHANGED <<vars, results>>

RunInTime(g) == now <= run[g].at + RequestTimeout

ListLineups(g) ==
    /\ run[g].live > 0
    /\ run[g].pending = {}
    /\ RunInTime(g)
    /\ run' = [run EXCEPT ![g] = IF GradableLineups(@.live) = {} THEN NotRunning
                                 ELSE [@ EXCEPT !.pending = GradableLineups(run[g].live)]]
    /\ UNCHANGED <<vars, results>>

(* The run moves on to the rest of its list, or returns. *)
Drop(g, p) ==
    LET rest == run[g].pending \ {p}
    IN  run' = [run EXCEPT ![g] = IF rest = {} THEN NotRunning
                                  ELSE [@ EXCEPT !.pending = rest]]

(* Matchups and league are fetched, the week is graded and upserted from   *)
(* the copy of the lineup the list was read with.                          *)
GradeLineup(g, p) ==
    /\ p \in run[g].pending
    /\ RunInTime(g)
    /\ results' = [results EXCEPT ![ResultKeyOf(p.key, p.row)] = p.row.starters]
    /\ Drop(g, p)
    /\ UNCHANGED vars

(* A fetch failed, the roster is not in the matchups, the upsert failed or *)
(* the request's deadline has passed: left for a later run.                *)
SkipLineup(g, p) ==
    /\ p \in run[g].pending
    /\ Drop(g, p)
    /\ UNCHANGED <<vars, results>>

(* The listing fails, or the server stops in the middle of a run. *)
AbandonRun(g) ==
    /\ run[g] # NotRunning
    /\ run' = [run EXCEPT ![g] = NotRunning]
    /\ UNCHANGED <<vars, results>>

GradeStep(g) ==
    \/ BeginGrade(g)
    \/ ListLineups(g)
    \/ \E p \in run[g].pending : GradeLineup(g, p) \/ SkipLineup(g, p)
    \/ AbandonRun(g)

GNext ==
    \/ Next /\ UNCHANGED gradingVars
    \/ \E g \in Graders : GradeStep(g)

GSpec == GInit /\ [][GNext]_allVars

(* Grading runs on a schedule and time passes.  Of the runs that could, it *)
(* is not every one that fails to read the live week, is cut short before  *)
(* its listing, or finds Sleeper down for the same lineup.                 *)
ReadsLiveWeek == \E g \in Graders : BeginGrade(g) /\ run'[g].live = LiveWeek

ListsKey(k) ==
    \E g \in Graders : ListLineups(g) /\ \E p \in run'[g].pending : p.key = k

GradesKey(k) == \E g \in Graders : \E p \in run[g].pending : p.key = k /\ GradeLineup(g, p)

FairGSpec ==
    /\ GSpec
    /\ WF_allVars(Tick /\ UNCHANGED gradingVars)
    /\ \A g \in Graders : WF_allVars(GradeStep(g))
    /\ SF_allVars(ReadsLiveWeek)
    /\ \A k \in Key : SF_allVars(ListsKey(k)) /\ SF_allVars(GradesKey(k))

-----------------------------------------------------------------------------
(* A league's own week that has a lock: the only lineups the lock protects *)
(* from being rewritten once they can be graded.                           *)
Protected(rk) == rk.season = CurrentSeason /\ SeededLock(rk.season, rk.week)

(* Lineup k stands for the key of a result, with these starters.           *)
Shows(k, rk, starters) ==
    /\ Present(k)
    /\ ResultKeyOf(k, lineups[k]) = rk
    /\ lineups[k].starters = starters

(* The results the grading owes to somebody: of an account, and of a week  *)
(* the lock protects.                                                      *)
ProtectedKeys == {rk \in ResultKey : rk.user \in Accounts /\ Protected(rk)}

(* A cached result is the score of a lineup the account shows.  A run      *)
(* upserts from a copy it read up to a deadline earlier and never looks    *)
(* again, so this rests on the lock, the request timeout and the kickoffs  *)
(* being further apart than the timeout (GradeSeason, ListGradableLineups). *)
ResultsStandForPicks ==
    \A rk \in ProtectedKeys :
        results[rk] # NoResult => \E k \in Key : Shows(k, rk, results[rk])

(* A result that is there changes only from the score of one lineup to     *)
(* that of another which differs from it in nothing but source: no upsert  *)
(* of a slow, repeated or abandoned run brings back starters that were     *)
(* edited or merged away.  Lineups are keyed by source and week_results is *)
(* not, so with two sources the DO UPDATE does overwrite                   *)
(* (UpsertWeekResult).                                                     *)
OnlyAnotherSourceOverwrites ==
    [][\A rk \in ProtectedKeys :
          results[rk] # NoResult /\ results'[rk] # results[rk] =>
          \E j, k \in Key : /\ Shows(j, rk, results[rk])
                            /\ Shows(k, rk, results'[rk])
                            /\ k = [j EXCEPT !.source = k.source]]_allVars

(* D30, G1: a lineup of a past week that a run failed to grade keeps being *)
(* listed until it has a result, whatever was skipped, abandoned, or left  *)
(* behind by an unseeded week (ListGradableLineups, GradeSeason).          *)
PastWeeksGetGraded ==
    \A k \in Key :
        (Present(k) /\ k.week < LiveWeek)
        ~> (~Present(k) \/ results[ResultKeyOf(k, lineups[k])] # NoResult)

(* The picks standing for a result key, and the ledger they and the results *)
(* of the accounts' protected weeks make up.                                *)
PicksOf(rk) ==
    {lineups[k].starters : k \in {j \in Key : Present(j) /\ ResultKeyOf(j, lineups[j]) = rk}}

Picked == [rk \in ProtectedKeys |-> PicksOf(rk)]

Graded == [rk \in ProtectedKeys |-> results[rk]]

Books == INSTANCE Ledger WITH
    Entries  <- ProtectedKeys,
    Picks    <- StarterLists,
    NoGrade  <- NoResult,
    picks    <- Picked,
    result   <- Graded

(* Lineup requests, merges and grading runs together implement the ledger: *)
(* once an account's week has a result, no edit, merge or create still in  *)
(* flight moves any of its picks, and no run gives it a result that is not *)
(* one of them (HandleUpdateLineup, MergeAnonymousData, GradeSeason).      *)
ImplementsLedger == Books!Spec

(* What makes these hold from step to step.  Whatever a run has listed or  *)
(* scored is of a week after which another has kicked off: by then no      *)
(* write admitted before its own kickoff is left in flight.                *)
Played(week) == \E v \in Weeks : week < v /\ WeekLocked(CurrentSeason, v, now)

RunsArePast ==
    \A g \in Graders :
        /\ \A w \in Weeks : w < run[g].live => Played(w)
        /\ \A p \in run[g].pending : Played(p.key.week)

ResultsArePast == \A rk \in ResultKey : results[rk] # NoResult => Played(rk.week)

(* The copy of an account's lineup that a run holds is still the lineup.   *)
PendingStands ==
    \A g \in Graders : \A p \in run[g].pending :
        p.key.user \in Accounts /\ Protected(ResultKeyOf(p.key, p.row)) =>
        /\ Present(p.key)
        /\ lineups[p.key].season = p.row.season
        /\ lineups[p.key].starters = p.row.starters

GInv ==
    /\ GTypeOK
    /\ IInv
    /\ RunsArePast
    /\ ResultsArePast
    /\ PendingStands
    /\ ResultsStandForPicks

-----------------------------------------------------------------------------
(* Promises of the documentation that the code does not keep. *)

(* "no earned win is silently lost" (SCORING_LEADERBOARD_PLAN.md:58), for  *)
(* every lineup stored for a week of the season that has kicked off.       *)
EveryPlayedWeekGetsGraded ==
    \A k \in Key :
        (Present(k) /\ WeekLocked(CurrentSeason, k.week, now)
         /\ lineups[k].season = CurrentSeason)
        ~> (~Present(k) \/ results[ResultKeyOf(k, lineups[k])] # NoResult)

(* "Idempotent upsert keyed by the lineup's identity"                      *)
(* (000001_init.up.sql:91): the result of a lineup that stands is its own, *)
(* whatever other lineups the account has.                                 *)
ResultsAreOfTheLineup ==
    \A k \in Key :
        LET rk == ResultKeyOf(k, lineups[k])
        IN  Present(k) /\ rk \in ProtectedKeys /\ results[rk] # NoResult
            => results[rk] = lineups[k].starters
=============
