---------------------------- MODULE SeasonClock ----------------------------
(***************************************************************************)
(* The week_locks table and the two questions the server asks of it: is a  *)
(* week locked, and which NFL week is live.  The table is seeded by the    *)
(* migrations and never written at run time, so it is a constant; the      *)
(* instant `t' is the Go server's time.Now().                              *)
(***************************************************************************)
EXTENDS Integers

CONSTANTS
    Seasons,    \* seasons a league can belong to
    NoSeason,   \* the column default '' of lineups.season
    Weeks,      \* week numbers a lineup can carry
    LocksAt     \* week_locks: kickoff time of each seeded (season, week)

Seeded == DOMAIN LocksAt

(* The last conjunct of the first group says that Weeks is finite without  *)
(* appealing to induction: any nonempty set of weeks has a latest member.  *)
(* Kickoffs come in week order, as in every seed of the migrations.        *)
ASSUME ClockAssumption ==
    /\ NoSeason \notin Seasons
    /\ Weeks \subseteq Nat \ {0}
    /\ \A W \in SUBSET Weeks : W # {} => \E latest \in W : \A w \in W : w <= latest
    /\ LocksAt \in [Seeded -> Nat]
    /\ Seeded \subseteq Seasons \X Weeks
    /\ \A s \in Seasons : \A v, w \in Weeks :
          /\ <<s, v>> \in Seeded
          /\ <<s, w>> \in Seeded
          /\ v < w
          => LocksAt[<<s, v>>] < LocksAt[<<s, w>>]

(* Fault: time.Now().After(locksAt), open at the very instant of kickoff.   *)
WeekLockedAfter(season, week, t) ==
    /\ <<season, week>> \in Seeded
    /\ LocksAt[<<season, week>>] < t

(* A missing row is "not locked"; otherwise !now.Before(locksAt). *)
WeekLocked(season, week, t) ==
    /\ <<season, week>> \in Seeded
    /\ LocksAt[<<season, week>>] <= t

KickedOff(season, t) == {w \in Weeks : WeekLocked(season, w, t)}

(* COALESCE(MAX(week), 0) over the weeks whose kickoff has passed. *)
CurrentWeekFromLocks(season, t) ==
    IF KickedOff(season, t) = {}
    THEN 0
    ELSE CHOOSE w \in KickedOff(season, t) : \A v \in KickedOff(season, t) : v <= w

(* What the resolver answers when the query succeeds; 0 reads as week 1. *)
ResolvedWeek(season, t) ==
    LET week == CurrentWeekFromLocks(season, t)
    IN  IF week = 0 THEN 1 ELSE week
=============================================================================
