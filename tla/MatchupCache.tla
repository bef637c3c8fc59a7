---------------------------- MODULE MatchupCache ----------------------------
(***************************************************************************)
(* How a week's matchups reach the graders and the boards: cachingMatchups *)
(* keeps past weeks in Postgres for good, the Sleeper client below it      *)
(* keeps every week in memory for a time that depends on whether the week  *)
(* is past.  Both ask which week is live, each for itself.  One league is  *)
(* modelled; entries of different leagues never meet.                      *)
(***************************************************************************)
EXTENDS SeasonClock

CONSTANTS
    CurrentSeason,   \* CURRENT_SEASON
    EndsAt,          \* external: when the points of a week stop changing
    HistoricalTTL,   \* matchupCacheTTLHistorical
    CurrentTTL,      \* matchupCacheTTLCurrent
    RequestTimeout,  \* timeoutMiddleware's deadline
    Readers,         \* requests and grading runs reading matchups at once
    NoEntry,         \* a key absent from the memory cache
    NoStats,         \* no rows, in an answer of Sleeper's or in week_matchups
    MaxTime          \* bound: last instant explored

ASSUME CacheAssumption ==
    /\ CurrentSeason \in Seasons
    /\ EndsAt \in [Weeks -> Nat]
    /\ HistoricalTTL \in Nat
    /\ CurrentTTL \in Nat
    /\ RequestTimeout \in Nat
    /\ CurrentTTL + RequestTimeout <= HistoricalTTL
    /\ NoStats \notin Nat
    /\ MaxTime \in Nat

(* A week is played out, and its points settled, a day and a request's     *)
(* deadline before any later week kicks off (in 2026 the last game of a    *)
(* week is on Monday, the next kickoff on Thursday).                       *)
ASSUME PlayedOutAssumption ==
    \A w, v \in Weeks :
        /\ w < v
        /\ <<CurrentSeason, v>> \in Seeded
        => EndsAt[w] + HistoricalTTL + RequestTimeout <= LocksAt[<<CurrentSeason, v>>]

VARIABLES
    now,    \* the clock
    mem,    \* Client.matchupCache, of this process
    saved,  \* week_matchups
    get     \* what each GetWeekMatchups call in flight holds

vars == <<now, mem, saved, get>>

(* The points of a week as of instant t, told apart by the last instant    *)
(* they changed at.                                                        *)
Stats == Nat

Entry == [stats: Stats, fetchedAt: Nat]

Idle == [phase |-> "idle"]

Asked == [phase: {"lookup", "missed", "fetching"}, week: Weeks, final: BOOLEAN, at: Nat]

Answered == [phase: {"fetched", "answer", "saved"}, week: Weeks, final: BOOLEAN, at: Nat,
             stats: Stats \cup {NoStats}]

TypeOK ==
    /\ now \in Nat
    /\ mem \in [Weeks -> Entry \cup {NoEntry}]
    /\ saved \in [Weeks -> Stats \cup {NoStats}]
    /\ get \in [Readers -> {Idle} \cup Asked \cup Answered]

Init ==
    /\ now = 0
    /\ mem = [w \in Weeks |-> NoEntry]
    /\ saved = [w \in Weeks |-> NoStats]
    /\ get = [r \in Readers |-> Idle]

-----------------------------------------------------------------------------
(* The live week as one call of the resolver sees it: a failed query reads *)
(* as week 1.                                                              *)
LiveWeeks == {ResolvedWeek(CurrentSeason, now), 1}

InTime(r) == now <= get[r].at + RequestTimeout

Move(r, phase) == get' = [get EXCEPT ![r].phase = phase]

Reply(r, phase, stats) ==
    get' = [get EXCEPT ![r] = [phase |-> phase, week |-> @.week, final |-> @.final,
                               at |-> @.at, stats |-> stats]]

(* Fault: the live week counts as past. *)
FinalSinceKickoff(w, live) == w <= live

Final(w, live) == w < live

BeginGet(r, w) ==
    /\ get[r] = Idle
    /\ \E live \in LiveWeeks :
          get' = [get EXCEPT ![r] = [phase |-> "lookup", week |-> w,
                                     final |-> Final(w, live), at |-> now]]
    /\ UNCHANGED <<now, mem, saved>>

(* A past week that is in week_matchups is answered from there. *)
ServeSaved(r) ==
    /\ get[r].phase = "lookup"
    /\ get[r].final
    /\ InTime(r)
    /\ saved[get[r].week] # NoStats
    /\ Reply(r, "saved", saved[get[r].week])
    /\ UNCHANGED <<now, mem, saved>>

(* Otherwise the client is asked: the week is live, it is not there, or    *)
(* the database cannot be read.                                            *)
MissSaved(r) ==
    /\ get[r].phase = "lookup"
    /\ Move(r, "missed")
    /\ UNCHANGED <<now, mem, saved>>

(* Fault: the long TTL for every week. *)
LongTTL(w, live) == HistoricalTTL

TTL(w, live) == IF w < live THEN HistoricalTTL ELSE CurrentTTL

(* Fault: an entry never expires. *)
UsableForever(w, live) == mem[w] # NoEntry

(* The client's own look at the live week, and its cache. *)
Usable(w, live) ==
    /\ mem[w] # NoEntry
    /\ now - mem[w].fetchedAt < TTL(w, live)

(* The caller still saves an answer the client had in memory. *)
ServeMemory(r) ==
    /\ get[r].phase = "missed"
    /\ \E live \in LiveWeeks : Usable(get[r].week, live)
    /\ Reply(r, "answer", mem[get[r].week].stats)
    /\ UNCHANGED <<now, mem, saved>>

MissMemory(r) ==
    /\ get[r].phase = "missed"
    /\ \E live \in LiveWeeks : ~Usable(get[r].week, live)
    /\ Move(r, "fetching")
    /\ UNCHANGED <<now, mem, saved>>

(* Sleeper answers with the points of the moment, or with no rows: a week  *)
(* it has not published, or a degraded 200.                                *)
PointsNow(w) == IF now < EndsAt[w] THEN now ELSE EndsAt[w]

FetchMatchups(r) ==
    /\ get[r].phase = "fetching"
    /\ InTime(r)
    /\ \E stats \in {PointsNow(get[r].week), NoStats} : Reply(r, "fetched", stats)
    /\ UNCHANGED <<now, mem, saved>>

(* Fault: an empty answer is cached like any other. *)
FillWithAny(r) ==
    /\ get[r].phase = "fetched"
    /\ InTime(r)
    /\ mem' = [mem EXCEPT ![get[r].week] = [stats |-> get[r].stats, fetchedAt |-> now]]
    /\ Reply(r, "answer", get[r].stats)
    /\ UNCHANGED <<now, saved>>

(* Its players are looked up in the database and it goes into memory, an   *)
(* empty one excepted.  Whoever fetched last wins, not whoever asked last. *)
FillMemory(r) ==
    /\ get[r].phase = "fetched"
    /\ InTime(r)
    /\ IF get[r].stats = NoStats
       THEN UNCHANGED mem
       ELSE mem' = [mem EXCEPT ![get[r].week] = [stats |-> get[r].stats, fetchedAt |-> now]]
    /\ Reply(r, "answer", get[r].stats)
    /\ UNCHANGED <<now, saved>>

(* The answer is returned; the client's for a past week is saved first,    *)
(* which may fail.  Saving no rows saves nothing.                          *)
Return(r) ==
    /\ get[r].phase \in {"answer", "saved"}
    /\ \/ /\ get[r].phase = "answer"
          /\ get[r].final
          /\ InTime(r)
          /\ get[r].stats # NoStats
          /\ saved' = [saved EXCEPT ![get[r].week] = get[r].stats]
       \/ UNCHANGED saved
    /\ get' = [get EXCEPT ![r] = Idle]
    /\ UNCHANGED <<now, mem>>

(* Sleeper fails, the deadline passes or the players cannot be read. *)
FailGet(r) ==
    /\ get[r].phase \in {"fetching", "fetched"}
    /\ get' = [get EXCEPT ![r] = Idle]
    /\ UNCHANGED <<now, mem, saved>>

(* The server restarts: memory is lost, the database is not. *)
Restart ==
    /\ mem' = [w \in Weeks |-> NoEntry]
    /\ get' = [r \in Readers |-> Idle]
    /\ UNCHANGED <<now, saved>>

Tick ==
    /\ now < MaxTime
    /\ now' = now + 1
    /\ UNCHANGED <<mem, saved, get>>

GetStep(r) ==
    \/ \E w \in Weeks : BeginGet(r, w)
    \/ ServeSaved(r)
    \/ MissSaved(r)
    \/ ServeMemory(r)
    \/ MissMemory(r)
    \/ FetchMatchups(r)
    \/ FillMemory(r)
    \/ Return(r)
    \/ FailGet(r)

Next ==
    \/ Tick
    \/ Restart
    \/ \E r \in Readers : GetStep(r)

Spec == Init /\ [][Next]_vars

-----------------------------------------------------------------------------
(* "we cache FINAL weeks [...] here permanently"                           *)
(* (000002_week_matchups_and_leagues.up.sql:3): what is in week_matchups   *)
(* is never corrected, so it has to be the points the week ended with,     *)
(* although an answer fetched while the week was live may sit in memory    *)
(* under the long TTL once the week is past.                               *)
SavedIsFinal == \A w \in Weeks : saved[w] # NoStats => saved[w] = EndsAt[w]

(* Every reader that found the week past, a grading run above all, works   *)
(* with the points it ended with, or with no rows, which grade nothing     *)
(* (cachingMatchups.GetWeekMatchups, Client.GetWeekMatchups).              *)
PastAnswersAreFinal ==
    \A r \in Readers :
        get[r].phase \in {"answer", "saved"} /\ get[r].final
        => get[r].stats \in {EndsAt[get[r].week], NoStats}

(* scoreUserWeek looks at the live week a third time, once its three reads *)
(* are in: the comparison is final if the week is past by then.  After the *)
(* request's deadline the look fails.                                      *)
ComparedAsFinal(r) ==
    /\ get[r].phase \in {"answer", "saved"}
    /\ \E live \in IF InTime(r) THEN LiveWeeks ELSE {1} : get[r].week < live

(* D9: a comparison flagged final never shows points from the middle of a  *)
(* game, although the matchups were read, and their cache chosen, before   *)
(* the week was seen to be past (scoreUserWeek; the grader asks first).    *)
FinalComparisonsAreFinal ==
    \A r \in Readers : ComparedAsFinal(r) => get[r].stats \in {EndsAt[get[r].week], NoStats}

(* An answer of the client's that is not final was read under the short    *)
(* TTL.                                                                    *)
AnswersRecent ==
    \A r \in Readers :
        get[r].phase \in {"answer", "saved"} =>
            \/ get[r].stats \in {EndsAt[get[r].week], NoStats}
            \/ /\ get[r].stats < EndsAt[get[r].week]
               /\ get[r].at <= get[r].stats + CurrentTTL + RequestTimeout

(* What makes SavedIsFinal and PastAnswersAreFinal inductive.  Points that *)
(* were not yet final were read from Sleeper no longer than a request's    *)
(* deadline before they went into memory, and a reader that found its week *)
(* past has a later kickoff behind it.                                     *)
Recent(w, stats, since) == stats = EndsAt[w] \/ (stats < EndsAt[w] /\ since <= stats)

MemoryRecent ==
    \A w \in Weeks : mem[w] # NoEntry =>
        \/ mem[w].stats = EndsAt[w]
        \/ mem[w].stats < EndsAt[w] /\ mem[w].fetchedAt <= mem[w].stats + RequestTimeout

FetchedRecent ==
    \A r \in Readers :
        get[r].phase = "fetched" =>
            get[r].stats = NoStats \/ Recent(get[r].week, get[r].stats, get[r].at)

FinalIsPast ==
    \A r \in Readers :
        get[r] # Idle => /\ get[r].at <= now
                         /\ get[r].final => \E v \in Weeks : /\ get[r].week < v
                                                            /\ WeekLocked(CurrentSeason, v, get[r].at)

IInv ==
    /\ TypeOK
    /\ MemoryRecent
    /\ FetchedRecent
    /\ FinalIsPast
    /\ SavedIsFinal
    /\ PastAnswersAreFinal

(* A reader of the live week is never given points older than the short    *)
(* TTL and a request's deadline, also when the week it finds live turns    *)
(* past, or past turns live, between the two looks at the clock            *)
(* (Client.GetWeekMatchups, newCurrentWeekResolver).                       *)
LiveAnswersAreFresh ==
    [][\A r \in Readers :
          /\ get[r].phase # "answer"
          /\ get'[r].phase = "answer"
          /\ ~get'[r].final
          /\ get'[r].stats # NoStats
          => \/ get'[r].stats = EndsAt[get'[r].week]
             \/ get'[r].stats + CurrentTTL + RequestTimeout >= now]_vars
=============================================================================
