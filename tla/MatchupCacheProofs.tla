------------------------- MODULE MatchupCacheProofs -------------------------
(* Theorems about MatchupCache for every value of its constants. *)
EXTENDS MatchupCache, TLAPS

(* A call in flight is of one of two kinds, told apart by its phase. *)
LEMMA Kinds ==
    ASSUME TypeOK, NEW r \in Readers
    PROVE  /\ get[r].phase \in {"lookup", "missed", "fetching"} => get[r] \in Asked
           /\ get[r].phase \in {"fetched", "answer", "saved"} => get[r] \in Answered
           /\ get[r] # Idle => get[r] \in Asked \cup Answered
           /\ get[r] = Idle => get[r].phase = "idle"
  BY DEF TypeOK, Idle, Asked, Answered

(* No week comes before week 1. *)
LEMMA FirstWeek ==
    ASSUME NEW w \in Weeks
    PROVE  ~(w < 1)
  <1>1. Weeks \subseteq Nat \ {0}
    BY ClockAssumption
  <1>2. QED
    BY <1>1

(* The resolver answers week 1 or a week that has kicked off. *)
LEMMA LiveHasKickedOff ==
    ASSUME TypeOK, NEW live \in LiveWeeks
    PROVE  live = 1 \/ (live \in Weeks /\ WeekLocked(CurrentSeason, live, now))
  <1> DEFINE W == KickedOff(CurrentSeason, now)
             latest == CHOOSE w \in W : \A v \in W : v <= w
  <1>1. CASE W = {}
    BY <1>1 DEF LiveWeeks, ResolvedWeek, CurrentWeekFromLocks
  <1>2. CASE W # {}
    <2>1. W \in SUBSET Weeks
      BY DEF KickedOff
    <2>2. \E w \in W : \A v \in W : v <= w
      BY <1>2, <2>1, ClockAssumption
    <2>3. latest \in W
      BY <2>2
    <2>4. live = 1 \/ live = latest
      BY <1>2 DEF LiveWeeks, ResolvedWeek, CurrentWeekFromLocks
    <2>5. QED
      BY <2>3, <2>4 DEF KickedOff
  <1>3. QED
    BY <1>1, <1>2

(* A past week ended a long TTL and a deadline ago. *)
LEMMA PastIsPlayedOut ==
    ASSUME NEW w \in Weeks, NEW v \in Weeks, NEW t \in Nat,
           w < v, WeekLocked(CurrentSeason, v, t)
    PROVE  EndsAt[w] + HistoricalTTL + RequestTimeout <= t
  <1>1. /\ <<CurrentSeason, v>> \in Seeded
        /\ LocksAt[<<CurrentSeason, v>>] <= t
    BY DEF WeekLocked
  <1>2. LocksAt[<<CurrentSeason, v>>] \in Nat
    BY <1>1, ClockAssumption
  <1>3. EndsAt[w] + HistoricalTTL + RequestTimeout <= LocksAt[<<CurrentSeason, v>>]
    BY <1>1, PlayedOutAssumption
  <1>4. EndsAt[w] \in Nat /\ HistoricalTTL \in Nat /\ RequestTimeout \in Nat
    BY CacheAssumption
  <1>5. QED
    BY <1>1, <1>2, <1>3, <1>4

(* A call that found its week past found it played out. *)
LEMMA FinalIsPlayedOut ==
    ASSUME TypeOK, FinalIsPast, NEW r \in Readers, get[r] # Idle, get[r].final
    PROVE  EndsAt[get[r].week] + HistoricalTTL + RequestTimeout <= get[r].at
  <1>1. get[r].week \in Weeks /\ get[r].at \in Nat
    BY Kinds DEF Asked, Answered
  <1>2. PICK v \in Weeks : get[r].week < v /\ WeekLocked(CurrentSeason, v, get[r].at)
    BY DEF FinalIsPast
  <1>3. QED
    BY <1>1, <1>2, PastIsPlayedOut

-----------------------------------------------------------------------------
LEMMA InitType == Init => TypeOK
  BY DEF Init, TypeOK, Idle

LEMMA NextType == TypeOK /\ [Next]_vars => TypeOK'
  <1> SUFFICES ASSUME TypeOK, [Next]_vars PROVE TypeOK'
    OBVIOUS
  <1>1. CASE Tick
    BY <1>1 DEF Tick, TypeOK
  <1>2. CASE Restart
    BY <1>2 DEF Restart, TypeOK
  <1>3. ASSUME NEW r \in Readers, NEW w \in Weeks, BeginGet(r, w)
        PROVE  TypeOK'
    <2>1. PICK live \in LiveWeeks :
             get' = [get EXCEPT ![r] = [phase |-> "lookup", week |-> w,
                                        final |-> Final(w, live), at |-> now]]
      BY <1>3 DEF BeginGet
    <2>2. Final(w, live) \in BOOLEAN
      BY DEF Final
    <2>3. [phase |-> "lookup", week |-> w, final |-> Final(w, live), at |-> now] \in Asked
      BY <2>2 DEF Asked, TypeOK
    <2>4. QED
      BY <1>3, <2>1, <2>3 DEF BeginGet, TypeOK
  <1>4. ASSUME NEW r \in Readers, ServeSaved(r)
        PROVE  TypeOK'
    BY <1>4, Kinds DEF ServeSaved, Reply, Asked, Answered, TypeOK
  <1>5. ASSUME NEW r \in Readers, MissSaved(r)
        PROVE  TypeOK'
    BY <1>5, Kinds DEF MissSaved, Move, Asked, TypeOK
  <1>6. ASSUME NEW r \in Readers, ServeMemory(r)
        PROVE  TypeOK'
    BY <1>6, Kinds DEF ServeMemory, Usable, Reply, Entry, Asked, Answered, TypeOK
  <1>7. ASSUME NEW r \in Readers, MissMemory(r)
        PROVE  TypeOK'
    BY <1>7, Kinds DEF MissMemory, Move, Asked, TypeOK
  <1>8. ASSUME NEW r \in Readers, FetchMatchups(r)
        PROVE  TypeOK'
    <2>1. get[r] \in Asked
      BY <1>8, Kinds DEF FetchMatchups
    <2>2. PointsNow(get[r].week) \in Stats
      BY <2>1, CacheAssumption DEF PointsNow, Stats, Asked, TypeOK
    <2>3. QED
      BY <1>8, <2>1, <2>2 DEF FetchMatchups, Reply, Asked, Answered, TypeOK
  <1>9. ASSUME NEW r \in Readers, FillMemory(r)
        PROVE  TypeOK'
    <2>1. get[r] \in Answered
      BY <1>9, Kinds DEF FillMemory
    <2>2. mem' \in [Weeks -> Entry \cup {NoEntry}]
      BY <1>9, <2>1 DEF FillMemory, Entry, Answered, TypeOK
    <2>3. QED
      BY <1>9, <2>1, <2>2 DEF FillMemory, Reply, Answered, TypeOK
  <1>10. ASSUME NEW r \in Readers, Return(r)
         PROVE  TypeOK'
    BY <1>10, Kinds DEF Return, Answered, TypeOK
  <1>11. ASSUME NEW r \in Readers, FailGet(r)
         PROVE  TypeOK'
    BY <1>11 DEF FailGet, TypeOK
  <1>12. CASE UNCHANGED vars
    BY <1>12 DEF vars, TypeOK
  <1>13. QED
    BY <1>1, <1>2, <1>3, <1>4, <1>5, <1>6, <1>7, <1>8, <1>9, <1>10, <1>11, <1>12
       DEF Next, GetStep

-----------------------------------------------------------------------------
(* What a step does to one reader's call: it leaves it alone, drops it, or *)
(* is that call's own next step.                                           *)
LEMMA OneCall ==
    ASSUME TypeOK, [Next]_vars, NEW q \in Readers
    PROVE  \/ get'[q] = get[q]
           \/ get'[q] = Idle
           \/ \E w \in Weeks : BeginGet(q, w)
           \/ ServeSaved(q)
           \/ MissSaved(q)
           \/ ServeMemory(q)
           \/ MissMemory(q)
           \/ FetchMatchups(q)
           \/ FillMemory(q)
  <1>1. CASE Tick \/ UNCHANGED vars
    BY <1>1 DEF Tick, vars
  <1>2. CASE Restart
    BY <1>2 DEF Restart
  <1>3. ASSUME NEW r \in Readers, GetStep(r), r # q
        PROVE  get'[q] = get[q]
    BY <1>3 DEF GetStep, BeginGet, ServeSaved, MissSaved, ServeMemory, MissMemory,
                FetchMatchups, FillMemory, Return, FailGet, Move, Reply, TypeOK
  <1>4. CASE GetStep(q)
    BY <1>4 DEF GetStep, Return, FailGet, TypeOK
  <1>5. QED
    BY <1>1, <1>2, <1>3, <1>4 DEF Next

(* Time does not go back. *)
LEMMA ClockStep == TypeOK /\ [Next]_vars => now \in Nat /\ now' \in Nat /\ now <= now'
  <1> SUFFICES ASSUME TypeOK, [Next]_vars PROVE now \in Nat /\ now' \in Nat /\ now <= now'
    OBVIOUS
  <1>1. CASE Tick
    BY <1>1 DEF Tick, TypeOK
  <1>2. CASE Restart \/ UNCHANGED vars
    BY <1>2 DEF Restart, vars, TypeOK
  <1>3. ASSUME NEW r \in Readers, GetStep(r)
        PROVE  now' = now
    BY <1>3 DEF GetStep, BeginGet, ServeSaved, MissSaved, ServeMemory, MissMemory,
                FetchMatchups, FillMemory, Return, FailGet
  <1>4. QED
    BY <1>1, <1>2, <1>3 DEF Next, TypeOK

LEMMA FinalStep == IInv /\ [Next]_vars => FinalIsPast'
  <1> SUFFICES ASSUME IInv, [Next]_vars, NEW q \in Readers, get'[q] # Idle
               PROVE  /\ get'[q].at <= now'
                      /\ get'[q].final =>
                            \E v \in Weeks : /\ get'[q].week < v
                                             /\ WeekLocked(CurrentSeason, v, get'[q].at)
    BY DEF FinalIsPast
  <1> USE DEF IInv
  <1>1. now \in Nat /\ now' \in Nat /\ now <= now'
    BY ClockStep
  <1>2. ASSUME NEW w \in Weeks, BeginGet(q, w)
        PROVE  /\ get'[q].at <= now'
               /\ get'[q].final => \E v \in Weeks : /\ get'[q].week < v
                                                    /\ WeekLocked(CurrentSeason, v, get'[q].at)
    <2>1. PICK live \in LiveWeeks :
             get'[q] = [phase |-> "lookup", week |-> w, final |-> Final(w, live), at |-> now]
      BY <1>2 DEF BeginGet, TypeOK
    <2>2. ASSUME get'[q].final
          PROVE  live \in Weeks /\ WeekLocked(CurrentSeason, live, now) /\ w < live
      <3>1. w < live
        <4>1. get'[q].final = Final(w, live)
          BY <2>1
        <4>2. QED
          BY <4>1, <2>2 DEF Final
      <3>2. live # 1
        BY <3>1, ClockAssumption
      <3>3. QED
        BY <3>1, <3>2, LiveHasKickedOff
    <2>3. QED
      BY <2>1, <2>2, <1>1
  <1>3. CASE /\ get[q] # Idle
             /\ get'[q].at = get[q].at
             /\ get'[q].week = get[q].week
             /\ get'[q].final = get[q].final
    <2>1. get[q].at \in Nat
      BY <1>3, Kinds DEF Asked, Answered
    <2>2. QED
      BY <1>1, <1>3, <2>1 DEF FinalIsPast
  <1>4. CASE \/ ServeSaved(q) \/ MissSaved(q) \/ ServeMemory(q)
             \/ MissMemory(q) \/ FetchMatchups(q) \/ FillMemory(q)
    <2>1. get[q] # Idle
      BY <1>4 DEF ServeSaved, MissSaved, ServeMemory, MissMemory, FetchMatchups, FillMemory, Idle
    <2>2. get[q] \in Asked \cup Answered
      BY <2>1, Kinds
    <2>3. /\ get'[q].at = get[q].at
          /\ get'[q].week = get[q].week
          /\ get'[q].final = get[q].final
      BY <1>4, <2>2 DEF ServeSaved, MissSaved, ServeMemory, MissMemory, FetchMatchups,
                        FillMemory, Move, Reply, TypeOK, Asked, Answered
    <2>4. QED
      BY <1>3, <2>1, <2>3
  <1>5. CASE get'[q] = get[q]
    BY <1>3, <1>5
  <1>6. QED
    BY <1>2, <1>4, <1>5, OneCall

LEMMA FetchedStep == IInv /\ [Next]_vars => FetchedRecent'
  <1> SUFFICES ASSUME IInv, [Next]_vars, NEW q \in Readers,
                      get'[q].phase = "fetched", get'[q].stats # NoStats
               PROVE  Recent(get'[q].week, get'[q].stats, get'[q].at)
    BY DEF FetchedRecent, Recent
  <1> USE DEF IInv
  <1>1. CASE get'[q] = get[q]
    BY <1>1 DEF FetchedRecent
  <1>2. CASE FetchMatchups(q)
    <2>1. get[q] \in Asked /\ get[q] # Idle
      BY <1>2, Kinds DEF FetchMatchups, Idle
    <2>2. get'[q].week = get[q].week /\ get'[q].at = get[q].at
      BY <1>2, <2>1 DEF FetchMatchups, Reply, TypeOK
    <2>3. get'[q].stats = PointsNow(get[q].week)
      BY <1>2, <2>1 DEF FetchMatchups, Reply, TypeOK
    <2>4. get[q].at <= now /\ now \in Nat /\ EndsAt[get[q].week] \in Nat
      BY <2>1, CacheAssumption DEF FinalIsPast, TypeOK, Asked
    <2>5. QED
      BY <2>2, <2>3, <2>4 DEF PointsNow, Recent
  <1>3. ASSUME NEW w \in Weeks, BeginGet(q, w)
        PROVE  FALSE
    BY <1>3 DEF BeginGet, TypeOK
  <1>4. ~(ServeSaved(q) \/ MissSaved(q) \/ ServeMemory(q) \/ MissMemory(q) \/ FillMemory(q))
    <2>1. ~(MissSaved(q) \/ MissMemory(q))
      BY Kinds DEF MissSaved, MissMemory, Move, TypeOK, Asked
    <2>2. ~(ServeSaved(q) \/ ServeMemory(q) \/ FillMemory(q))
      BY DEF ServeSaved, ServeMemory, FillMemory, Reply, TypeOK
    <2>3. QED
      BY <2>1, <2>2
  <1>5. QED
    BY <1>1, <1>2, <1>3, <1>4, OneCall DEF Idle

(* A step that writes the memory cache is one call's FillMemory. *)
LEMMA MemoryStep == IInv /\ [Next]_vars => MemoryRecent'
  <1> SUFFICES ASSUME IInv, [Next]_vars, NEW w \in Weeks, mem'[w] # NoEntry
               PROVE  \/ mem'[w].stats = EndsAt[w]
                      \/ /\ mem'[w].stats < EndsAt[w]
                         /\ mem'[w].fetchedAt <= mem'[w].stats + RequestTimeout
    BY DEF MemoryRecent
  <1> USE DEF IInv
  <1>1. CASE mem'[w] = mem[w]
    BY <1>1 DEF MemoryRecent
  <1>2. ASSUME NEW r \in Readers, FillMemory(r), mem'[w] # mem[w]
        PROVE  \/ mem'[w].stats = EndsAt[w]
               \/ /\ mem'[w].stats < EndsAt[w]
                  /\ mem'[w].fetchedAt <= mem'[w].stats + RequestTimeout
    <2>1. get[r] \in Answered
      BY <1>2, Kinds DEF FillMemory
    <2>2. /\ get[r].stats # NoStats
          /\ get[r].week = w
          /\ mem'[w] = [stats |-> get[r].stats, fetchedAt |-> now]
      BY <1>2, <2>1 DEF FillMemory, TypeOK, Answered
    <2>3. Recent(w, get[r].stats, get[r].at)
      BY <1>2, <2>2 DEF FillMemory, FetchedRecent
    <2>4. now <= get[r].at + RequestTimeout
      BY <1>2 DEF FillMemory, InTime
    <2>5. /\ get[r].at \in Nat /\ now \in Nat /\ RequestTimeout \in Nat
          /\ get[r].stats \in Nat /\ EndsAt[w] \in Nat
      BY <2>1, <2>2, CacheAssumption DEF Answered, Stats, TypeOK
    <2>6. QED
      BY <2>2, <2>3, <2>4, <2>5 DEF Recent
  <1>3. CASE Restart
    BY <1>3 DEF Restart
  <1>4. CASE Tick \/ UNCHANGED vars
    BY <1>1, <1>4 DEF Tick, vars
  <1>5. ASSUME NEW r \in Readers, GetStep(r), ~FillMemory(r)
        PROVE  mem' = mem
    BY <1>5 DEF GetStep, BeginGet, ServeSaved, MissSaved, ServeMemory, MissMemory,
                FetchMatchups, Return, FailGet
  <1>6. QED
    BY <1>1, <1>2, <1>3, <1>4, <1>5 DEF Next

LEMMA PastAnswersStep == IInv /\ [Next]_vars => PastAnswersAreFinal'
  <1> SUFFICES ASSUME IInv, [Next]_vars, NEW q \in Readers,
                      get'[q].phase \in {"answer", "saved"}, get'[q].final
               PROVE  get'[q].stats \in {EndsAt[get'[q].week], NoStats}
    BY DEF PastAnswersAreFinal
  <1> USE DEF IInv
  <1>1. CASE get'[q] = get[q]
    BY <1>1 DEF PastAnswersAreFinal
  <1>2. CASE ServeSaved(q)
    <2>1. get[q] \in Asked
      BY <1>2, Kinds DEF ServeSaved
    <2>2. get'[q].stats = saved[get[q].week] /\ get'[q].week = get[q].week
      BY <1>2 DEF ServeSaved, Reply, TypeOK
    <2>3. saved[get[q].week] = EndsAt[get[q].week]
      BY <1>2, <2>1 DEF ServeSaved, SavedIsFinal, Asked
    <2>4. QED
      BY <2>2, <2>3
  <1>3. CASE ServeMemory(q)
    <2>1. get[q] \in Asked /\ get[q] # Idle
      BY <1>3, Kinds DEF ServeMemory, Idle
    <2>2. /\ get'[q].stats = mem[get[q].week].stats
          /\ get'[q].week = get[q].week
          /\ get'[q].final = get[q].final
      BY <1>3 DEF ServeMemory, Reply, TypeOK
    <2>3. PICK live \in LiveWeeks : Usable(get[q].week, live)
      BY <1>3 DEF ServeMemory
    <2> DEFINE w == get[q].week
    <2>4. w \in Weeks /\ get[q].at \in Nat /\ get[q].at <= now
      BY <2>1 DEF Asked, FinalIsPast
    <2>5. mem[w] \in Entry /\ mem[w] # NoEntry
      BY <2>3, <2>4 DEF Usable, TypeOK
    <2>6. now - mem[w].fetchedAt < TTL(w, live)
      BY <2>3 DEF Usable
    <2>7. TTL(w, live) <= HistoricalTTL
      BY CacheAssumption DEF TTL
    <2>8. EndsAt[w] + HistoricalTTL + RequestTimeout <= get[q].at
      BY <2>1, <2>2, FinalIsPlayedOut
    <2>9. /\ now \in Nat /\ mem[w].fetchedAt \in Nat /\ mem[w].stats \in Nat
          /\ HistoricalTTL \in Nat /\ RequestTimeout \in Nat /\ EndsAt[w] \in Nat
          /\ TTL(w, live) \in Nat
      BY <2>4, <2>5, CacheAssumption DEF TypeOK, Entry, Stats, TTL
    <2>10. mem[w].fetchedAt > EndsAt[w] + RequestTimeout
      BY <2>4, <2>6, <2>7, <2>8, <2>9
    <2>11. mem[w].stats = EndsAt[w]
      BY <2>4, <2>5, <2>9, <2>10 DEF MemoryRecent
    <2>12. QED
      BY <2>2, <2>11
  <1>4. CASE FillMemory(q)
    <2>1. get[q] \in Answered /\ get[q] # Idle
      BY <1>4, Kinds DEF FillMemory, Idle
    <2>2. /\ get'[q].stats = get[q].stats
          /\ get'[q].week = get[q].week
          /\ get'[q].final = get[q].final
      BY <1>4 DEF FillMemory, Reply, TypeOK
    <2>3. EndsAt[get[q].week] + HistoricalTTL + RequestTimeout <= get[q].at
      BY <2>1, <2>2, FinalIsPlayedOut
    <2>4. get[q].stats = NoStats \/ Recent(get[q].week, get[q].stats, get[q].at)
      BY <1>4 DEF FillMemory, FetchedRecent
    <2>5. /\ get[q].at \in Nat /\ EndsAt[get[q].week] \in Nat
          /\ HistoricalTTL \in Nat /\ RequestTimeout \in Nat
          /\ get[q].stats # NoStats => get[q].stats \in Nat
      BY <2>1, CacheAssumption DEF Answered, Stats
    <2>6. QED
      BY <2>2, <2>3, <2>4, <2>5 DEF Recent
  <1>5. ASSUME NEW w \in Weeks, BeginGet(q, w)
        PROVE  FALSE
    BY <1>5 DEF BeginGet, TypeOK
  <1>6. ~(MissSaved(q) \/ MissMemory(q) \/ FetchMatchups(q))
    <2>1. ~(MissSaved(q) \/ MissMemory(q))
      BY Kinds DEF MissSaved, MissMemory, Move, TypeOK, Asked
    <2>2. ~FetchMatchups(q)
      BY DEF FetchMatchups, Reply, TypeOK
    <2>3. QED
      BY <2>1, <2>2
  <1>7. QED
    BY <1>1, <1>2, <1>3, <1>4, <1>5, <1>6, OneCall DEF Idle

LEMMA SavedStep == IInv /\ [Next]_vars => SavedIsFinal'
  <1> SUFFICES ASSUME IInv, [Next]_vars, NEW w \in Weeks, saved'[w] # NoStats
               PROVE  saved'[w] = EndsAt[w]
    BY DEF SavedIsFinal
  <1> USE DEF IInv
  <1>1. CASE saved'[w] = saved[w]
    BY <1>1 DEF SavedIsFinal
  <1>2. ASSUME NEW r \in Readers, Return(r), saved'[w] # saved[w]
        PROVE  saved'[w] = EndsAt[w]
    <2>1. /\ get[r].phase = "answer" /\ get[r].final
          /\ saved' = [saved EXCEPT ![get[r].week] = get[r].stats]
      BY <1>2 DEF Return
    <2>2. get[r].stats \in {EndsAt[get[r].week], NoStats}
      BY <2>1 DEF PastAnswersAreFinal
    <2>3. get[r].week = w /\ saved'[w] = get[r].stats
      BY <1>2, <2>1 DEF TypeOK
    <2>4. QED
      BY <2>2, <2>3
  <1>3. CASE Tick \/ Restart \/ UNCHANGED vars
    BY <1>1, <1>3 DEF Tick, Restart, vars
  <1>4. ASSUME NEW r \in Readers, GetStep(r), ~Return(r)
        PROVE  saved' = saved
    BY <1>4 DEF GetStep, BeginGet, ServeSaved, MissSaved, ServeMemory, MissMemory,
                FetchMatchups, FillMemory, FailGet
  <1>5. QED
    BY <1>1, <1>2, <1>3, <1>4 DEF Next

-----------------------------------------------------------------------------
LEMMA InitInv == Init => IInv
  <1>1. Init => TypeOK
    BY InitType
  <1>2. Init => /\ MemoryRecent
                /\ FetchedRecent
                /\ FinalIsPast
                /\ SavedIsFinal
                /\ PastAnswersAreFinal
    BY DEF Init, Idle, MemoryRecent, FetchedRecent, FinalIsPast, SavedIsFinal,
           PastAnswersAreFinal
  <1>3. QED
    BY <1>1, <1>2 DEF IInv

LEMMA NextInv == IInv /\ [Next]_vars => IInv'
  <1> SUFFICES ASSUME IInv, [Next]_vars PROVE IInv'
    OBVIOUS
  <1>1. TypeOK'
    BY NextType DEF IInv
  <1>2. QED
    BY <1>1, FinalStep, FetchedStep, MemoryStep, PastAnswersStep, SavedStep DEF IInv

(* The inductive invariant of the two caches. *)
THEOREM CacheInvariance == Spec => []IInv
  <1>1. QED
    BY InitInv, NextInv, PTL DEF Spec

(* The caches and the calls in flight keep their types: a call never       *)
(* answers from an entry that is not there, or saves what it never read    *)
(* (GetWeekMatchups in both layers).                                       *)
THEOREM CacheTypeCorrect == Spec => []TypeOK
  <1>1. IInv => TypeOK
    BY DEF IInv
  <1>2. QED
    BY <1>1, CacheInvariance, PTL

(* What is persisted for a past week is the points it ended with, under    *)
(* the assumption that weeks are played out a long TTL and a deadline      *)
(* before the next kickoff.                                                *)
THEOREM PersistedScoresAreFinal == Spec => []SavedIsFinal
  <1>1. IInv => SavedIsFinal
    BY DEF IInv
  <1>2. QED
    BY <1>1, CacheInvariance, PTL

(* Whoever asks for a past week, a grading run among them, is given the    *)
(* points it ended with or no rows.                                        *)
THEOREM PastScoresAreFinal == Spec => []PastAnswersAreFinal
  <1>1. IInv => PastAnswersAreFinal
    BY DEF IInv
  <1>2. QED
    BY <1>1, CacheInvariance, PTL

(* What a reader of the live week is given is at most a short TTL and a    *)
(* deadline old, or final.                                                 *)
LEMMA FreshStep ==
    ASSUME IInv, [Next]_vars, NEW q \in Readers,
           get[q].phase # "answer", get'[q].phase = "answer",
           ~get'[q].final, get'[q].stats # NoStats
    PROVE  \/ get'[q].stats = EndsAt[get'[q].week]
           \/ get'[q].stats + CurrentTTL + RequestTimeout >= now
  <1> USE DEF IInv
  <1>1. CASE ServeMemory(q)
    <2>1. get[q] \in Asked
      BY <1>1, Kinds DEF ServeMemory
    <2>2. /\ get'[q].stats = mem[get[q].week].stats
          /\ get'[q].week = get[q].week
      BY <1>1 DEF ServeMemory, Reply, TypeOK
    <2>3. PICK live \in LiveWeeks : Usable(get[q].week, live)
      BY <1>1 DEF ServeMemory
    <2> DEFINE w == get[q].week
    <2>4. w \in Weeks
      BY <2>1 DEF Asked
    <2>5. mem[w] \in Entry /\ mem[w] # NoEntry
      BY <2>3, <2>4 DEF Usable, TypeOK
    <2>6. now - mem[w].fetchedAt < TTL(w, live)
      BY <2>3 DEF Usable
    <2>7. /\ now \in Nat /\ mem[w].fetchedAt \in Nat /\ mem[w].stats \in Nat
          /\ HistoricalTTL \in Nat /\ CurrentTTL \in Nat
          /\ RequestTimeout \in Nat /\ EndsAt[w] \in Nat
      BY <2>4, <2>5, CacheAssumption DEF TypeOK, Entry, Stats
    <2>8. \/ mem[w].stats = EndsAt[w]
          \/ mem[w].stats < EndsAt[w] /\ mem[w].fetchedAt <= mem[w].stats + RequestTimeout
      BY <2>4, <2>5 DEF MemoryRecent
    <2>9. CASE w < live
      <3>1. live \in Weeks /\ WeekLocked(CurrentSeason, live, now)
        <4>1. live # 1
          BY <2>4, <2>9, FirstWeek
        <4>2. QED
          BY <4>1, LiveHasKickedOff
      <3>2. EndsAt[w] + HistoricalTTL + RequestTimeout <= now
        BY <2>4, <2>7, <2>9, <3>1, PastIsPlayedOut
      <3>3. TTL(w, live) = HistoricalTTL
        BY <2>9 DEF TTL
      <3>4. QED
        BY <2>2, <2>6, <2>7, <2>8, <3>2, <3>3
    <2>10. CASE ~(w < live)
      <3>1. TTL(w, live) = CurrentTTL
        BY <2>10 DEF TTL
      <3>2. QED
        BY <2>2, <2>6, <2>7, <2>8, <3>1
    <2>11. QED
      BY <2>9, <2>10
  <1>2. CASE FillMemory(q)
    <2>1. get[q] \in Answered
      BY <1>2, Kinds DEF FillMemory
    <2>2. /\ get'[q].stats = get[q].stats
          /\ get'[q].week = get[q].week
      BY <1>2 DEF FillMemory, Reply, TypeOK
    <2>3. Recent(get[q].week, get[q].stats, get[q].at)
      BY <1>2, <2>2 DEF FillMemory, FetchedRecent
    <2>4. now <= get[q].at + RequestTimeout
      BY <1>2 DEF FillMemory, InTime
    <2>5. /\ get[q].at \in Nat /\ now \in Nat /\ RequestTimeout \in Nat
          /\ CurrentTTL \in Nat /\ get[q].stats \in Nat
      BY <2>1, <2>2, CacheAssumption DEF Answered, Stats, TypeOK
    <2>6. QED
      BY <2>2, <2>3, <2>4, <2>5 DEF Recent
  <1>3. ASSUME NEW w \in Weeks, BeginGet(q, w)
        PROVE  FALSE
    BY <1>3 DEF BeginGet, TypeOK
  <1>4. ~(ServeSaved(q) \/ MissSaved(q) \/ MissMemory(q) \/ FetchMatchups(q))
    <2>1. ~(MissSaved(q) \/ MissMemory(q))
      BY Kinds DEF MissSaved, MissMemory, Move, TypeOK, Asked
    <2>2. ~(ServeSaved(q) \/ FetchMatchups(q))
      BY DEF ServeSaved, FetchMatchups, Reply, TypeOK
    <2>3. QED
      BY <2>1, <2>2
  <1>5. QED
    BY <1>1, <1>2, <1>3, <1>4, OneCall DEF Idle

THEOREM LiveScoresAreFresh == Spec => LiveAnswersAreFresh
  <1>1. IInv /\ [Next]_vars =>
           [\A r \in Readers :
              /\ get[r].phase # "answer"
              /\ get'[r].phase = "answer"
              /\ ~get'[r].final
              /\ get'[r].stats # NoStats
              => \/ get'[r].stats = EndsAt[get'[r].week]
                 \/ get'[r].stats + CurrentTTL + RequestTimeout >= now]_vars
    BY FreshStep
  <1>2. QED
    BY <1>1, CacheInvariance, PTL DEF Spec, LiveAnswersAreFresh

-----------------------------------------------------------------------------
(* An answer that is not final was, when it was asked for, at most a short *)
(* TTL and a deadline old.                                                 *)
LEMMA AnswersStep == IInv /\ AnswersRecent /\ [Next]_vars => AnswersRecent'
  <1> SUFFICES ASSUME IInv, AnswersRecent, [Next]_vars, NEW q \in Readers,
                      get'[q].phase \in {"answer", "saved"}
               PROVE  \/ get'[q].stats \in {EndsAt[get'[q].week], NoStats}
                      \/ /\ get'[q].stats < EndsAt[get'[q].week]
                         /\ get'[q].at <= get'[q].stats + CurrentTTL + RequestTimeout
    BY DEF AnswersRecent
  <1> USE DEF IInv
  <1>1. CASE get'[q] = get[q]
    BY <1>1 DEF AnswersRecent
  <1>2. CASE ServeSaved(q)
    <2>1. get[q] \in Asked
      BY <1>2, Kinds DEF ServeSaved
    <2>2. get'[q].stats = saved[get[q].week] /\ get'[q].week = get[q].week
      BY <1>2 DEF ServeSaved, Reply, TypeOK
    <2>3. saved[get[q].week] = EndsAt[get[q].week]
      BY <1>2, <2>1 DEF ServeSaved, SavedIsFinal, Asked
    <2>4. QED
      BY <2>2, <2>3
  <1>3. CASE ServeMemory(q)
    <2>1. get[q] \in Asked /\ get[q] # Idle
      BY <1>3, Kinds DEF ServeMemory, Idle
    <2>2. /\ get'[q].stats = mem[get[q].week].stats
          /\ get'[q].week = get[q].week
          /\ get'[q].at = get[q].at
      BY <1>3 DEF ServeMemory, Reply, TypeOK
    <2>3. PICK live \in LiveWeeks : Usable(get[q].week, live)
      BY <1>3 DEF ServeMemory
    <2> DEFINE w == get[q].week
    <2>4. w \in Weeks /\ get[q].at \in Nat /\ get[q].at <= now
      BY <2>1 DEF Asked, FinalIsPast
    <2>5. mem[w] \in Entry /\ mem[w] # NoEntry
      BY <2>3, <2>4 DEF Usable, TypeOK
    <2>6. now - mem[w].fetchedAt < TTL(w, live)
      BY <2>3 DEF Usable
    <2>7. /\ now \in Nat /\ mem[w].fetchedAt \in Nat /\ mem[w].stats \in Nat
          /\ HistoricalTTL \in Nat /\ CurrentTTL \in Nat
          /\ RequestTimeout \in Nat /\ EndsAt[w] \in Nat
      BY <2>4, <2>5, CacheAssumption DEF TypeOK, Entry, Stats
    <2>8. \/ mem[w].stats = EndsAt[w]
          \/ mem[w].stats < EndsAt[w] /\ mem[w].fetchedAt <= mem[w].stats + RequestTimeout
      BY <2>4, <2>5 DEF MemoryRecent
    <2>9. CASE w < live
      <3>1. live # 1
        BY <2>4, <2>9, FirstWeek
      <3>2. live \in Weeks /\ WeekLocked(CurrentSeason, live, now)
        BY <3>1, LiveHasKickedOff
      <3>3. EndsAt[w] + HistoricalTTL + RequestTimeout <= now
        BY <2>4, <2>7, <2>9, <3>2, PastIsPlayedOut
      <3>4. TTL(w, live) = HistoricalTTL
        BY <2>9 DEF TTL
      <3>5. mem[w].stats = EndsAt[w]
        BY <2>6, <2>7, <2>8, <3>3, <3>4
      <3>6. QED
        BY <2>2, <3>5
    <2>10. CASE ~(w < live)
      <3>1. TTL(w, live) = CurrentTTL
        BY <2>10 DEF TTL
      <3>2. \/ mem[w].stats = EndsAt[w]
            \/ /\ mem[w].stats < EndsAt[w]
               /\ get[q].at <= mem[w].stats + CurrentTTL + RequestTimeout
        BY <2>4, <2>6, <2>7, <2>8, <3>1
      <3>3. QED
        BY <2>2, <3>2
    <2>11. QED
      BY <2>9, <2>10
  <1>4. CASE FillMemory(q)
    <2>1. get[q] \in Answered
      BY <1>4, Kinds DEF FillMemory
    <2>2. /\ get'[q].stats = get[q].stats
          /\ get'[q].week = get[q].week
          /\ get'[q].at = get[q].at
      BY <1>4 DEF FillMemory, Reply, TypeOK
    <2>3. get[q].stats = NoStats \/ Recent(get[q].week, get[q].stats, get[q].at)
      BY <1>4 DEF FillMemory, FetchedRecent
    <2>4. /\ get[q].at \in Nat /\ RequestTimeout \in Nat /\ CurrentTTL \in Nat
          /\ get[q].stats # NoStats => get[q].stats \in Nat
      BY <2>1, CacheAssumption DEF Answered, Stats
    <2>5. QED
      BY <2>2, <2>3, <2>4 DEF Recent
  <1>5. ASSUME NEW w \in Weeks, BeginGet(q, w)
        PROVE  FALSE
    BY <1>5 DEF BeginGet, TypeOK
  <1>6. ~(MissSaved(q) \/ MissMemory(q) \/ FetchMatchups(q))
    <2>1. ~(MissSaved(q) \/ MissMemory(q))
      BY Kinds DEF MissSaved, MissMemory, Move, TypeOK, Asked
    <2>2. ~FetchMatchups(q)
      BY DEF FetchMatchups, Reply, TypeOK
    <2>3. QED
      BY <2>1, <2>2
  <1>7. QED
    BY <1>1, <1>2, <1>3, <1>4, <1>5, <1>6, OneCall DEF Idle

(* If the week turned past within the request, the answer was read at most *)
(* a short TTL and two deadlines before its next kickoff, and by then the  *)
(* week had been played out for a long TTL.                                *)
LEMMA ComparedIsPlayedOut == IInv /\ AnswersRecent => FinalComparisonsAreFinal
  <1> SUFFICES ASSUME IInv, AnswersRecent, NEW r \in Readers, ComparedAsFinal(r)
               PROVE  get[r].stats \in {EndsAt[get[r].week], NoStats}
    BY DEF FinalComparisonsAreFinal
  <1> DEFINE w == get[r].week
  <1>1. get[r] \in Answered
    BY Kinds DEF IInv, ComparedAsFinal
  <1>2. PICK live \in IF InTime(r) THEN LiveWeeks ELSE {1} : w < live
    BY DEF ComparedAsFinal
  <1>3. w \in Weeks /\ get[r].at \in Nat
    BY <1>1 DEF Answered
  <1>4. live # 1
    BY <1>2, <1>3, FirstWeek
  <1>5. InTime(r) /\ live \in LiveWeeks
    BY <1>2, <1>4
  <1>6. live \in Weeks /\ WeekLocked(CurrentSeason, live, now)
    BY <1>4, <1>5, LiveHasKickedOff DEF IInv
  <1>7. now \in Nat
    BY DEF IInv, TypeOK
  <1>8. EndsAt[w] + HistoricalTTL + RequestTimeout <= now
    BY <1>2, <1>3, <1>6, <1>7, PastIsPlayedOut
  <1>9. now <= get[r].at + RequestTimeout
    BY <1>5 DEF InTime
  <1>10. \/ get[r].stats \in {EndsAt[w], NoStats}
         \/ /\ get[r].stats < EndsAt[w]
            /\ get[r].at <= get[r].stats + CurrentTTL + RequestTimeout
    BY DEF AnswersRecent, ComparedAsFinal
  <1>11. /\ EndsAt[w] \in Nat /\ HistoricalTTL \in Nat /\ CurrentTTL \in Nat
         /\ RequestTimeout \in Nat /\ CurrentTTL + RequestTimeout <= HistoricalTTL
         /\ get[r].stats # NoStats => get[r].stats \in Nat
    BY <1>1, <1>3, CacheAssumption DEF Answered, Stats
  <1>12. QED
    BY <1>3, <1>7, <1>8, <1>9, <1>10, <1>11

(* A comparison flagged final shows final points, although compare looks   *)
(* at the live week only after it has read the matchups.                   *)
THEOREM ComparisonsAreFinal == Spec => []FinalComparisonsAreFinal
  <1>1. Init => AnswersRecent
    BY DEF Init, Idle, AnswersRecent
  <1>2. IInv /\ AnswersRecent => FinalComparisonsAreFinal
    BY ComparedIsPlayedOut
  <1>3. QED
    BY <1>1, <1>2, AnswersStep, CacheInvariance, PTL DEF Spec
=============================================================================
