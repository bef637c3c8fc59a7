--------------------------- MODULE RostersProofs ---------------------------
(* Theorems about player syncs and the roster cache, for any number of     *)
(* players, syncs and readers, and any deadline and TTL.                   *)
EXTENDS Rosters, TLAPS

(* A sync, a fetch: what its phase says about the rest of it. *)
LEMMA SyncKinds ==
    ASSUME SyncTypeOK, NEW s \in Syncs
    PROVE  /\ sync[s].phase = "downloading" => sync[s] \in Downloads
           /\ sync[s].phase = "upserting" => sync[s] \in Upserts
           /\ sync[s].phase = "upserted" => sync[s] \in Upserted
           /\ sync[s] = NotSyncing => sync[s].phase = "idle"
  BY DEF SyncTypeOK, NotSyncing, Downloads, Upserts, Upserted

LEMMA ReadKinds ==
    ASSUME RTypeOK, NEW r \in Readers
    PROVE  /\ read[r].phase = "fetching" => read[r] \in Fetching
           /\ read[r].phase = "resolved" => read[r] \in Resolved
           /\ read[r] = NotReading => read[r].phase = "idle"
           /\ read[r] # NotReading => read[r] \in Fetching \cup Resolved
  BY DEF RTypeOK, NotReading, Fetching, Resolved

(* What a step of a sync does to the clock, the commits and the players:   *)
(* it may commit once, all players at one version.                         *)
Committed(s) ==
    /\ Len(commits) < MaxCommits
    /\ commits' = Append(commits, now)
    /\ sync[s] \in Upserts
    /\ players' = [p \in Players |-> sync[s].version]

LEMMA SyncEffect ==
    ASSUME SyncTypeOK, NEW s \in Syncs, SyncStep(s)
    PROVE  /\ UNCHANGED <<now, feed, acked>>
           /\ UNCHANGED <<players, commits>> \/ Committed(s)
           /\ \E new \in {NotSyncing} \cup Downloads \cup Upserts \cup Upserted :
                 /\ sync' = [sync EXCEPT ![s] = new]
                 /\ new.phase = "upserted" => new.commit <= Len(commits')
  <1> USE SyncAssumption
  <1>1. CASE BeginSync(s)
    <2> DEFINE new == [phase |-> "downloading", at |-> now]
    <2>1. new \in Downloads /\ new.phase # "upserted"
      BY DEF Downloads, SyncTypeOK
    <2>2. QED
      BY <1>1, <2>1 DEF BeginSync
  <1>2. CASE Download(s)
    <2> DEFINE new == [phase |-> "upserting", at |-> sync[s].at, version |-> feed,
                       locked |-> {}, row |-> NoRow]
    <2>1. new \in Upserts /\ new.phase # "upserted"
      BY <1>2, SyncKinds DEF Download, Downloads, Upserts, SyncTypeOK
    <2>2. sync' = [sync EXCEPT ![s] = new]
      BY <1>2 DEF Download, SyncTypeOK
    <2>3. QED
      BY <1>2, <2>1, <2>2 DEF Download
  <1>3. ASSUME NEW p \in Players, UpsertRow(s, p)
        PROVE  /\ UNCHANGED <<now, feed, acked, players, commits>>
               /\ \E new \in Upserts : sync' = [sync EXCEPT ![s] = new]
    <2>1. sync[s] \in Upserts
      BY <1>3, SyncKinds DEF UpsertRow, Upserting
    <2>2. CASE Locked(p)
      <3> DEFINE new == [sync[s] EXCEPT !.row = p]
      <3>1. new \in Upserts
        BY <2>1 DEF Upserts
      <3>2. sync' = [sync EXCEPT ![s] = new]
        BY <1>3, <2>2 DEF UpsertRow, SyncTypeOK
      <3>3. QED
        BY <1>3, <3>1, <3>2 DEF UpsertRow
    <2>3. CASE ~Locked(p)
      <3> DEFINE new == [[sync[s] EXCEPT !.locked = @ \cup {p}] EXCEPT !.row = NoRow]
      <3>1. new \in Upserts
        BY <2>1 DEF Upserts
      <3>2. sync' = [sync EXCEPT ![s] = new]
        BY <1>3, <2>3 DEF UpsertRow, RowDone, SyncTypeOK
      <3>3. QED
        BY <1>3, <3>1, <3>2 DEF UpsertRow
    <2>4. QED
      BY <2>2, <2>3
  <1>4. CASE Commit(s)
    <2> DEFINE new == [phase |-> "upserted", commit |-> Len(commits) + 1]
    <2>1. new \in Upserted /\ new.commit = Len(commits) + 1
      BY <1>4 DEF Commit, Upserted, SyncTypeOK
    <2>2. Len(commits') = Len(commits) + 1
      BY <1>4 DEF Commit, SyncTypeOK
    <2>3. Committed(s)
      BY <1>4, SyncKinds DEF Commit, Committed, AllLocked, Upserting
    <2>4. new.commit <= Len(commits')
      BY <2>1, <2>2 DEF SyncTypeOK
    <2>5. QED
      BY <1>4, <2>1, <2>3, <2>4 DEF Commit
  <1>5. CASE CommitLost(s)
    <2> DEFINE new == [phase |-> "upserted", commit |-> 0]
    <2>1. new \in Upserted /\ new.commit = 0
      BY DEF Upserted
    <2>2. 0 <= Len(commits)
      BY DEF SyncTypeOK
    <2>3. QED
      BY <1>5, <2>1, <2>2 DEF CommitLost
  <1>6. CASE DeadlockAbort(s) \/ Expire(s)
    BY <1>6 DEF DeadlockAbort, Expire, NotSyncing
  <1>7. CASE FailSync(s)
    <2>1. sync' = [sync EXCEPT ![s] = NotSyncing] /\ NotSyncing.phase # "upserted"
      BY <1>7 DEF FailSync, NotSyncing
    <2>2. UNCHANGED <<players, commits>> \/ Committed(s)
      BY <1>7, SyncKinds DEF FailSync, Committed, AllLocked, Upserting
    <2>3. QED
      BY <1>7, <2>1, <2>2 DEF FailSync
  <1>8. ASSUME NEW new \in Upserts
        PROVE  new.phase # "upserted"
    BY DEF Upserts
  <1>9. QED
    BY <1>1, <1>2, <1>3, <1>4, <1>5, <1>6, <1>7, <1>8 DEF SyncStep, BatchStep

(* One commit more: it is now, and the earlier ones are where they were. *)
LEMMA OneMoreCommit ==
    ASSUME SyncTypeOK, commits' = Append(commits, now)
    PROVE  /\ Len(commits') = Len(commits) + 1
           /\ commits' \in Seq(Nat)
           /\ commits'[Len(commits) + 1] = now
           /\ \A i \in 1 .. Len(commits) : commits'[i] = commits[i]
           /\ DOMAIN commits' = 1 .. Len(commits) + 1
  BY DEF SyncTypeOK

-----------------------------------------------------------------------------
(* Types. *)
LEMMA SyncTypeStep ==
    ASSUME SyncTypeOK, NEW s \in Syncs, SyncStep(s)
    PROVE  SyncTypeOK'
  <1>1. PICK new \in {NotSyncing} \cup Downloads \cup Upserts \cup Upserted :
              sync' = [sync EXCEPT ![s] = new]
    BY SyncEffect
  <1>2. sync' \in [Syncs -> {NotSyncing} \cup Downloads \cup Upserts \cup Upserted]
    BY <1>1 DEF SyncTypeOK
  <1>3. /\ now' \in Nat /\ feed' \in 0 .. MaxFeed
        /\ acked' \in 0 .. MaxCommits
    BY SyncEffect DEF SyncTypeOK
  <1>4. /\ players' \in [Players -> 0 .. MaxFeed]
        /\ commits' \in Seq(Nat) /\ Len(commits') <= MaxCommits
    <2>1. CASE UNCHANGED <<players, commits>>
      BY <2>1 DEF SyncTypeOK
    <2>2. CASE Committed(s)
      <3>1. sync[s].version \in 0 .. MaxFeed
        BY <2>2 DEF Committed, Upserts
      <3>2. players' \in [Players -> 0 .. MaxFeed]
        BY <2>2, <3>1 DEF Committed
      <3>3. commits' \in Seq(Nat) /\ Len(commits') <= MaxCommits
        BY <2>2, OneMoreCommit, SyncAssumption DEF Committed, SyncTypeOK
      <3>4. QED
        BY <3>2, <3>3
    <2>3. QED
      BY <2>1, <2>2, SyncEffect
  <1>5. QED
    BY <1>2, <1>3, <1>4 DEF SyncTypeOK

(* A row is locked by the one sync that found it free. *)
LEMMA LocksStep ==
    ASSUME SyncTypeOK, RowsAreLockedOnce, NEW s \in Syncs, SyncStep(s)
    PROVE  RowsAreLockedOnce'
  <1> SUFFICES ASSUME NEW t \in Syncs, t # s, Upserting(s)', Upserting(t)'
               PROVE  sync'[s].locked \cap sync'[t].locked = {}
    <2>1. \A t, u \in Syncs \ {s} : sync'[t] = sync[t] /\ sync'[u] = sync[u]
      BY SyncEffect DEF SyncTypeOK
    <2>2. QED
      BY <2>1 DEF RowsAreLockedOnce, Upserting
  <1>1. sync'[t] = sync[t] /\ Upserting(t)
    BY SyncEffect DEF SyncTypeOK, Upserting
  <1>2. CASE BeginSync(s) \/ Commit(s) \/ CommitLost(s) \/ DeadlockAbort(s)
             \/ FailSync(s) \/ Expire(s)
    BY <1>2 DEF BeginSync, Commit, CommitLost, DeadlockAbort, FailSync, Expire,
                Upserting, NotSyncing, SyncTypeOK
  <1>3. CASE Download(s)
    BY <1>3 DEF Download, SyncTypeOK
  <1>4. ASSUME NEW p \in Players, UpsertRow(s, p)
        PROVE  sync'[s].locked \cap sync'[t].locked = {}
    <2>1. sync[s] \in Upserts /\ sync[s].locked \cap sync[t].locked = {}
      BY <1>1, <1>4, SyncKinds DEF UpsertRow, Upserting, RowsAreLockedOnce
    <2>2. CASE Locked(p)
      <3>1. sync'[s].locked = sync[s].locked
        BY <1>4, <2>1, <2>2 DEF UpsertRow, SyncTypeOK, Upserts
      <3>2. QED
        BY <1>1, <2>1, <3>1
    <2>3. CASE ~Locked(p)
      <3>1. sync'[s].locked = sync[s].locked \cup {p}
        BY <1>4, <2>1, <2>3 DEF UpsertRow, RowDone, SyncTypeOK, Upserts
      <3>2. p \notin sync[t].locked
        BY <1>1, <2>3 DEF Locked
      <3>3. QED
        BY <1>1, <2>1, <3>1, <3>2
    <2>4. QED
      BY <2>2, <2>3
  <1>5. QED
    BY <1>2, <1>3, <1>4 DEF SyncStep, BatchStep

LEMMA InitType == RInit => RTypeOK
  <1>1. 0 \in 0 .. MaxFeed /\ 0 \in 0 .. MaxCommits
    BY SyncAssumption
  <1>2. QED
    BY <1>1, SyncAssumption
    DEF RInit, SyncInit, RTypeOK, SyncTypeOK, RowsAreLockedOnce, Upserting, NotSyncing

LEMMA NextType == RTypeOK /\ [RNext]_rVars => RTypeOK'
  <1> SUFFICES ASSUME RTypeOK, [RNext]_rVars PROVE RTypeOK'
    OBVIOUS
  <1>0. SyncTypeOK /\ RowsAreLockedOnce
    BY DEF RTypeOK
  <1>1. CASE Tick
    BY <1>1 DEF Tick, RTypeOK, SyncTypeOK, RowsAreLockedOnce, Upserting
  <1>2. CASE Restart
    BY <1>2 DEF Restart, RTypeOK, SyncTypeOK, RowsAreLockedOnce, Upserting, NotSyncing
  <1>3. CASE FeedChanges /\ UNCHANGED <<cache, read>>
    BY <1>3, SyncAssumption
    DEF FeedChanges, RTypeOK, SyncTypeOK, RowsAreLockedOnce, Upserting
  <1>4. ASSUME NEW s \in Syncs, SyncStep(s), UNCHANGED <<cache, read>>
        PROVE  RTypeOK'
    BY <1>0, <1>4, SyncTypeStep, LocksStep DEF RTypeOK
  <1>5. ASSUME NEW s \in Syncs, InvalidateRosters(s)
        PROVE  RTypeOK'
    <2>1. sync[s] \in Upserted
      BY <1>0, <1>5, SyncKinds DEF InvalidateRosters
    <2>2. SyncTypeOK'
      BY <1>0, <1>5, <2>1 DEF InvalidateRosters, SyncTypeOK, Upserted
    <2>3. RowsAreLockedOnce'
      BY <1>0, <1>5
      DEF InvalidateRosters, SyncTypeOK, RowsAreLockedOnce, Upserting, NotSyncing
    <2>4. QED
      BY <1>5, <2>2, <2>3 DEF InvalidateRosters, RTypeOK
  <1>6. ASSUME NEW r \in Readers, ReadStep(r)
        PROVE  RTypeOK'
    <2>1. SyncTypeOK' /\ RowsAreLockedOnce'
      BY <1>0, <1>6
      DEF ReadStep, BeginFetch, ResolvePlayers, FillCache, FailRead, syncVars,
          SyncTypeOK, RowsAreLockedOnce, Upserting
    <2>2. CASE BeginFetch(r)
      <3>1. [phase |-> "fetching", at |-> now, begun |-> acked] \in Fetching
        BY <1>0 DEF SyncTypeOK, Fetching
      <3>2. QED
        BY <2>1, <2>2, <3>1 DEF BeginFetch, RTypeOK
    <2>3. CASE ResolvePlayers(r)
      <3>1. read[r] \in Fetching
        BY <2>3, ReadKinds DEF ResolvePlayers
      <3>2. [phase |-> "resolved", at |-> read[r].at, begun |-> read[r].begun,
             seen |-> Len(commits)] \in Resolved
        BY <1>0, <3>1, SyncAssumption DEF SyncTypeOK, Fetching, Resolved
      <3>3. QED
        BY <2>1, <2>3, <3>2 DEF ResolvePlayers, RTypeOK
    <2>4. CASE FillCache(r)
      <3>1. read[r] \in Resolved
        BY <2>4, ReadKinds DEF FillCache
      <3>2. [seen |-> read[r].seen, begun |-> read[r].begun, filled |-> acked,
             fetchedAt |-> now] \in Entry
        BY <1>0, <3>1 DEF SyncTypeOK, Resolved, Entry
      <3>3. QED
        BY <2>1, <2>4, <3>2 DEF FillCache, RTypeOK
    <2>5. CASE FailRead(r)
      BY <2>1, <2>5 DEF FailRead, RTypeOK
    <2>6. QED
      BY <1>6, <2>2, <2>3, <2>4, <2>5 DEF ReadStep
  <1>7. CASE UNCHANGED rVars
    BY <1>7 DEF rVars, syncVars, RTypeOK, SyncTypeOK, RowsAreLockedOnce, Upserting
  <1>8. QED
    BY <1>1, <1>2, <1>3, <1>4, <1>5, <1>6, <1>7 DEF RNext

-----------------------------------------------------------------------------
(* Whatever the step, what a sync does to the players and the commits is   *)
(* all that happens to them, and the clock never goes back.                *)
LEMMA TableEffect ==
    ASSUME RTypeOK, [RNext]_rVars
    PROVE  /\ now <= now'
           /\ \/ UNCHANGED <<players, commits>>
              \/ (\E s \in Syncs : Committed(s)) /\ UNCHANGED <<now, acked, cache, read>>
  <1>0. SyncTypeOK /\ now \in Nat
    BY DEF RTypeOK, SyncTypeOK
  <1>1. ASSUME NEW s \in Syncs, SyncStep(s), UNCHANGED <<cache, read>>
        PROVE  /\ now <= now'
               /\ \/ UNCHANGED <<players, commits>>
                  \/ Committed(s) /\ UNCHANGED <<now, acked, cache, read>>
    BY <1>0, <1>1, SyncEffect
  <1>2. CASE Tick
    BY <1>0, <1>2 DEF Tick
  <1>3. ASSUME ~Tick, ~\E s \in Syncs : SyncStep(s) /\ UNCHANGED <<cache, read>>
        PROVE  UNCHANGED <<now, players, commits>>
    BY <1>3 DEF RNext, Restart, FeedChanges, InvalidateRosters, ReadStep, BeginFetch,
                ResolvePlayers, FillCache, FailRead, rVars, syncVars
  <1>4. QED
    BY <1>0, <1>1, <1>2, <1>3

LEMMA OneFeedStep ==
    ASSUME RTypeOK, PlayersOfOneFeed, [RNext]_rVars
    PROVE  PlayersOfOneFeed'
  <1>1. CASE UNCHANGED <<players, commits>>
    BY <1>1 DEF PlayersOfOneFeed
  <1>2. ASSUME NEW s \in Syncs, Committed(s)
        PROVE  PlayersOfOneFeed'
    BY <1>2 DEF Committed, PlayersOfOneFeed
  <1>3. QED
    BY <1>1, <1>2, TableEffect

LEMMA PastStep ==
    ASSUME RTypeOK, CommitsArePast, [RNext]_rVars
    PROVE  CommitsArePast'
  <1>0. /\ SyncTypeOK /\ now \in Nat /\ now' \in Nat /\ now <= now'
        /\ DOMAIN commits = 1 .. Len(commits) /\ commits \in [1 .. Len(commits) -> Nat]
    BY NextType, TableEffect DEF RTypeOK, SyncTypeOK
  <1>1. CASE UNCHANGED <<players, commits>>
    BY <1>0, <1>1 DEF CommitsArePast
  <1>2. ASSUME NEW s \in Syncs, Committed(s)
        PROVE  CommitsArePast'
    <2>1. commits' = Append(commits, now)
      BY <1>2 DEF Committed
    <2>2. ASSUME NEW i \in DOMAIN commits'
          PROVE  commits'[i] <= now'
      <3>1. CASE i = Len(commits) + 1
        BY <1>0, <2>1, <3>1, OneMoreCommit
      <3>2. CASE i \in 1 .. Len(commits)
        BY <1>0, <2>1, <3>2, OneMoreCommit DEF CommitsArePast
      <3>3. QED
        BY <1>0, <2>1, <2>2, <3>1, <3>2, OneMoreCommit DEF SyncTypeOK
    <2>3. QED
      BY <2>2 DEF CommitsArePast
  <1>3. QED
    BY <1>1, <1>2, TableEffect

LEMMA CommittedStep ==
    ASSUME RTypeOK, AnswersAreCommitted, [RNext]_rVars
    PROVE  AnswersAreCommitted'
  <1>0. /\ SyncTypeOK /\ acked \in Nat /\ Len(commits) \in Nat
    BY SyncAssumption DEF RTypeOK, SyncTypeOK
  <1>1. Len(commits') \in Nat /\ Len(commits) <= Len(commits')
    <2>1. CASE UNCHANGED <<players, commits>>
      BY <1>0, <2>1
    <2>2. ASSUME NEW s \in Syncs, Committed(s)
          PROVE  Len(commits') = Len(commits) + 1
      BY <1>0, <2>2, OneMoreCommit DEF Committed
    <2>3. QED
      BY <1>0, <2>1, <2>2, TableEffect
  <1>2. ASSUME NEW s \in Syncs, SyncStep(s)
        PROVE  AnswersAreCommitted'
    <2>1. acked' <= Len(commits')
      BY <1>0, <1>1, <1>2, SyncEffect DEF AnswersAreCommitted
    <2>2. PICK new \in {NotSyncing} \cup Downloads \cup Upserts \cup Upserted :
              /\ sync' = [sync EXCEPT ![s] = new]
              /\ new.phase = "upserted" => new.commit <= Len(commits')
      BY <1>0, <1>2, SyncEffect
    <2>3. ASSUME NEW t \in Syncs, sync'[t].phase = "upserted"
          PROVE  sync'[t].commit <= Len(commits')
      <3>1. CASE t = s
        BY <1>0, <2>2, <2>3, <3>1 DEF SyncTypeOK
      <3>2. CASE t # s
        <4>1. sync'[t] = sync[t]
          BY <1>0, <2>2, <3>2 DEF SyncTypeOK
        <4>2. sync[t] \in Upserted /\ sync[t].commit <= Len(commits)
          BY <1>0, <2>3, <4>1, SyncKinds DEF AnswersAreCommitted
        <4>3. sync[t].commit \in Nat
          BY <4>2, SyncAssumption DEF Upserted
        <4>4. QED
          BY <1>0, <1>1, <4>1, <4>2, <4>3
      <3>3. QED
        BY <3>1, <3>2
    <2>4. QED
      BY <2>1, <2>3 DEF AnswersAreCommitted
  <1>3. ASSUME NEW s \in Syncs, InvalidateRosters(s)
        PROVE  AnswersAreCommitted'
    <2>1. acked' <= Len(commits')
      BY <1>3 DEF InvalidateRosters, AnswersAreCommitted
    <2>2. ASSUME NEW t \in Syncs, sync'[t].phase = "upserted"
          PROVE  sync'[t] = sync[t]
      BY <1>0, <1>3, <2>2 DEF InvalidateRosters, SyncTypeOK, NotSyncing
    <2>3. QED
      BY <1>3, <2>1, <2>2 DEF InvalidateRosters, AnswersAreCommitted
  <1>4. CASE Restart
    BY <1>4 DEF Restart, AnswersAreCommitted, NotSyncing
  <1>5. CASE UNCHANGED <<sync, commits, acked>>
    BY <1>5 DEF AnswersAreCommitted
  <1>6. QED
    BY <1>2, <1>3, <1>4, <1>5
    DEF RNext, Tick, FeedChanges, ReadStep, BeginFetch, ResolvePlayers, FillCache,
        FailRead, rVars, syncVars

(* The commits a fetch has missed happened while it was on its way, so     *)
(* what a commit adds to them is not earlier than the fetch.               *)
LEMMA FetchesStep ==
    ASSUME RTypeOK, CommitsArePast, AnswersAreCommitted, FetchesMissLittle, [RNext]_rVars
    PROVE  FetchesMissLittle'
  <1>0. /\ SyncTypeOK /\ now \in Nat /\ now' \in Nat /\ now <= now'
        /\ acked \in Nat /\ Len(commits) \in Nat /\ acked <= Len(commits)
        /\ read \in [Readers -> {NotReading} \cup Fetching \cup Resolved]
    BY NextType, TableEffect, SyncAssumption DEF RTypeOK, SyncTypeOK, AnswersAreCommitted
  <1>r. ASSUME NEW r \in Readers, read[r] # NotReading
        PROVE  read[r].at \in Nat /\ read[r].begun \in Nat
    BY <1>r, ReadKinds, SyncAssumption DEF Fetching, Resolved
  <1>s. ASSUME NEW r \in Readers, read[r].phase = "resolved"
        PROVE  read[r] # NotReading /\ read[r].seen \in Nat
    BY <1>s, ReadKinds, SyncAssumption DEF Resolved, NotReading
  <1>1. ASSUME NEW s \in Syncs, Committed(s), UNCHANGED <<now, acked, cache, read>>
        PROVE  FetchesMissLittle'
    <2>1. /\ Len(commits') = Len(commits) + 1 /\ commits'[Len(commits) + 1] = now
          /\ \A i \in 1 .. Len(commits) : commits'[i] = commits[i]
      BY <1>0, <1>1, OneMoreCommit DEF Committed
    <2>2. ASSUME NEW r \in Readers, read[r].phase = "resolved"
          PROVE  /\ read[r].seen <= Len(commits')
                 /\ read[r].seen < Len(commits') => read[r].at <= commits'[read[r].seen + 1]
      <3>1. /\ read[r].seen \in Nat /\ read[r].at \in Nat
            /\ read[r].seen <= Len(commits) /\ read[r].at <= now
            /\ read[r].seen < Len(commits) => read[r].at <= commits[read[r].seen + 1]
        BY <1>r, <1>s, <2>2 DEF FetchesMissLittle
      <3>2. CASE read[r].seen < Len(commits)
        BY <1>0, <2>1, <3>1, <3>2
      <3>3. CASE read[r].seen = Len(commits)
        BY <1>0, <2>1, <3>1, <3>3
      <3>4. QED
        BY <1>0, <3>1, <3>2, <3>3
    <2>3. QED
      BY <1>1, <2>2 DEF FetchesMissLittle
  <1>2. ASSUME UNCHANGED commits, NEW r \in Readers, ReadStep(r)
        PROVE  FetchesMissLittle'
    <2>1. UNCHANGED <<now, acked, commits>>
      BY <1>2 DEF ReadStep, BeginFetch, ResolvePlayers, FillCache, FailRead, syncVars
    <2>2. /\ read'[r] # NotReading => read'[r].at <= now /\ read'[r].begun <= acked
          /\ read'[r].phase = "resolved" =>
                read'[r].begun <= read'[r].seen /\ read'[r].seen = Len(commits)
      <3>1. CASE BeginFetch(r)
        BY <1>0, <3>1 DEF BeginFetch
      <3>2. CASE ResolvePlayers(r)
        <4>1. /\ read'[r].at = read[r].at /\ read'[r].begun = read[r].begun
              /\ read'[r].seen = Len(commits)
          BY <1>0, <3>2 DEF ResolvePlayers
        <4>2. read[r] # NotReading
          BY <3>2, ReadKinds DEF ResolvePlayers, NotReading
        <4>3. QED
          BY <1>0, <1>r, <4>1, <4>2 DEF FetchesMissLittle
      <3>3. CASE FillCache(r) \/ FailRead(r)
        BY <1>0, <3>3 DEF FillCache, FailRead, NotReading
      <3>4. QED
        BY <1>2, <3>1, <3>2, <3>3 DEF ReadStep
    <2>3. \A q \in Readers \ {r} : read'[q] = read[q]
      BY <1>0, <1>2 DEF ReadStep, BeginFetch, ResolvePlayers, FillCache, FailRead
    <2>4. QED
      BY <1>0, <2>1, <2>2, <2>3 DEF FetchesMissLittle
  <1>3. CASE UNCHANGED <<commits, read>> /\ acked' \in Nat /\ acked <= acked'
    BY <1>0, <1>r, <1>3 DEF FetchesMissLittle
  <1>4. CASE Restart
    BY <1>4 DEF Restart, FetchesMissLittle, NotReading
  <1>5. ASSUME UNCHANGED commits, ~Restart, ~\E r \in Readers : ReadStep(r)
        PROVE  UNCHANGED read /\ acked' \in Nat /\ acked <= acked'
    <2>1. ASSUME NEW s \in Syncs, InvalidateRosters(s)
          PROVE  UNCHANGED read /\ acked' \in Nat /\ acked <= acked'
      <3>1. sync[s].commit \in Nat
        BY <1>0, <2>1, SyncKinds, SyncAssumption DEF InvalidateRosters, Upserted
      <3>2. QED
        BY <1>0, <2>1, <3>1 DEF InvalidateRosters
    <2>2. ASSUME NEW s \in Syncs, SyncStep(s), UNCHANGED <<cache, read>>
          PROVE  UNCHANGED <<acked, read>>
      BY <1>0, <2>2, SyncEffect
    <2>3. QED
      BY <1>0, <1>5, <2>1, <2>2 DEF RNext, Tick, FeedChanges, rVars, syncVars
  <1>6. QED
    BY <1>1, <1>2, <1>3, <1>4, <1>5, TableEffect

(* An entry misses what its fetch missed, and the fetch was not on its way *)
(* for longer than its deadline.                                           *)
LEMMA EntriesStep ==
    ASSUME RTypeOK, CommitsArePast, AnswersAreCommitted, FetchesMissLittle,
           EntriesMissLittle, [RNext]_rVars
    PROVE  EntriesMissLittle'
  <1>0. /\ SyncTypeOK /\ now \in Nat /\ now' \in Nat /\ now <= now'
        /\ acked \in Nat /\ Len(commits) \in Nat /\ acked <= Len(commits)
        /\ commits \in [1 .. Len(commits) -> Nat]
    BY NextType, TableEffect, SyncAssumption DEF RTypeOK, SyncTypeOK, AnswersAreCommitted
  <1>c. ASSUME cache # NoEntry
        PROVE  cache.seen \in Nat /\ cache.fetchedAt \in Nat
    BY <1>c, SyncAssumption DEF RTypeOK, Entry
  <1>1. ASSUME NEW s \in Syncs, Committed(s), UNCHANGED <<now, acked, cache, read>>
        PROVE  EntriesMissLittle'
    <2>1. /\ Len(commits') = Len(commits) + 1 /\ commits'[Len(commits) + 1] = now
          /\ \A i \in 1 .. Len(commits) : commits'[i] = commits[i]
      BY <1>0, <1>1, OneMoreCommit DEF Committed
    <2>2. ASSUME cache # NoEntry
          PROVE  /\ cache.seen <= Len(commits')
                 /\ cache.seen < Len(commits') =>
                       cache.fetchedAt <= commits'[cache.seen + 1] + RequestTimeout
      <3>1. /\ cache.seen \in Nat /\ cache.fetchedAt \in Nat
            /\ cache.seen <= Len(commits) /\ cache.fetchedAt <= now
            /\ cache.seen < Len(commits) =>
                  cache.fetchedAt <= commits[cache.seen + 1] + RequestTimeout
        BY <1>c, <2>2 DEF EntriesMissLittle
      <3>2. CASE cache.seen < Len(commits)
        BY <1>0, <2>1, <3>1, <3>2
      <3>3. CASE cache.seen = Len(commits)
        BY <1>0, <2>1, <3>1, <3>3, SyncAssumption
      <3>4. QED
        BY <1>0, <3>1, <3>2, <3>3
    <2>3. QED
      BY <1>1, <2>2 DEF EntriesMissLittle
  <1>2. ASSUME NEW r \in Readers, FillCache(r), ~UNCHANGED cache
        PROVE  EntriesMissLittle'
    <2>1. /\ cache'.seen = read[r].seen /\ cache'.begun = read[r].begun
          /\ cache'.filled = acked /\ cache'.fetchedAt = now
          /\ UNCHANGED <<now, commits, acked>>
      BY <1>2 DEF FillCache, syncVars
    <2>2. /\ read[r].begun <= read[r].seen /\ read[r].seen <= Len(commits)
          /\ read[r].seen < Len(commits) => read[r].at <= commits[read[r].seen + 1]
          /\ read[r].at \in Nat /\ read[r].seen \in Nat
          /\ now <= read[r].at + RequestTimeout
      BY <1>2, ReadKinds, SyncAssumption
      DEF FillCache, ReadInTime, FetchesMissLittle, Resolved
    <2>3. ASSUME read[r].seen < Len(commits)
          PROVE  now <= commits[read[r].seen + 1] + RequestTimeout
      BY <1>0, <2>2, <2>3, SyncAssumption
    <2>4. QED
      BY <1>0, <2>1, <2>2, <2>3 DEF EntriesMissLittle
  <1>3. CASE UNCHANGED <<commits, acked, cache>>
    BY <1>0, <1>c, <1>3 DEF EntriesMissLittle
  <1>4. CASE cache' = NoEntry
    BY <1>4 DEF EntriesMissLittle
  <1>5. ASSUME UNCHANGED commits, ~UNCHANGED <<acked, cache>>, cache' # NoEntry
        PROVE  \E r \in Readers : FillCache(r) /\ ~UNCHANGED cache
    <2>1. ASSUME NEW s \in Syncs, SyncStep(s), UNCHANGED <<cache, read>>
          PROVE  UNCHANGED acked
      BY <1>0, <2>1, SyncEffect
    <2>2. QED
      BY <1>5, <2>1
      DEF RNext, Tick, Restart, FeedChanges, InvalidateRosters, ReadStep, BeginFetch,
          ResolvePlayers, FillCache, FailRead, rVars, syncVars
  <1>6. QED
    BY <1>1, <1>2, <1>3, <1>4, <1>5, TableEffect

-----------------------------------------------------------------------------
LEMMA InitInv == RInit => RIInv
  BY InitType
  DEF RInit, SyncInit, RIInv, PlayersOfOneFeed, CommitsArePast, AnswersAreCommitted,
      FetchesMissLittle, EntriesMissLittle, NotSyncing, NotReading

LEMMA NextInv == RIInv /\ [RNext]_rVars => RIInv'
  BY NextType, OneFeedStep, PastStep, CommittedStep, FetchesStep, EntriesStep DEF RIInv

(* The invariant of the syncs and the cache (RSpec: HandleSyncPlayers,     *)
(* UpsertPlayers, GetRosters, InvalidateRosters, run in any order).        *)
THEOREM RostersInvariance == RSpec => []RIInv
  <1>1. QED
    BY InitInv, NextInv, PTL DEF RSpec

(* Players, syncs, the cache and its readers keep their types, and no two  *)
(* syncs ever hold the lock of one row (UpsertPlayers, GetRosters).        *)
THEOREM RostersTypeCorrect == RSpec => []RTypeOK
  <1>1. RIInv => RTypeOK
    BY DEF RIInv
  <1>2. QED
    BY <1>1, RostersInvariance, PTL

(* Overlapping syncs of any number of players, aborted, overtaken or lost  *)
(* at any point, leave the players of one feed (UpsertPlayers).            *)
THEOREM PlayersAreOfOneFeed == RSpec => []PlayersOfOneFeed
  <1>1. RIInv => PlayersOfOneFeed
    BY DEF RIInv
  <1>2. QED
    BY <1>1, RostersInvariance, PTL

(* With any number of readers and syncs, an entry that misses a sync which *)
(* has answered is from a fetch begun before the answer and was filled     *)
(* after it (GetRosters, InvalidateRosters).                               *)
THEOREM StaleFetchesWereOvertaken == RSpec => []OnlyOvertakenFetchesAreStale
  <1>1. ASSUME RIInv PROVE OnlyOvertakenFetchesAreStale
    <2>1. ASSUME cache # NoEntry
          PROVE  /\ cache.begun \in Nat /\ cache.seen \in Nat /\ acked \in Nat
                 /\ cache.begun <= cache.seen /\ cache.filled = acked
      BY <1>1, <2>1, SyncAssumption
      DEF RIInv, EntriesMissLittle, RTypeOK, SyncTypeOK, Entry
    <2>2. QED
      BY <2>1 DEF OnlyOvertakenFetchesAreStale
  <1>2. QED
    BY <1>1, RostersInvariance, PTL

(* For every TTL and deadline, no answer from the cache trails a commit it *)
(* misses by both together (GetRosters, timeoutMiddleware).                *)
THEOREM StaleAnswersExpire == RSpec => []AnswersTrailByTTL
  <1>1. ASSUME RIInv PROVE AnswersTrailByTTL
    <2>1. ASSUME Fresh, cache.seen < Len(commits)
          PROVE  now < commits[cache.seen + 1] + RosterTTL + RequestTimeout
      <3>1. /\ cache.seen \in Nat /\ cache.fetchedAt \in Nat /\ now \in Nat
            /\ Len(commits) \in Nat /\ commits \in [1 .. Len(commits) -> Nat]
            /\ cache.fetchedAt <= commits[cache.seen + 1] + RequestTimeout
            /\ cache.fetchedAt <= now /\ now - cache.fetchedAt < RosterTTL
        BY <1>1, <2>1, SyncAssumption
        DEF RIInv, EntriesMissLittle, RTypeOK, SyncTypeOK, Entry, Fresh
      <3>2. commits[cache.seen + 1] \in Nat
        BY <2>1, <3>1
      <3>3. QED
        BY <3>1, <3>2, SyncAssumption, RosterAssumption
    <2>2. QED
      BY <2>1 DEF AnswersTrailByTTL
  <1>2. QED
    BY <1>1, RostersInvariance, PTL
=============================================================================
