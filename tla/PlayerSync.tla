----------------------------- MODULE PlayerSync -----------------------------
(***************************************************************************)
(* POST /admin/sync-players: Sleeper's player feed and a rankings sheet    *)
(* are downloaded, every player is upserted in one batch, which Postgres   *)
(* runs as one transaction, and the roster cache is cleared.  Syncs may    *)
(* overlap; each upserts the players in the order a Go map happened to     *)
(* yield them, locking every row until it commits.                         *)
(***************************************************************************)
EXTENDS Naturals, Sequences, FiniteSets

CONSTANTS
    Players,         \* players in every version of the feed
    Syncs,           \* syncs the server has in flight at once
    RequestTimeout,  \* timeoutMiddleware's deadline
    MaxFeed,         \* bound: versions of the feed
    MaxCommits,      \* bound: syncs that commit
    MaxTime,         \* bound: last instant explored
    NoRow            \* no row is being upserted

ASSUME SyncAssumption ==
    /\ RequestTimeout \in Nat
    /\ MaxFeed \in Nat /\ MaxCommits \in Nat /\ MaxTime \in Nat
    /\ NoRow \notin Players

VARIABLES
    now,      \* the clock
    feed,     \* external: the version Sleeper's feed and the rankings are at
    players,  \* players: the version each committed row is from
    sync,     \* each sync in flight
    commits,  \* when each commit of a sync was, in order
    acked     \* the last commit whose sync has cleared the cache and answered

syncVars == <<now, feed, players, sync, commits, acked>>

NotSyncing == [phase |-> "idle"]

Downloads == [phase: {"downloading"}, at: Nat]

Upserts == [phase: {"upserting"}, at: Nat, version: 0 .. MaxFeed,
            locked: SUBSET Players, row: Players \cup {NoRow}]

Upserted == [phase: {"upserted"}, commit: 0 .. MaxCommits]

SyncTypeOK ==
    /\ now \in Nat /\ feed \in 0 .. MaxFeed
    /\ players \in [Players -> 0 .. MaxFeed]
    /\ sync \in [Syncs -> {NotSyncing} \cup Downloads \cup Upserts \cup Upserted]
    /\ commits \in Seq(Nat) /\ Len(commits) <= MaxCommits
    /\ acked \in 0 .. MaxCommits

Upserting(s) == sync[s].phase = "upserting"

RowsAreLockedOnce ==
    \A s, t \in Syncs :
        s # t /\ Upserting(s) /\ Upserting(t) => sync[s].locked \cap sync[t].locked = {}

SyncInit ==
    /\ now = 0 /\ feed = 0
    /\ players = [p \in Players |-> 0]
    /\ sync = [s \in Syncs |-> NotSyncing]
    /\ commits = <<>> /\ acked = 0

FeedChanges ==
    /\ feed < MaxFeed
    /\ feed' = feed + 1
    /\ UNCHANGED <<now, players, sync, commits, acked>>

SyncInTime(s) == now <= sync[s].at + RequestTimeout

(* No sync begins too late for the bounded clock to reach its deadline. *)
BeginSync(s) ==
    /\ sync[s] = NotSyncing
    /\ now + RequestTimeout < MaxTime
    /\ sync' = [sync EXCEPT ![s] = [phase |-> "downloading", at |-> now]]
    /\ UNCHANGED <<now, feed, players, commits, acked>>

(* Both downloads are in.  Neither looks at the response's status. *)
Download(s) ==
    /\ sync[s].phase = "downloading"
    /\ SyncInTime(s)
    /\ sync' = [sync EXCEPT ![s] = [phase |-> "upserting", at |-> @.at, version |-> feed,
                                    locked |-> {}, row |-> NoRow]]
    /\ UNCHANGED <<now, feed, players, commits, acked>>

Locked(p) == \E t \in Syncs : Upserting(t) /\ p \in sync[t].locked

RowDone(s, p) == sync' = [sync EXCEPT ![s].locked = @ \cup {p}, ![s].row = NoRow]

(* Fault: every upsert commits by itself. *)
UpsertRowAlone(s, p) ==
    /\ Upserting(s)
    /\ p \notin sync[s].locked
    /\ players' = [players EXCEPT ![p] = sync[s].version]
    /\ RowDone(s, p)
    /\ UNCHANGED <<now, feed, commits, acked>>

(* The next INSERT of the batch; rows come in no particular order.  DO     *)
(* UPDATE locks the row until the commit, also where WHERE finds nothing   *)
(* to change; if another sync holds the lock, this one waits for it.       *)
UpsertRow(s, p) ==
    /\ Upserting(s)
    /\ IF sync[s].row = NoRow THEN p \notin sync[s].locked ELSE p = sync[s].row
    /\ IF Locked(p) THEN /\ sync[s].row = NoRow
                         /\ sync' = [sync EXCEPT ![s].row = p]
                    ELSE RowDone(s, p)
    /\ UNCHANGED <<now, feed, players, commits, acked>>

AllLocked(s) == Upserting(s) /\ sync[s].locked = Players

Commit(s) ==
    /\ AllLocked(s)
    /\ Len(commits) < MaxCommits
    /\ players' = [p \in Players |-> sync[s].version]
    /\ commits' = Append(commits, now)
    /\ sync' = [sync EXCEPT ![s] = [phase |-> "upserted", commit |-> Len(commits) + 1]]
    /\ UNCHANGED <<now, feed, acked>>

(* The commit itself fails after the last row's result was read: Close's   *)
(* error is dropped and the sync goes on as if it had upserted.            *)
CommitLost(s) ==
    /\ AllLocked(s)
    /\ sync' = [sync EXCEPT ![s] = [phase |-> "upserted", commit |-> 0]]
    /\ UNCHANGED <<now, feed, players, commits, acked>>

(* Two syncs each wait for a row of the other's: Postgres aborts one. *)
DeadlockAbort(s) ==
    /\ Upserting(s)
    /\ \E t \in Syncs \ {s} : /\ Upserting(t)
                              /\ sync[s].row \in sync[t].locked
                              /\ sync[t].row \in sync[s].locked
    /\ sync' = [sync EXCEPT ![s] = NotSyncing]
    /\ UNCHANGED <<now, feed, players, commits, acked>>

(* A download or a statement fails, or the connection is lost before the   *)
(* commit or right after it: the sync answers an error.                    *)
FailSync(s) ==
    /\ sync[s].phase \in {"downloading", "upserting"}
    /\ \/ UNCHANGED <<players, commits>>
       \/ /\ AllLocked(s)
          /\ Len(commits) < MaxCommits
          /\ players' = [p \in Players |-> sync[s].version]
          /\ commits' = Append(commits, now)
    /\ sync' = [sync EXCEPT ![s] = NotSyncing]
    /\ UNCHANGED <<now, feed, acked>>

(* Fault: no deadline; the downloads' default client has none either. *)
WaitForever(s) == FALSE

(* The request's deadline cancels the downloads and the batch. *)
Expire(s) ==
    /\ sync[s].phase \in {"downloading", "upserting"}
    /\ ~SyncInTime(s)
    /\ sync' = [sync EXCEPT ![s] = NotSyncing]
    /\ UNCHANGED <<now, feed, players, commits, acked>>

(* What the server does once the batch has been sent. *)
BatchStep(s) ==
    \/ \E p \in Players : UpsertRow(s, p)
    \/ Commit(s)
    \/ CommitLost(s)
    \/ DeadlockAbort(s)

SyncStep(s) == BeginSync(s) \/ Download(s) \/ BatchStep(s) \/ FailSync(s) \/ Expire(s)

-----------------------------------------------------------------------------
(* Overlapping syncs never leave a mixture of two feeds: whatever order    *)
(* the rows come in, who waits for whom, and whoever is aborted or loses   *)
(* its connection, the players of all feeds are as one feed had them       *)
(* (UpsertPlayers: one batch is one transaction).                          *)
PlayersOfOneFeed == \A p, q \in Players : players[p] = players[q]

(* Every sync ends: rows awaited in opposite orders do not block two syncs *)
(* for good, and a download that never answers is cut off by the request's *)
(* deadline alone, the default HTTP client having none (HandleSyncPlayers, *)
(* FetchPlayers, timeoutMiddleware).                                       *)
SyncsEnd == \A s \in Syncs : sync[s] # NotSyncing ~> sync[s] = NotSyncing
=============================================================================
