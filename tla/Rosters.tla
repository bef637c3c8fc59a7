------------------------------ MODULE Rosters ------------------------------
(***************************************************************************)
(* The Sleeper client's roster cache beside the player syncs: a roster is  *)
(* fetched from Sleeper, its players are looked up in the players table,   *)
(* and the answer is kept in memory until it is too old or a sync clears   *)
(* it.  What a fetch shows of the players is the number of commits it saw. *)
(* One league is modelled; entries of different leagues never meet.        *)
(***************************************************************************)
EXTENDS PlayerSync

CONSTANTS
    RosterTTL,  \* rosterCacheTTL
    Readers,    \* requests reading the league's rosters at once
    NoEntry     \* the league is absent from the cache

ASSUME RosterAssumption == RosterTTL \in Nat \ {0}

VARIABLES
    cache,  \* Client.rosterCache: the players it shows, and when it was filled
    read    \* each GetRosters call in flight

rVars == <<syncVars, cache, read>>

NotReading == [phase |-> "idle"]

(* begun and filled: the last sync answered when the fetch began, when it  *)
(* filled the cache.                                                       *)
Entry == [seen: 0 .. MaxCommits, begun: 0 .. MaxCommits, filled: 0 .. MaxCommits,
          fetchedAt: Nat]

Fetching == [phase: {"fetching"}, at: Nat, begun: 0 .. MaxCommits]

Resolved == [phase: {"resolved"}, at: Nat, begun: 0 .. MaxCommits, seen: 0 .. MaxCommits]

RTypeOK ==
    /\ SyncTypeOK
    /\ RowsAreLockedOnce
    /\ cache \in Entry \cup {NoEntry}
    /\ read \in [Readers -> {NotReading} \cup Fetching \cup Resolved]

RInit ==
    /\ SyncInit
    /\ cache = NoEntry
    /\ read = [r \in Readers |-> NotReading]

-----------------------------------------------------------------------------
(* Fault: the cache is left to its TTL. *)
AnswerOnly(s) ==
    /\ sync[s].phase = "upserted"
    /\ acked' = IF sync[s].commit > acked THEN sync[s].commit ELSE acked
    /\ sync' = [sync EXCEPT ![s] = NotSyncing]
    /\ UNCHANGED <<now, feed, players, commits, cache, read>>

(* The last step of a sync: the cache is cleared, the caller is answered.  *)
InvalidateRosters(s) ==
    /\ sync[s].phase = "upserted"
    /\ cache' = NoEntry
    /\ acked' = IF sync[s].commit > acked THEN sync[s].commit ELSE acked
    /\ sync' = [sync EXCEPT ![s] = NotSyncing]
    /\ UNCHANGED <<now, feed, players, commits, read>>

ReadInTime(r) == now <= read[r].at + RequestTimeout

(* Fault: an entry is good until a sync clears it. *)
FreshUntilCleared == cache # NoEntry

Fresh == cache # NoEntry /\ now - cache.fetchedAt < RosterTTL

(* A fresh entry is answered as it is, which changes nothing; the lock is  *)
(* not held while fetching.                                                *)
BeginFetch(r) ==
    /\ read[r] = NotReading
    /\ ~Fresh
    /\ read' = [read EXCEPT ![r] = [phase |-> "fetching", at |-> now, begun |-> acked]]
    /\ UNCHANGED <<syncVars, cache>>

(* Sleeper's rosters and users are in: one SELECT looks up their players.  *)
ResolvePlayers(r) ==
    /\ read[r].phase = "fetching"
    /\ ReadInTime(r)
    /\ read' = [read EXCEPT ![r] = [phase |-> "resolved", at |-> @.at, begun |-> @.begun,
                                    seen |-> Len(commits)]]
    /\ UNCHANGED <<syncVars, cache>>

(* The answer replaces whatever is in the cache by now; a league without   *)
(* rosters, a degraded 200, is answered but not kept.                      *)
FillCache(r) ==
    /\ read[r].phase = "resolved"
    /\ ReadInTime(r)
    /\ \/ cache' = [seen |-> read[r].seen, begun |-> read[r].begun, filled |-> acked,
                    fetchedAt |-> now]
       \/ UNCHANGED cache
    /\ read' = [read EXCEPT ![r] = NotReading]
    /\ UNCHANGED syncVars

(* Sleeper, the lookup or the deadline fails the call. *)
FailRead(r) ==
    /\ read[r] # NotReading
    /\ read' = [read EXCEPT ![r] = NotReading]
    /\ UNCHANGED <<syncVars, cache>>

Tick ==
    /\ now < MaxTime
    /\ now' = now + 1
    /\ UNCHANGED <<feed, players, sync, commits, acked, cache, read>>

(* A restart loses the cache and every request, and rolls batches back. *)
Restart ==
    /\ sync' = [s \in Syncs |-> NotSyncing]
    /\ cache' = NoEntry
    /\ read' = [r \in Readers |-> NotReading]
    /\ UNCHANGED <<now, feed, players, commits, acked>>

ReadStep(r) ==
    BeginFetch(r) \/ ResolvePlayers(r) \/ FillCache(r) \/ FailRead(r)

RNext ==
    \/ Tick
    \/ Restart
    \/ FeedChanges /\ UNCHANGED <<cache, read>>
    \/ \E s \in Syncs : (SyncStep(s) /\ UNCHANGED <<cache, read>>) \/ InvalidateRosters(s)
    \/ \E r \in Readers : ReadStep(r)

RSpec == RInit /\ [][RNext]_rVars

(* Time passes, Postgres works on a batch it has been sent and the handler *)
(* goes on after it; whether Sleeper ever answers is nobody's promise.     *)
FairRSpec ==
    /\ RSpec
    /\ WF_rVars(Tick)
    /\ \A s \in Syncs :
          /\ WF_rVars(BatchStep(s) /\ UNCHANGED <<cache, read>>)
          /\ WF_rVars(Expire(s) /\ UNCHANGED <<cache, read>>)
          /\ WF_rVars(InvalidateRosters(s))

-----------------------------------------------------------------------------
(* After a sync has answered, the cache shows its players, except for a    *)
(* fetch that had looked the old ones up and filled the cache after it was *)
(* cleared: nothing filled before the answer is left, and nothing begun    *)
(* after it can have missed the commit (InvalidateRosters after            *)
(* UpsertPlayers, GetRosters).                                             *)
OnlyOvertakenFetchesAreStale ==
    cache # NoEntry /\ cache.seen < acked => cache.begun < acked /\ acked <= cache.filled

(* However the cache came to show old players (a fetch overtaken by a      *)
(* sync, or a commit whose sync failed before it cleared the cache): no    *)
(* answer given from it trails the first commit it misses by more than the *)
(* TTL and a request's deadline (GetRosters).                              *)
AnswersTrailByTTL ==
    Fresh /\ cache.seen < Len(commits)
        => now < commits[cache.seen + 1] + RosterTTL + RequestTimeout

(* What makes the two inductive: the commits a fetch has missed happened   *)
(* while it was on its way, and an entry is never older than the last sync *)
(* to answer.                                                              *)
CommitsArePast == \A i \in DOMAIN commits : commits[i] <= now

AnswersAreCommitted ==
    /\ acked <= Len(commits)
    /\ \A s \in Syncs : sync[s].phase = "upserted" => sync[s].commit <= Len(commits)

FetchesMissLittle ==
    \A r \in Readers :
        /\ read[r] # NotReading => read[r].at <= now /\ read[r].begun <= acked
        /\ read[r].phase = "resolved" =>
              /\ read[r].begun <= read[r].seen /\ read[r].seen <= Len(commits)
              /\ read[r].seen < Len(commits) => read[r].at <= commits[read[r].seen + 1]

EntriesMissLittle ==
    cache # NoEntry =>
        /\ cache.filled = acked /\ cache.fetchedAt <= now
        /\ cache.begun <= cache.seen /\ cache.seen <= Len(commits)
        /\ cache.seen < Len(commits) =>
              cache.fetchedAt <= commits[cache.seen + 1] + RequestTimeout

RIInv ==
    /\ RTypeOK
    /\ PlayersOfOneFeed
    /\ CommitsArePast
    /\ AnswersAreCommitted
    /\ FetchesMissLittle
    /\ EntriesMissLittle
=============================================================================
