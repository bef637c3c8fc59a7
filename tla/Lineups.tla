------------------------------ MODULE Lineups ------------------------------
(***************************************************************************)
(* The lineups table and the three handlers that write it, POST /lineups,  *)
(* PATCH /lineups/{id} and POST /auth/merge, each split where the Go code  *)
(* lets other requests (and the clock) in between: a request reads the     *)
(* database and checks the lock, goes out to Sleeper to validate the       *)
(* starters, and only then writes.                                         *)
(***************************************************************************)
EXTENDS SeasonClock

CONSTANTS
    Accounts,        \* subjects with a row in users
    Anonymous,       \* browser-generated ids without one
    Rosters,         \* (league_id, roster_id) pairs
    SeasonOf,        \* season of the league a roster belongs to
    Sources,         \* non-empty values of `source'
    StarterLists,    \* starter lists a client submits
    Requests,        \* requests the server has in flight at once
    RequestTimeout,  \* timeoutMiddleware's deadline, in ticks
    NoRow,           \* absence of a row
    MaxTime,         \* bound: last instant explored
    MaxInserts       \* bound: insert statements explored

Users == Accounts \cup Anonymous

(* The columns of the unique index lineups_key. *)
Key == [user: Users, roster: Rosters, week: Weeks, source: Sources]

(* A row's uuid: unique to the insert statement and the key it inserted. *)
Id == Nat \X Key

Row == [id: Id, season: Seasons \cup {NoSeason}, starters: StarterLists, updatedAt: Nat]

Table == [Key -> Row \cup {NoRow}]

ASSUME LineupsAssumption ==
    /\ Accounts \cap Anonymous = {}
    /\ SeasonOf \in [Rosters -> Seasons]
    /\ RequestTimeout \in Nat
    /\ NoRow \notin Row
    /\ MaxTime \in Nat
    /\ MaxInserts \in Nat

VARIABLES
    now,      \* the clock the server and the database share
    lineups,  \* the table, by key
    inserts,  \* insert statements committed so far, the source of fresh ids
    req       \* what each request in flight holds in memory

vars == <<now, lineups, inserts, req>>

Idle == [op |-> "idle"]

CreateReq == [op: {"create"}, key: Key, season: Seasons, starters: StarterLists, at: Nat]

UpdateReq == [op: {"update"}, user: Users, id: Id, starters: StarterLists, at: Nat,
              season: Seasons \cup {NoSeason}, week: Weeks]

MergeReq == [op: {"merge"}, user: Users, anon: Anonymous, snapshot: Table, at: Nat]

TypeOK ==
    /\ now \in Nat
    /\ lineups \in Table
    /\ inserts \in Nat
    /\ req \in [Requests -> {Idle} \cup CreateReq \cup UpdateReq \cup MergeReq]

Init ==
    /\ now = 0
    /\ lineups = [k \in Key |-> NoRow]
    /\ inserts = 0
    /\ req = [r \in Requests |-> Idle]

-----------------------------------------------------------------------------
(* Fault: a server without timeoutMiddleware. *)
NoDeadline(r) == req[r].at <= now

(* A request's context is cancelled RequestTimeout after it arrived, and a *)
(* database call made after that fails.                                    *)
InTime(r) == now <= req[r].at + RequestTimeout

Finish(r) == req' = [req EXCEPT ![r] = Idle]

(* Any failure after the request was admitted: Sleeper unreachable, the    *)
(* starters refused, a database error (a duplicate key among them), the    *)
(* row gone, the deadline passed, a crash of the server.  A transaction    *)
(* that was open rolls back.                                               *)
Fail(r) ==
    /\ req[r] # Idle
    /\ Finish(r)
    /\ UNCHANGED <<now, lineups, inserts>>

CreateFor(k, s) ==
    [op |-> "create", key |-> k, starters |-> s, season |-> SeasonOf[k.roster], at |-> now]

(* CREATE: the season comes from the league, the lock is checked, 409 if   *)
(* the week is locked.                                                     *)
BeginCreate(r, k, s) ==
    /\ req[r] = Idle
    /\ ~WeekLocked(SeasonOf[k.roster], k.week, now)
    /\ req' = [req EXCEPT ![r] = CreateFor(k, s)]
    /\ UNCHANGED <<now, lineups, inserts>>

(* The validated lineup is inserted, unless its key is taken. *)
InsertLineup(r) ==
    /\ req[r].op = "create"
    /\ InTime(r)
    /\ lineups[req[r].key] = NoRow
    /\ inserts < MaxInserts
    /\ lineups' = [lineups EXCEPT ![req[r].key] =
                      [id |-> <<inserts, req[r].key>>, season |-> req[r].season,
                       starters |-> req[r].starters, updatedAt |-> now]]
    /\ inserts' = inserts + 1
    /\ Finish(r)
    /\ UNCHANGED now

UpdateFor(u, k, s) ==
    [op |-> "update", user |-> u, id |-> lineups[k].id, starters |-> s, at |-> now,
     season |-> lineups[k].season, week |-> k.week]

(* UPDATE by id: the row is read, its owner and its own season's lock are  *)
(* checked against that copy.                                              *)
BeginUpdate(r, u, k, s) ==
    /\ req[r] = Idle
    /\ lineups[k] # NoRow
    /\ k.user = u
    /\ ~WeekLocked(lineups[k].season, k.week, now)
    /\ req' = [req EXCEPT ![r] = UpdateFor(u, k, s)]
    /\ UNCHANGED <<now, lineups, inserts>>

(* UPDATE lineups SET starters, updated_at WHERE id: whoever else wrote    *)
(* the row since, the last writer wins.                                    *)
UpdateLineup(r, k) ==
    /\ req[r].op = "update"
    /\ InTime(r)
    /\ lineups[k] # NoRow
    /\ lineups[k].id = req[r].id
    /\ lineups' = [lineups EXCEPT ![k] =
                      [@ EXCEPT !.starters = req[r].starters, !.updatedAt = now]]
    /\ Finish(r)
    /\ UNCHANGED <<now, inserts>>

MergeFor(u, a) ==
    [op |-> "merge", user |-> u, anon |-> a, at |-> now,
     snapshot |-> [k \in Key |-> IF k.user = a THEN lineups[k] ELSE NoRow]]

(* MERGE: one statement inserts copies of the anonymous id's rows and      *)
(* deletes the originals.  Both halves see the snapshot the statement      *)
(* starts from.                                                            *)
BeginMerge(r, u, a) ==
    /\ req[r] = Idle
    /\ u # a
    /\ req' = [req EXCEPT ![r] = MergeFor(u, a)]
    /\ UNCHANGED <<now, lineups, inserts>>

(* Fault: the DELETE as a statement of its own, with a later snapshot.     *)
DeletesAllNow(m, k) == k.user = m.anon /\ lineups[k] # NoRow

(* DELETE under READ COMMITTED: the rows of the snapshot that are still    *)
(* there, whatever was written to them since.                              *)
Deleted(m, k) ==
    /\ m.snapshot[k] # NoRow
    /\ lineups[k] # NoRow
    /\ lineups[k].id = m.snapshot[k].id

(* The anonymous row that would become row k of the account. *)
Original(m, k) == m.snapshot[[k EXCEPT !.user = m.anon]]

(* Fault: ON CONFLICT DO UPDATE. *)
OverwritesOwnRow(m, k) == k.user = m.user /\ Original(m, k) # NoRow

(* ON CONFLICT DO NOTHING: a copy whose key is taken is skipped. *)
Inserted(m, k) ==
    /\ k.user = m.user
    /\ Original(m, k) # NoRow
    /\ lineups[k] = NoRow

(* Faults: a season column without its default, and a moved row that keeps *)
(* its id.                                                                 *)
CopyWithNullSeason(k, row) ==
    [id |-> <<inserts, k>>, season |-> NoRow,
     starters |-> row.starters, updatedAt |-> row.updatedAt]
CopyWithSameId(k, row) == [row EXCEPT !.season = NoSeason]

(* The columns the SELECT copies: season is not one of them, so it takes   *)
(* its default, and neither is id.                                         *)
Copy(k, row) ==
    [id |-> <<inserts, k>>, season |-> NoSeason,
     starters |-> row.starters, updatedAt |-> row.updatedAt]

(* The statement and its transaction's commit. *)
MergeLineups(r) ==
    /\ req[r].op = "merge"
    /\ InTime(r)
    /\ inserts < MaxInserts
    /\ lineups' = [k \in Key |-> IF Deleted(req[r], k) THEN NoRow
                                 ELSE IF Inserted(req[r], k)
                                      THEN Copy(k, Original(req[r], k))
                                      ELSE lineups[k]]
    /\ inserts' = inserts + 1
    /\ Finish(r)
    /\ UNCHANGED now

Tick ==
    /\ now < MaxTime
    /\ now' = now + 1
    /\ UNCHANGED <<lineups, inserts, req>>

Next ==
    \/ Tick
    \/ \E r \in Requests :
          \/ \E k \in Key, s \in StarterLists : BeginCreate(r, k, s)
          \/ InsertLineup(r)
          \/ \E u \in Users, k \in Key, s \in StarterLists : BeginUpdate(r, u, k, s)
          \/ \E k \in Key : UpdateLineup(r, k)
          \/ \E u \in Users, a \in Anonymous : BeginMerge(r, u, a)
          \/ MergeLineups(r)
          \/ Fail(r)

Spec == Init /\ [][Next]_vars

-----------------------------------------------------------------------------
Present(k) == lineups[k] # NoRow

SeededLock(season, week) == <<season, week>> \in Seeded

(* A write can land after the kickoff, because the lock is checked before  *)
(* Sleeper is asked to validate the starters, but not by more than the     *)
(* request timeout: no row whose season and week have a lock was last      *)
(* written RequestTimeout or more after it (HandleCreateLineup,            *)
(* HandleUpdateLineup, timeoutMiddleware; a merge copies updated_at).      *)
LateWritesBounded ==
    \A k \in Key :
        Present(k) /\ SeededLock(lineups[k].season, k.week)
        => lineups[k].updatedAt < LocksAt[<<lineups[k].season, k.week>>] + RequestTimeout

(* HandleUpdateLineup checks the owner and the lock of a copy of the row   *)
(* and then writes by id.  Whatever was merged or re-created in between,   *)
(* the row that id denotes still belongs to the owner that was checked and *)
(* still carries the season and week whose lock was checked.               *)
ChecksStillHold ==
    \A r \in Requests : req[r].op = "update" =>
        \A k \in Key : Present(k) /\ lineups[k].id = req[r].id =>
            /\ k.user = req[r].user
            /\ k.week = req[r].week
            /\ lineups[k].season = req[r].season

(* What makes these properties inductive.  A write in flight was admitted  *)
(* while its week was open, and the ids in use were issued by earlier      *)
(* inserts to the key they stand for, so that an id a PATCH holds is never *)
(* given to another row.                                                   *)
AdmittedUnlocked ==
    \A r \in Requests :
        /\ req[r].op = "create" =>
              /\ req[r].at <= now
              /\ ~WeekLocked(req[r].season, req[r].key.week, req[r].at)
        /\ req[r].op = "update" =>
              /\ req[r].at <= now
              /\ ~WeekLocked(req[r].season, req[r].week, req[r].at)

IdsIssued ==
    /\ \A k \in Key : Present(k) => lineups[k].id[1] < inserts /\ lineups[k].id[2] = k
    /\ \A r \in Requests : req[r].op = "update" => req[r].id[1] < inserts

(* A merge in flight copies rows of its anonymous id alone, to another id. *)
SnapshotsOfOthers ==
    \A r \in Requests : req[r].op = "merge" =>
        /\ req[r].user # req[r].anon
        /\ \A k \in Key : req[r].snapshot[k] # NoRow => k.user = req[r].anon

IInv ==
    /\ TypeOK
    /\ AdmittedUnlocked
    /\ SnapshotsOfOthers
    /\ IdsIssued
    /\ ChecksStillHold
    /\ LateWritesBounded

(* No step empties a lineup's place: a row disappears only when a merge    *)
(* hands its place to another user, who then has a lineup for the same     *)
(* roster, week and source (MergeAnonymousData: every row it deletes was   *)
(* copied or met a row of the account's own).                              *)
PicksNeverVanish ==
    [][\A k \in Key : Present(k) /\ ~Present(k)' =>
          /\ k.user \in Anonymous
          /\ \E u \in Users : Present([k EXCEPT !.user = u])']_vars

(* The starters of a row that stays change only to those of a PATCH its    *)
(* own user has in flight: neither a merge into the account nor a PATCH    *)
(* admitted while the row belonged to someone else rewrites a pick.        *)
OnlyOwnerEdits ==
    [][\A k \in Key :
          Present(k) /\ Present(k)' /\ lineups'[k].starters # lineups[k].starters =>
          \E r \in Requests : /\ req[r].op = "update"
                              /\ req[r].user = k.user
                              /\ req[r].starters = lineups'[k].starters
                              /\ req'[r] = Idle]_vars

-----------------------------------------------------------------------------
(* Promises of the documentation that the code does not keep. *)

(* "Lineup writes are rejected once now() >= locks_at"                     *)
(* (000001_init.up.sql:30).                                                *)
NoWriteAfterLock ==
    \A k \in Key :
        Present(k) => ~WeekLocked(lineups[k].season, k.week, lineups[k].updatedAt)

(* "season - derived from the league at create time (immutable per         *)
(* league_id)" (api.md:472).                                               *)
SeasonDerived == \A k \in Key : Present(k) => lineups[k].season = SeasonOf[k.roster]
=============================================================================
