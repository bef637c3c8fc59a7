--------------------------- MODULE LineupsProofs ---------------------------
(* Theorems about Lineups for every value of its constants. *)
EXTENDS Lineups, TLAPS

(* Every request in flight is of one of the four kinds; each kind has its  *)
(* own `op' and the fields that go with it.                                *)
LEMMA RequestKinds ==
    ASSUME TypeOK, NEW r \in Requests
    PROVE  /\ req[r].op = "create" => req[r] \in CreateReq
           /\ req[r].op = "update" => req[r] \in UpdateReq
           /\ req[r].op = "merge" => req[r] \in MergeReq
           /\ req[r] = Idle => req[r].op = "idle"
  BY DEF TypeOK, Idle, CreateReq, UpdateReq, MergeReq

(* A copy a merge inserts is a well-formed row. *)
LEMMA CopyType ==
    ASSUME TypeOK, NEW k \in Key, NEW row \in Row
    PROVE  Copy(k, row) \in Row
  BY DEF TypeOK, Copy, Row, Id

(* The row a merge copies comes from a well-typed snapshot. *)
LEMMA OriginalType ==
    ASSUME TypeOK, NEW m \in MergeReq, NEW k \in Key, Inserted(m, k)
    PROVE  Original(m, k) \in Row
  <1>1. [k EXCEPT !.user = m.anon] \in Key
    BY DEF MergeReq, Key, Users
  <1>2. m.snapshot \in Table
    BY DEF MergeReq
  <1>3. QED
    BY <1>1, <1>2 DEF Inserted, Original, Table

(* Init and every step keep the variables in their types. *)
LEMMA InitType == Init => TypeOK
  BY DEF Init, TypeOK, Table

LEMMA NextType == TypeOK /\ [Next]_vars => TypeOK'
  <1> SUFFICES ASSUME TypeOK, [Next]_vars PROVE TypeOK'
    OBVIOUS
  <1>1. CASE Tick
    BY <1>1 DEF Tick, TypeOK
  <1>2. ASSUME NEW r \in Requests, NEW k \in Key, NEW s \in StarterLists, BeginCreate(r, k, s)
        PROVE  TypeOK'
    <2>1. SeasonOf[k.roster] \in Seasons
      BY LineupsAssumption DEF Key
    <2>2. CreateFor(k, s) \in CreateReq
      BY <2>1 DEF CreateFor, CreateReq, TypeOK
    <2>3. QED
      BY <1>2, <2>2 DEF BeginCreate, TypeOK
  <1>3. ASSUME NEW r \in Requests, InsertLineup(r)
        PROVE  TypeOK'
    <2>1. req[r] \in CreateReq
      BY <1>3, RequestKinds DEF InsertLineup
    <2>2. [id |-> <<inserts, req[r].key>>, season |-> req[r].season,
           starters |-> req[r].starters, updatedAt |-> now] \in Row
      BY <2>1 DEF CreateReq, Row, Id, TypeOK
    <2>3. lineups' \in Table
      BY <1>3, <2>2 DEF InsertLineup, TypeOK, Table
    <2>4. QED
      BY <1>3, <2>3 DEF InsertLineup, Finish, TypeOK
  <1>4. ASSUME NEW r \in Requests, NEW u \in Users, NEW k \in Key, NEW s \in StarterLists,
               BeginUpdate(r, u, k, s)
        PROVE  TypeOK'
    <2>1. lineups[k] \in Row
      BY <1>4 DEF BeginUpdate, TypeOK, Table
    <2>2. k.week \in Weeks
      BY DEF Key
    <2>3. UpdateFor(u, k, s) \in UpdateReq
      BY <2>1, <2>2 DEF UpdateFor, UpdateReq, Row, TypeOK
    <2>4. QED
      BY <1>4, <2>3 DEF BeginUpdate, TypeOK
  <1>5. ASSUME NEW r \in Requests, NEW k \in Key, UpdateLineup(r, k)
        PROVE  TypeOK'
    <2>1. req[r] \in UpdateReq
      BY <1>5, RequestKinds DEF UpdateLineup
    <2>2. lineups[k] \in Row
      BY <1>5 DEF UpdateLineup, TypeOK, Table
    <2>3. [lineups[k] EXCEPT !.starters = req[r].starters, !.updatedAt = now] \in Row
      BY <2>1, <2>2 DEF Row, UpdateReq, TypeOK
    <2>4. lineups' = [lineups EXCEPT ![k] =
                        [lineups[k] EXCEPT !.starters = req[r].starters, !.updatedAt = now]]
      BY <1>5, <2>2 DEF UpdateLineup, TypeOK, Table, Row
    <2>5. lineups' \in Table
      BY <2>3, <2>4 DEF TypeOK, Table
    <2>6. QED
      BY <1>5, <2>5 DEF UpdateLineup, Finish, TypeOK
  <1>6. ASSUME NEW r \in Requests, NEW u \in Users, NEW a \in Anonymous, BeginMerge(r, u, a)
        PROVE  TypeOK'
    <2>1. [k \in Key |-> IF k.user = a THEN lineups[k] ELSE NoRow] \in Table
      BY DEF TypeOK, Table
    <2>2. MergeFor(u, a) \in MergeReq
      BY <2>1 DEF MergeFor, MergeReq, TypeOK
    <2>3. QED
      BY <1>6, <2>2 DEF BeginMerge, TypeOK
  <1>7. ASSUME NEW r \in Requests, MergeLineups(r)
        PROVE  TypeOK'
    <2>1. req[r] \in MergeReq
      BY <1>7, RequestKinds DEF MergeLineups
    <2>2. ASSUME NEW k \in Key, Inserted(req[r], k)
          PROVE  Copy(k, Original(req[r], k)) \in Row
      BY <2>1, <2>2, OriginalType, CopyType
    <2>3. lineups' \in Table
      BY <1>7, <2>2 DEF MergeLineups, TypeOK, Table
    <2>4. QED
      BY <1>7, <2>3 DEF MergeLineups, Finish, TypeOK
  <1>8. ASSUME NEW r \in Requests, Fail(r)
        PROVE  TypeOK'
    BY <1>8 DEF Fail, Finish, TypeOK
  <1>9. CASE UNCHANGED vars
    BY <1>9 DEF vars, TypeOK
  <1>10. QED
    BY <1>1, <1>2, <1>3, <1>4, <1>5, <1>6, <1>7, <1>8, <1>9 DEF Next

(* The table, the clock and the requests in flight always have their       *)
(* types, whatever the constants.                                          *)
THEOREM TypeCorrect == Spec => []TypeOK
  <1>1. QED
    BY InitType, NextType, PTL DEF Spec

-----------------------------------------------------------------------------
(* The three steps that change the table, as what they do to one key; any  *)
(* other step leaves the table and the ids issued alone.                   *)
LEMMA TableStep ==
    ASSUME TypeOK, [Next]_vars
    PROVE  \/ /\ UNCHANGED <<lineups, inserts>>
           \/ \E r \in Requests :
                 \/ InsertLineup(r)
                 \/ MergeLineups(r)
                 \/ \E k \in Key : UpdateLineup(r, k)
  BY DEF Next, vars, Tick, BeginCreate, BeginUpdate, BeginMerge, Fail

(* Time never goes back. *)
LEMMA ClockStep ==
    ASSUME TypeOK, [Next]_vars
    PROVE  now \in Nat /\ now' \in Nat /\ now <= now'
  <1>1. now' = now \/ now' = now + 1
    BY DEF Next, vars, Tick, BeginCreate, InsertLineup, BeginUpdate, UpdateLineup,
           BeginMerge, MergeLineups, Fail
  <1>2. QED
    BY <1>1 DEF TypeOK

(* Each request slot keeps its request, empties, or admits a new one.      *)
LEMMA RequestStep ==
    ASSUME TypeOK, [Next]_vars, NEW q \in Requests
    PROVE  \/ req'[q] = req[q]
           \/ req'[q] = Idle
           \/ \E k \in Key, s \in StarterLists :
                 BeginCreate(q, k, s) /\ req'[q] = CreateFor(k, s)
           \/ \E u \in Users, k \in Key, s \in StarterLists :
                 BeginUpdate(q, u, k, s) /\ req'[q] = UpdateFor(u, k, s)
           \/ \E u \in Users, a \in Anonymous :
                 BeginMerge(q, u, a) /\ req'[q] = MergeFor(u, a)
  <1>1. req \in [Requests -> {Idle} \cup CreateReq \cup UpdateReq \cup MergeReq]
    BY DEF TypeOK
  <1>2. CASE Tick \/ UNCHANGED vars
    BY <1>2 DEF Tick, vars
  <1>3. ASSUME NEW r \in Requests, NEW k \in Key, NEW s \in StarterLists, BeginCreate(r, k, s)
        PROVE  req'[q] = req[q] \/ (BeginCreate(q, k, s) /\ req'[q] = CreateFor(k, s))
    BY <1>1, <1>3 DEF BeginCreate
  <1>4. ASSUME NEW r \in Requests, NEW u \in Users, NEW k \in Key, NEW s \in StarterLists,
               BeginUpdate(r, u, k, s)
        PROVE  req'[q] = req[q] \/ (BeginUpdate(q, u, k, s) /\ req'[q] = UpdateFor(u, k, s))
    BY <1>1, <1>4 DEF BeginUpdate
  <1>5. ASSUME NEW r \in Requests, NEW u \in Users, NEW a \in Anonymous, BeginMerge(r, u, a)
        PROVE  req'[q] = req[q] \/ (BeginMerge(q, u, a) /\ req'[q] = MergeFor(u, a))
    BY <1>1, <1>5 DEF BeginMerge
  <1>6. ASSUME NEW r \in Requests,
               Fail(r) \/ InsertLineup(r) \/ MergeLineups(r) \/ \E k \in Key : UpdateLineup(r, k)
        PROVE  req'[q] = req[q] \/ req'[q] = Idle
    BY <1>1, <1>6 DEF Fail, InsertLineup, MergeLineups, UpdateLineup, Finish
  <1>7. QED
    BY <1>2, <1>3, <1>4, <1>5, <1>6 DEF Next

(* What a step can make of the row at a key: nothing, a new row with a     *)
(* fresh id and either a season whose lock was checked in time or none,    *)
(* the old row with the starters of a PATCH that holds its id, or no row.  *)
LEMMA RowStep ==
    ASSUME TypeOK, [Next]_vars, NEW k \in Key, Present(k)'
    PROVE  \/ lineups'[k] = lineups[k]
           \/ /\ lineups'[k].id = <<inserts, k>>
              /\ inserts' = inserts + 1
              /\ \/ lineups'[k].season = NoSeason
                 \/ \E r \in Requests : /\ req[r].op = "create"
                                       /\ InTime(r)
                                       /\ req[r].key = k
                                       /\ lineups'[k].season = req[r].season
                                       /\ lineups'[k].updatedAt = now
           \/ /\ Present(k)
              /\ inserts' = inserts
              /\ \E r \in Requests : /\ req[r].op = "update"
                                    /\ InTime(r)
                                    /\ lineups[k].id = req[r].id
                                    /\ lineups'[k] = [lineups[k] EXCEPT
                                          !.starters = req[r].starters, !.updatedAt = now]
                                    /\ req'[r] = Idle
  <1>1. CASE UNCHANGED <<lineups, inserts>>
    BY <1>1
  <1>2. ASSUME NEW r \in Requests, InsertLineup(r)
        PROVE  \/ lineups'[k] = lineups[k]
               \/ /\ lineups'[k].id = <<inserts, k>>
                  /\ inserts' = inserts + 1
                  /\ req[r].op = "create"
                  /\ InTime(r)
                  /\ req[r].key = k
                  /\ lineups'[k].season = req[r].season
                  /\ lineups'[k].updatedAt = now
    BY <1>2 DEF InsertLineup, TypeOK, Table
  <1>3. ASSUME NEW r \in Requests, MergeLineups(r)
        PROVE  \/ lineups'[k] = lineups[k]
               \/ /\ lineups'[k].id = <<inserts, k>>
                  /\ inserts' = inserts + 1
                  /\ lineups'[k].season = NoSeason
    <2>1. CASE Deleted(req[r], k)
      BY <1>3, <2>1 DEF MergeLineups, Present
    <2>2. CASE ~Deleted(req[r], k) /\ Inserted(req[r], k)
      BY <1>3, <2>2 DEF MergeLineups, Copy
    <2>3. CASE ~Deleted(req[r], k) /\ ~Inserted(req[r], k)
      BY <1>3, <2>3 DEF MergeLineups
    <2>4. QED
      BY <2>1, <2>2, <2>3
  <1>4. ASSUME NEW r \in Requests, NEW j \in Key, UpdateLineup(r, j)
        PROVE  \/ lineups'[k] = lineups[k]
               \/ /\ Present(k)
                  /\ inserts' = inserts
                  /\ req[r].op = "update"
                  /\ InTime(r)
                  /\ lineups[k].id = req[r].id
                  /\ lineups'[k] = [lineups[k] EXCEPT
                        !.starters = req[r].starters, !.updatedAt = now]
                  /\ req'[r] = Idle
    <2>1. CASE j = k
      BY <1>4, <2>1 DEF UpdateLineup, Present, Finish, TypeOK, Table
    <2>2. CASE j # k
      BY <1>4, <2>2 DEF UpdateLineup, TypeOK, Table
    <2>3. QED
      BY <2>1, <2>2
  <1>5. QED
    BY <1>1, <1>2, <1>3, <1>4, TableStep

(* Ids are issued upwards. *)
LEMMA InsertsStep ==
    ASSUME TypeOK, [Next]_vars
    PROVE  inserts \in Nat /\ inserts' \in Nat /\ inserts <= inserts'
  <1>1. inserts' = inserts \/ inserts' = inserts + 1
    BY TableStep DEF InsertLineup, MergeLineups, UpdateLineup
  <1>2. QED
    BY <1>1 DEF TypeOK

-----------------------------------------------------------------------------
(* The induction step, conjunct by conjunct. *)
LEMMA AdmittedStep == IInv /\ [Next]_vars => AdmittedUnlocked'
  <1> SUFFICES ASSUME IInv, [Next]_vars, NEW q \in Requests
               PROVE  /\ req'[q].op = "create" =>
                            /\ req'[q].at <= now'
                            /\ ~WeekLocked(req'[q].season, req'[q].key.week, req'[q].at)
                      /\ req'[q].op = "update" =>
                            /\ req'[q].at <= now'
                            /\ ~WeekLocked(req'[q].season, req'[q].week, req'[q].at)
    BY DEF AdmittedUnlocked, WeekLocked, Seeded
  <1>1. TypeOK /\ AdmittedUnlocked
    BY DEF IInv
  <1>2. now \in Nat /\ now' \in Nat /\ now <= now'
    BY <1>1, ClockStep
  <1>3. CASE req'[q] = req[q]
    <2>1. /\ req[q].op = "create" => req[q].at \in Nat
          /\ req[q].op = "update" => req[q].at \in Nat
      BY <1>1, RequestKinds DEF CreateReq, UpdateReq
    <2>2. QED
      BY <1>1, <1>2, <1>3, <2>1 DEF AdmittedUnlocked
  <1>4. CASE req'[q] = Idle
    BY <1>4 DEF Idle
  <1>5. ASSUME NEW k \in Key, NEW s \in StarterLists, BeginCreate(q, k, s),
               req'[q] = CreateFor(k, s)
        PROVE  /\ req'[q].op = "create" /\ req'[q].at <= now'
               /\ ~WeekLocked(req'[q].season, req'[q].key.week, req'[q].at)
    BY <1>2, <1>5 DEF BeginCreate, CreateFor
  <1>6. ASSUME NEW u \in Users, NEW k \in Key, NEW s \in StarterLists,
               BeginUpdate(q, u, k, s), req'[q] = UpdateFor(u, k, s)
        PROVE  /\ req'[q].op = "update" /\ req'[q].at <= now'
               /\ ~WeekLocked(req'[q].season, req'[q].week, req'[q].at)
    BY <1>2, <1>6 DEF BeginUpdate, UpdateFor
  <1>7. ASSUME NEW u \in Users, NEW a \in Anonymous, req'[q] = MergeFor(u, a)
        PROVE  req'[q].op = "merge"
    BY <1>7 DEF MergeFor
  <1>8. QED
    BY <1>1, <1>3, <1>4, <1>5, <1>6, <1>7, RequestStep

LEMMA SnapshotsStep == IInv /\ [Next]_vars => SnapshotsOfOthers'
  <1> SUFFICES ASSUME IInv, [Next]_vars, NEW q \in Requests, req'[q].op = "merge"
               PROVE  /\ req'[q].user # req'[q].anon
                      /\ \A k \in Key : req'[q].snapshot[k] # NoRow => k.user = req'[q].anon
    BY DEF SnapshotsOfOthers
  <1>1. TypeOK /\ SnapshotsOfOthers
    BY DEF IInv
  <1>2. CASE req'[q] = req[q]
    BY <1>1, <1>2 DEF SnapshotsOfOthers
  <1>3. ASSUME NEW u \in Users, NEW a \in Anonymous,
               BeginMerge(q, u, a), req'[q] = MergeFor(u, a)
        PROVE  /\ req'[q].user # req'[q].anon
               /\ \A k \in Key : req'[q].snapshot[k] # NoRow => k.user = req'[q].anon
    BY <1>3 DEF BeginMerge, MergeFor
  <1>4. /\ req'[q] # Idle
        /\ \A k \in Key, s \in StarterLists : req'[q] # CreateFor(k, s)
        /\ \A u \in Users, k \in Key, s \in StarterLists : req'[q] # UpdateFor(u, k, s)
    BY DEF Idle, CreateFor, UpdateFor
  <1>5. QED
    BY <1>1, <1>2, <1>3, <1>4, RequestStep

LEMMA IdsStep == IInv /\ [Next]_vars => IdsIssued'
  <1> SUFFICES ASSUME IInv, [Next]_vars PROVE IdsIssued'
    OBVIOUS
  <1>1. TypeOK /\ IdsIssued
    BY DEF IInv
  <1>2. inserts \in Nat /\ inserts' \in Nat /\ inserts <= inserts'
    BY <1>1, InsertsStep
  <1>3. ASSUME NEW k \in Key, Present(k)'
        PROVE  lineups'[k].id[1] < inserts' /\ lineups'[k].id[2] = k
    <2>1. CASE lineups'[k] = lineups[k]
      <3>1. Present(k) /\ lineups[k] \in Row
        BY <1>1, <1>3, <2>1 DEF Present, TypeOK, Table
      <3>2. lineups[k].id[1] \in Nat
        BY <3>1 DEF Row, Id
      <3>3. QED
        BY <1>1, <1>2, <2>1, <3>1, <3>2 DEF IdsIssued
    <2>2. CASE lineups'[k].id = <<inserts, k>> /\ inserts' = inserts + 1
      BY <1>2, <2>2
    <2>3. ASSUME NEW r \in Requests, Present(k), inserts' = inserts,
                 lineups'[k] = [lineups[k] EXCEPT !.starters = req[r].starters,
                                                  !.updatedAt = now]
          PROVE  lineups'[k].id[1] < inserts' /\ lineups'[k].id[2] = k
      <3>1. lineups[k] \in Row
        BY <1>1, <2>3 DEF Present, TypeOK, Table
      <3>2. lineups'[k].id = lineups[k].id
        BY <2>3, <3>1 DEF Row
      <3>3. QED
        BY <1>1, <2>3, <3>2 DEF IdsIssued
    <2>4. QED
      BY <1>1, <1>3, <2>1, <2>2, <2>3, RowStep
  <1>4. ASSUME NEW q \in Requests, req'[q].op = "update"
        PROVE  req'[q].id[1] < inserts'
    <2>1. CASE req'[q] = req[q]
      <3>1. req[q].id[1] \in Nat
        BY <1>1, <1>4, <2>1, RequestKinds DEF UpdateReq, Id
      <3>2. QED
        BY <1>1, <1>2, <1>4, <2>1, <3>1 DEF IdsIssued
    <2>2. ASSUME NEW u \in Users, NEW k \in Key, NEW s \in StarterLists,
                 BeginUpdate(q, u, k, s), req'[q] = UpdateFor(u, k, s)
          PROVE  req'[q].id[1] < inserts'
      <3>1. Present(k) /\ inserts' = inserts
        BY <2>2 DEF BeginUpdate, Present
      <3>2. QED
        BY <1>1, <2>2, <3>1 DEF IdsIssued, UpdateFor
    <2>3. /\ req'[q] # Idle
          /\ \A k \in Key, s \in StarterLists : req'[q] # CreateFor(k, s)
          /\ \A u \in Users, a \in Anonymous : req'[q] # MergeFor(u, a)
      BY <1>4 DEF Idle, CreateFor, MergeFor
    <2>4. QED
      BY <1>1, <2>1, <2>2, <2>3, RequestStep
  <1>5. QED
    BY <1>3, <1>4 DEF IdsIssued, Present

LEMMA ChecksStep == IInv /\ [Next]_vars => ChecksStillHold'
  <1> SUFFICES ASSUME IInv, [Next]_vars,
                      NEW q \in Requests, req'[q].op = "update",
                      NEW k \in Key, Present(k)', lineups'[k].id = req'[q].id
               PROVE  /\ k.user = req'[q].user
                      /\ k.week = req'[q].week
                      /\ lineups'[k].season = req'[q].season
    BY DEF ChecksStillHold, Present
  <1>1. TypeOK /\ IdsIssued /\ ChecksStillHold
    BY DEF IInv
  <1>2. IdsIssued'
    BY IdsStep
  <1>3. lineups'[k].id[2] = k
    BY <1>2 DEF IdsIssued
  <1>4. ASSUME req'[q] = req[q]
        PROVE  Present(k) /\ lineups[k].id = req[q].id /\ lineups'[k].season = lineups[k].season
    <2>1. inserts \in Nat /\ req[q].id[1] < inserts
      BY <1>1, <1>4 DEF TypeOK, IdsIssued
    <2>2. CASE lineups'[k] = lineups[k]
      BY <1>4, <2>2 DEF Present
    <2>3. CASE lineups'[k].id = <<inserts, k>>
      BY <1>4, <2>1, <2>3
    <2>4. ASSUME NEW r \in Requests, Present(k),
                 lineups'[k] = [lineups[k] EXCEPT !.starters = req[r].starters,
                                                  !.updatedAt = now]
          PROVE  lineups[k].id = req[q].id /\ lineups'[k].season = lineups[k].season
      <3>1. lineups[k] \in Row
        BY <1>1, <2>4 DEF Present, TypeOK, Table
      <3>2. QED
        BY <1>4, <2>4, <3>1 DEF Row
    <2>5. QED
      BY <1>1, <2>2, <2>3, <2>4, RowStep
  <1>5. CASE req'[q] = req[q]
    BY <1>1, <1>4, <1>5 DEF ChecksStillHold
  <1>6. ASSUME NEW u \in Users, NEW j \in Key, NEW s \in StarterLists,
               BeginUpdate(q, u, j, s), req'[q] = UpdateFor(u, j, s)
        PROVE  /\ k.user = req'[q].user
               /\ k.week = req'[q].week
               /\ lineups'[k].season = req'[q].season
    <2>1. lineups' = lineups /\ Present(j)
      BY <1>6 DEF BeginUpdate, Present
    <2>2. lineups[j].id[2] = j /\ lineups[k].id = lineups[j].id
      BY <1>1, <1>6, <2>1 DEF IdsIssued, UpdateFor
    <2>3. j = k
      BY <1>3, <2>1, <2>2
    <2>4. QED
      BY <1>6, <2>1, <2>3 DEF BeginUpdate, UpdateFor
  <1>7. /\ req'[q] # Idle
        /\ \A j \in Key, s \in StarterLists : req'[q] # CreateFor(j, s)
        /\ \A u \in Users, a \in Anonymous : req'[q] # MergeFor(u, a)
    BY DEF Idle, CreateFor, MergeFor
  <1>8. QED
    BY <1>1, <1>5, <1>6, <1>7, RequestStep

(* A write made in time, by a request admitted before the lock, lands less *)
(* than RequestTimeout after the lock.                                     *)
LEMMA LateBy ==
    ASSUME NEW r \in Requests, NEW season, NEW week,
           SeededLock(season, week), req[r].at \in Nat, now \in Nat,
           ~WeekLocked(season, week, req[r].at), InTime(r)
    PROVE  now < LocksAt[<<season, week>>] + RequestTimeout
  <1>1. LocksAt[<<season, week>>] \in Nat
    BY ClockAssumption DEF SeededLock
  <1>2. req[r].at < LocksAt[<<season, week>>]
    BY <1>1 DEF SeededLock, WeekLocked
  <1>3. QED
    BY <1>1, <1>2, LineupsAssumption DEF InTime

LEMMA LateWritesStep == IInv /\ [Next]_vars => LateWritesBounded'
  <1> SUFFICES ASSUME IInv, [Next]_vars,
                      NEW k \in Key, Present(k)', SeededLock(lineups'[k].season, k.week)
               PROVE  lineups'[k].updatedAt <
                         LocksAt[<<lineups'[k].season, k.week>>] + RequestTimeout
    BY DEF LateWritesBounded, Present, SeededLock, Seeded
  <1>1. TypeOK /\ AdmittedUnlocked /\ ChecksStillHold /\ LateWritesBounded
    BY DEF IInv
  <1>2. CASE lineups'[k] = lineups[k]
    BY <1>1, <1>2 DEF LateWritesBounded, Present
  <1>3. lineups'[k].season # NoSeason
    BY ClockAssumption DEF SeededLock
  <1>4. ASSUME NEW r \in Requests, req[r].op = "create", InTime(r), req[r].key = k,
               lineups'[k].season = req[r].season, lineups'[k].updatedAt = now
        PROVE  lineups'[k].updatedAt <
                  LocksAt[<<lineups'[k].season, k.week>>] + RequestTimeout
    <2>1. req[r].at \in Nat /\ now \in Nat
      BY <1>1, <1>4, RequestKinds DEF CreateReq, TypeOK
    <2>2. ~WeekLocked(lineups'[k].season, k.week, req[r].at)
      BY <1>1, <1>4 DEF AdmittedUnlocked
    <2>3. QED
      BY <1>4, <2>1, <2>2, LateBy
  <1>5. ASSUME NEW r \in Requests, Present(k), req[r].op = "update", InTime(r),
               lineups[k].id = req[r].id,
               lineups'[k] = [lineups[k] EXCEPT !.starters = req[r].starters,
                                                !.updatedAt = now]
        PROVE  lineups'[k].updatedAt <
                  LocksAt[<<lineups'[k].season, k.week>>] + RequestTimeout
    <2>1. lineups[k] \in Row
      BY <1>1, <1>5 DEF Present, TypeOK, Table
    <2>2. lineups'[k].updatedAt = now /\ lineups'[k].season = lineups[k].season
      BY <1>5, <2>1 DEF Row
    <2>3. k.week = req[r].week /\ lineups[k].season = req[r].season
      BY <1>1, <1>5 DEF ChecksStillHold
    <2>4. req[r].at \in Nat /\ now \in Nat
      BY <1>1, <1>5, RequestKinds DEF UpdateReq, TypeOK
    <2>5. ~WeekLocked(lineups'[k].season, k.week, req[r].at)
      BY <1>1, <1>5, <2>2, <2>3 DEF AdmittedUnlocked
    <2>6. QED
      BY <1>5, <2>2, <2>4, <2>5, LateBy
  <1>6. QED
    BY <1>1, <1>2, <1>3, <1>4, <1>5, RowStep

-----------------------------------------------------------------------------
(* A row that is there and stays is as it was, or a PATCH that holds its id *)
(* has rewritten it.                                                        *)
LEMMA RowRewritten ==
    ASSUME IInv, [Next]_vars, NEW k \in Key,
           Present(k), Present(k)', lineups'[k] # lineups[k]
    PROVE  \E r \in Requests : /\ req[r].op = "update"
                               /\ InTime(r)
                               /\ lineups[k].id = req[r].id
                               /\ lineups'[k] = [lineups[k] EXCEPT
                                     !.starters = req[r].starters, !.updatedAt = now]
                               /\ req'[r] = Idle
  <1>1. TypeOK
    BY DEF IInv
  <1>2. ASSUME NEW r \in Requests, InsertLineup(r)
        PROVE  FALSE
    BY <1>1, <1>2 DEF InsertLineup, Present, TypeOK, Table
  <1>3. ASSUME NEW r \in Requests, MergeLineups(r)
        PROVE  FALSE
    BY <1>3 DEF MergeLineups, Inserted, Present
  <1>4. ASSUME NEW r \in Requests, NEW j \in Key, UpdateLineup(r, j)
        PROVE  inserts' # inserts + 1
    BY <1>1, <1>4 DEF UpdateLineup, TypeOK
  <1>5. inserts' # inserts + 1
    BY <1>1, <1>2, <1>3, <1>4, TableStep
  <1>6. QED
    BY <1>1, <1>5, RowStep

(* A row goes only by a merge that fills the same place of another user.   *)
LEMMA RowsAreKept ==
    ASSUME IInv, [Next]_vars, NEW k \in Key, Present(k), ~Present(k)'
    PROVE  /\ k.user \in Anonymous
           /\ \E u \in Users : Present([k EXCEPT !.user = u])'
  <1>1. TypeOK /\ TypeOK' /\ SnapshotsOfOthers
    BY NextType DEF IInv
  <1>2. ASSUME NEW r \in Requests, InsertLineup(r)
        PROVE  lineups'[k] = lineups[k]
    BY <1>1, <1>2 DEF InsertLineup, Present, TypeOK, Table
  <1>3. ASSUME NEW r \in Requests, NEW j \in Key, UpdateLineup(r, j)
        PROVE  lineups'[k] = lineups[k]
    <2>1. CASE j = k
      <3>1. lineups[k] \in Row /\ req[r] \in UpdateReq
        BY <1>1, <1>3, RequestKinds DEF Present, TypeOK, Table, UpdateLineup
      <3>2. lineups'[k] = [lineups[k] EXCEPT !.starters = req[r].starters,
                                             !.updatedAt = now]
        BY <1>1, <1>3, <2>1 DEF UpdateLineup, TypeOK, Table
      <3>3. lineups'[k] \in Row
        BY <1>1, <3>1, <3>2 DEF Row, UpdateReq, TypeOK
      <3>4. QED
        BY <3>3, LineupsAssumption DEF Present
    <2>2. CASE j # k
      BY <1>1, <1>3, <2>2 DEF UpdateLineup, TypeOK, Table
    <2>3. QED
      BY <2>1, <2>2
  <1>4. ASSUME NEW r \in Requests, MergeLineups(r)
        PROVE  /\ k.user \in Anonymous
               /\ \E u \in Users : Present([k EXCEPT !.user = u])'
    <2> DEFINE m == req[r]
               there == [k EXCEPT !.user = m.user]
    <2>1. m \in MergeReq
      BY <1>1, <1>4, RequestKinds DEF MergeLineups
    <2>2. Deleted(m, k)
      <3>1. CASE ~Deleted(m, k) /\ Inserted(m, k)
        BY <3>1 DEF Inserted, Present
      <3>2. CASE ~Deleted(m, k) /\ ~Inserted(m, k)
        BY <1>4, <3>2 DEF MergeLineups, Present
      <3>3. QED
        BY <3>1, <3>2
    <2>3. k.user = m.anon /\ m.user # m.anon
      BY <1>1, <1>4, <2>2 DEF Deleted, SnapshotsOfOthers, MergeLineups
    <2>4. there \in Key /\ m.user \in Users /\ there.user = m.user
      BY <2>1 DEF MergeReq, Key
    <2>5. ~Deleted(m, there)
      BY <1>1, <1>4, <2>3, <2>4 DEF Deleted, SnapshotsOfOthers, MergeLineups
    <2>6. Original(m, there) = m.snapshot[k]
      <3>1. [there EXCEPT !.user = m.anon] = k
        BY <2>3 DEF Key
      <3>2. QED
        BY <3>1 DEF Original
    <2>7. lineups'[there] # NoRow
      <3>1. CASE lineups[there] # NoRow
        BY <1>4, <2>4, <2>5, <3>1 DEF MergeLineups, Inserted
      <3>2. CASE lineups[there] = NoRow
        <4>1. Inserted(m, there)
          BY <2>2, <2>4, <2>6, <3>2 DEF Deleted, Inserted
        <4>2. lineups'[there] = Copy(there, Original(m, there))
          BY <1>4, <2>4, <2>5, <4>1 DEF MergeLineups
        <4>3. lineups'[there] \in Row
          BY <1>1, <2>1, <2>4, <4>1, <4>2, OriginalType, CopyType
        <4>4. QED
          BY <4>3, LineupsAssumption
      <3>3. QED
        BY <3>1, <3>2
    <2>8. QED
      BY <2>1, <2>3, <2>4, <2>7 DEF MergeReq, Present
  <1>5. QED
    BY <1>1, <1>2, <1>3, <1>4, TableStep DEF Present

-----------------------------------------------------------------------------
LEMMA InitInv == Init => IInv
  <1> SUFFICES ASSUME Init PROVE IInv
    OBVIOUS
  <1>1. TypeOK
    BY InitType
  <1>2. \A k \in Key : ~Present(k)
    BY DEF Init, Present
  <1>3. \A r \in Requests : req[r].op = "idle"
    BY DEF Init, Idle
  <1>4. QED
    BY <1>1, <1>2, <1>3
       DEF IInv, AdmittedUnlocked, SnapshotsOfOthers, IdsIssued, ChecksStillHold,
           LateWritesBounded

LEMMA NextInv == IInv /\ [Next]_vars => IInv'
  BY NextType, AdmittedStep, SnapshotsStep, IdsStep, ChecksStep, LateWritesStep DEF IInv

(* The inductive invariant of the write gate. *)
THEOREM Invariance == Spec => []IInv
  <1>1. QED
    BY InitInv, NextInv, PTL DEF Spec

(* However the deadline, the number of requests in flight and the lock     *)
(* times are chosen, no stored lineup was last written RequestTimeout or   *)
(* more after the kickoff that locks it.                                   *)
THEOREM LateWritesAreBounded == Spec => []LateWritesBounded
  <1>1. IInv => LateWritesBounded
    BY DEF IInv
  <1>2. QED
    BY <1>1, Invariance, PTL

(* The owner and the lock that PATCH checked on its copy of the row are    *)
(* still those of the row it is about to write.                            *)
THEOREM CheckedCopiesStayTrue == Spec => []ChecksStillHold
  <1>1. IInv => ChecksStillHold
    BY DEF IInv
  <1>2. QED
    BY <1>1, Invariance, PTL

(* Only a PATCH of its own user changes the starters of a row that stays.  *)
THEOREM OnlyOwnersEdit == Spec => OnlyOwnerEdits
  <1>1. ASSUME IInv, [Next]_vars, NEW k \in Key,
               Present(k), Present(k)', lineups'[k].starters # lineups[k].starters
        PROVE  \E r \in Requests : /\ req[r].op = "update"
                                   /\ req[r].user = k.user
                                   /\ req[r].starters = lineups'[k].starters
                                   /\ req'[r] = Idle
    <2>1. TypeOK /\ ChecksStillHold
      BY <1>1 DEF IInv
    <2>2. lineups[k] \in Row
      BY <1>1, <2>1 DEF Present, TypeOK, Table
    <2>3. PICK r \in Requests : /\ req[r].op = "update"
                                /\ lineups[k].id = req[r].id
                                /\ lineups'[k] = [lineups[k] EXCEPT
                                      !.starters = req[r].starters, !.updatedAt = now]
                                /\ req'[r] = Idle
      BY <1>1, RowRewritten
    <2>4. lineups'[k].starters = req[r].starters
      BY <2>2, <2>3 DEF Row
    <2>5. req[r].user = k.user
      BY <1>1, <2>1, <2>3 DEF ChecksStillHold
    <2>6. QED
      BY <2>3, <2>4, <2>5
  <1>2. IInv /\ [Next]_vars =>
           [\A k \in Key :
              Present(k) /\ Present(k)' /\ lineups'[k].starters # lineups[k].starters =>
              \E r \in Requests : /\ req[r].op = "update"
                                  /\ req[r].user = k.user
                                  /\ req[r].starters = lineups'[k].starters
                                  /\ req'[r] = Idle]_vars
    BY <1>1
  <1>3. QED
    BY <1>2, Invariance, PTL DEF Spec, OnlyOwnerEdits

(* A lineup leaves its place only by a merge that fills the same place of  *)
(* another user.                                                           *)
THEOREM PicksAreKept == Spec => PicksNeverVanish
  <1>1. ASSUME IInv, [Next]_vars, NEW k \in Key, Present(k), ~Present(k)'
        PROVE  /\ k.user \in Anonymous
               /\ \E u \in Users : Present([k EXCEPT !.user = u])'
    BY <1>1, RowsAreKept
  <1>2. IInv /\ [Next]_vars =>
          [\A k \in Key : Present(k) /\ ~Present(k)' =>
              /\ k.user \in Anonymous
              /\ \E u \in Users : Present([k EXCEPT !.user = u])']_vars
    BY <1>1
  <1>3. QED
    BY <1>2, Invariance, PTL DEF Spec, PicksNeverVanish
=============================================================================
