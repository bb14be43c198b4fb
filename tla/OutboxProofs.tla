---------------------------- MODULE OutboxProofs ----------------------------
(* Theorems about Outbox for every value of its constants. *)
EXTENDS Outbox, TLAPS

-----------------------------------------------------------------------------
(* What the statements of OutboxRows make of a row.                         *)

\* Subtracting ticks never leaves the naturals (the floor in release, and a
\* stamp that is already past).
LEMMA LessNat == ASSUME NEW t \in Nat, NEW a \in Nat PROVE Less(t, a) \in Nat /\ Less(t, a) <= t
  BY DEF Less

\* Every UPDATE of rows.rs and row_detail.rs yields a row of the table's type.
LEMMA EditedRows ==
  ASSUME NEW row \in Row, NEW age \in Nat
  PROVE  /\ Leased(row, age) \in Row
         /\ Released(row) \in Row
         /\ Accepted(row, age) \in Row
         /\ Dead(row, age) \in Row
         /\ \A jitter \in Nat : Retried(row, age, jitter) \in Row
         /\ Reopened(row) \in Row
         /\ \A r \in Resolutions : Resolved(row, r) \in Row
         /\ Aged(row) \in Row
         /\ Sent(row) \in Row
         /\ [row EXCEPT !.acked = TRUE] \in Row
<1>a. row.attempts \in Nat /\ row.sends \in Nat
  BY Zenon DEF Row
<1>0. row.attempts + 1 \in Nat /\ row.sends + 1 \in Nat
  BY <1>a
<1> USE LessNat, TableAssumption DEF Row, Finished
<1>1. Leased(row, age) \in Row
  BY <1>0, Zenon DEF Leased
<1>2. Released(row) \in Row
  BY DEF Released
<1>3. Accepted(row, age) \in Row
  BY DEF Accepted
<1>4. Dead(row, age) \in Row
  BY DEF Dead
<1>5. ASSUME NEW jitter \in Nat PROVE Retried(row, age, jitter) \in Row
  BY <1>4 DEF Retried
<1>6. Reopened(row) \in Row
  BY DEF Reopened
<1>7. ASSUME NEW r \in Resolutions PROVE Resolved(row, r) \in Row
  BY DEF Resolved
<1>8. Aged(row) \in Row
  BY DEF Aged
<1>9. Sent(row) \in Row /\ [row EXCEPT !.acked = TRUE] \in Row
  BY <1>0, Zenon DEF Sent
<1> QED
  BY <1>1, <1>2, <1>3, <1>4, <1>5, <1>6, <1>7, <1>8, <1>9

\* What the invariants need of each UPDATE, field by field.
LEMMA EditFields ==
  ASSUME NEW row \in Row, NEW age \in Nat
  PROVE  /\ \A c \in {Leased(row, age), Released(row), Accepted(row, age), Dead(row, age),
                       Reopened(row), Aged(row)} :
              c.key = row.key /\ c.resolution = row.resolution /\ c.sends = row.sends
         /\ \A c \in {Leased(row, age), Released(row), Reopened(row), Aged(row)} :
              c.token = row.token
         /\ \A c \in {Accepted(row, age), Dead(row, age), Aged(row)} : c.attempts = row.attempts
         /\ Leased(row, age).state = "delivering"
         /\ Leased(row, age).attempts = row.attempts + 1
         /\ Released(row).state = "pending"
         /\ Released(row).attempts = Less(row.attempts, 1)
         /\ Accepted(row, age).state = "delivered"
         /\ Dead(row, age).state = "dead"
         /\ Reopened(row).state = "pending" /\ Reopened(row).attempts = 0
         /\ Aged(row).state = row.state
         /\ LET c == Sent(row)
            IN  /\ c.key = row.key /\ c.resolution = row.resolution /\ c.token = row.token
                /\ c.state = row.state /\ c.attempts = row.attempts
                /\ c.sends = row.sends + 1
         /\ \A r \in Resolutions :
              LET c == Resolved(row, r)
              IN  /\ c.key = row.key /\ c.resolution = r /\ c.sends = row.sends
                  /\ c.token = row.token /\ c.attempts = row.attempts
                  /\ c.state = row.state
  BY DEF Row, Leased, Released, Accepted, Dead, Reopened, Aged, Sent, Resolved

\* A new row has the table's type.
LEMMA NewRowType ==
  ASSUME NEW key \in Keys, NEW t \in Targets, NEW rank \in Nat, NEW wait \in Nat, NEW fresh \in Nat
  PROVE  NewRow(key, t, rank, wait, fresh) \in Row
  BY DEF NewRow, Row, Finished

\* A new row is pending, untried, unsent and unresolved.
LEMMA NewRowFields ==
  ASSUME NEW key, NEW t, NEW rank, NEW wait, NEW fresh
  PROVE  LET r == NewRow(key, t, rank, wait, fresh)
         IN  /\ r.key = key /\ r.state = "pending" /\ r.attempts = 0
             /\ r.sends = 0 /\ r.resolution = "none"
  BY DEF NewRow

-----------------------------------------------------------------------------
(* Type correctness.                                                        *)

Table(rows) == DOMAIN rows \subseteq Ids /\ rows \in [DOMAIN rows -> Row]

\* Inserting a well-typed row, or finding its key taken, keeps the table typed.
LEMMA InsertType ==
  ASSUME NEW rows, Table(rows), NEW id \in Ids, NEW row \in Row
  PROVE  Table(Insert(rows, id, row))
  BY DEF Table, Insert

\* Inserting leaves the rows that were there as they were.
LEMMA InsertKeeps ==
  ASSUME NEW rows, DOMAIN rows \subseteq Ids, NEW id \in Ids, IsNextId(rows, id), NEW row
  PROVE  /\ id \notin DOMAIN rows
         /\ \A i \in DOMAIN rows :
               i \in DOMAIN Insert(rows, id, row) /\ Insert(rows, id, row)[i] = rows[i]
         /\ \A i \in DOMAIN Insert(rows, id, row) \ DOMAIN rows :
               /\ i = id /\ Insert(rows, id, row)[i] = row
               /\ ~KeyTaken(rows, row.key)
<1>1. id \notin DOMAIN rows
  BY DEF IsNextId, Ids
<1> QED
  BY <1>1 DEF Insert

\* Every step keeps the types.
LEMMA TypeStep == TypeOK /\ [Next]_vars => TypeOK'
<1> SUFFICES ASSUME TypeOK, [Next]_vars PROVE TypeOK'
  OBVIOUS
<1> USE DEF TypeOK
<1>a. passAge \in Nat /\ \A i \in DOMAIN outbox : outbox[i] \in Row
  BY WorkerAssumption
<1>b. Table(outbox)
  BY DEF Table
<1>1. CASE StartPass
  BY <1>1 DEF StartPass, Pruned
<1>2. CASE TakeDue
  <2>1. \A slice \in CatchupSlices(outbox) :
           Batches(outbox, DueNormal(outbox) \cup slice) \subseteq SUBSET Ids
    BY DEF CatchupSlices, Batches, Digests, OverdueFor, DueNormal, DueCatchup
  <2> QED
    BY <1>2, <2>1 DEF TakeDue
<1>3. ASSUME NEW b \in todo, Hold(b) PROVE TypeOK'
  BY <1>3 DEF Hold
<1>4. ASSUME NEW b \in todo, Lease(b) PROVE TypeOK'
  BY <1>4, <1>a, EditedRows DEF Lease, Edit
<1>5. ASSUME NEW a \in Answers, Deliver(a) PROVE TypeOK'
  BY <1>5, <1>a, EditedRows DEF Deliver, Edit
<1>6. CASE MarkAccepted
  BY <1>6, <1>a, EditedRows DEF MarkAccepted, Settle, Edit
<1>7. CASE MarkDead
  BY <1>7, <1>a, EditedRows DEF MarkDead, Settle, Edit
<1>8. CASE MarkRetry
  <2>1. PICK jitter \in [batch -> 0 .. BackoffTicks] :
           outbox' = [i \in DOMAIN outbox |->
                        IF i \in batch THEN Retried(outbox[i], passAge, jitter[i])
                                      ELSE outbox[i]]
    BY <1>8 DEF MarkRetry
  <2>2. \A i \in batch : jitter[i] \in Nat
    BY TableAssumption
  <2>3. \A i \in DOMAIN outbox : i \in batch => Retried(outbox[i], passAge, jitter[i]) \in Row
    BY <1>a, <2>2, EditedRows
  <2>4. Table(outbox')
    BY <1>a, <2>1, <2>3 DEF Table
  <2> QED
    BY <1>8, <2>4 DEF MarkRetry, Settle, Table
<1>9. CASE Release
  BY <1>9, <1>a, EditedRows DEF Release, Settle, Edit
<1>10. ASSUME NEW done \in SUBSET batch, ReleaseSome(done) PROVE TypeOK'
  <2>1. Table(outbox')
    BY <1>10, <1>a, EditedRows DEF ReleaseSome, Edit, Table
  <2> QED
    BY <1>10, <2>1, WorkerAssumption DEF ReleaseSome, Idle, Table
<1>11. CASE EndPass
  BY <1>11, WorkerAssumption DEF EndPass, Idle
<1>12. CASE Crash
  BY <1>12, WorkerAssumption DEF Crash, Idle
<1>13. ASSUME NEW k \in SourceKeys, NEW t \in Targets, NEW rank \in 0 .. MaxRank,
              NEW fresh \in {0, LateTicks}, Enqueue(k, t, rank, fresh)
       PROVE  TypeOK'
  <2>1. NewRow(SourceKey(k), t, rank, 0, fresh) \in Row
    <3>1. SourceKey(k) \in Keys
      BY DEF Keys, SourceKey
    <3>2. rank \in Nat /\ fresh \in Nat
      BY TableAssumption
    <3> QED
      BY <3>1, <3>2, NewRowType
  <2>2. Table(outbox')
    BY <1>13, <1>b, <2>1, InsertType DEF Enqueue
  <2> QED
    BY <1>13, <2>2 DEF Enqueue, passVars, Table
<1>14. ASSUME NEW id \in Ids, NEW r \in {"completed", "dismissed"}, Resolve(id, r)
       PROVE  TypeOK'
  BY <1>14, <1>a, EditedRows DEF Resolve, passVars, Resolutions
<1>15. ASSUME NEW id \in Ids, Snooze(id) PROVE TypeOK'
  <2>1. FollowUp(id) \in Row
    <3>1. outbox[id].target \in Targets /\ SnoozeKey(id) \in Keys
      BY <1>15, <1>a DEF Snooze, Row, Keys, SnoozeKey
    <3>2. SnoozeTicks \in Nat /\ SnoozeTicks + LateTicks \in Nat
      BY TableAssumption
    <3> QED
      BY <3>1, <3>2, NewRowType DEF FollowUp
  <2>2. Table([outbox EXCEPT ![id] = Resolved(@, "snoozed")])
    BY <1>15, <1>a, EditedRows DEF Snooze, Resolutions, Table
  <2>3. Table(outbox')
    BY <1>15, <2>1, <2>2, InsertType DEF Snooze
  <2> QED
    BY <1>15, <2>3 DEF Snooze, passVars, Table
<1>16. ASSUME NEW id \in Ids, Ack(id) PROVE TypeOK'
  BY <1>16, <1>a, EditedRows DEF Ack, passVars
<1>17. ASSUME NEW id \in Ids, Retry(id) PROVE TypeOK'
  BY <1>17, <1>a, EditedRows DEF Retry, passVars
<1>18. CASE Tick
  <2>1. Table(outbox')
    BY <1>18, <1>a, EditedRows DEF Tick, Edit, Table
  <2>2. passAge' \in 0 .. Horizon
    BY <1>18, WorkerAssumption DEF Tick
  <2> QED
    BY <1>18, <2>1, <2>2 DEF Tick, Table
<1>19. CASE UNCHANGED vars
  BY <1>19 DEF vars, passVars
<1>20. CASE AnswerLost
  <2>1. Table(outbox')
    BY <1>20, <1>a, EditedRows DEF AnswerLost, Edit, Table
  <2>2. lost' \in 0 .. MaxLost
    BY <1>20, WorkerAssumption DEF AnswerLost
  <2> QED
    BY <1>20, <2>1, <2>2 DEF AnswerLost, Table
<1> QED
  BY <1>1, <1>2, <1>3, <1>4, <1>5, <1>6, <1>7, <1>8, <1>9, <1>10, <1>11, <1>12,
     <1>13, <1>14, <1>15, <1>16, <1>17, <1>18, <1>19, <1>20 DEF Next, Worker, Owner

\* The type invariant holds in every reachable state.
THEOREM TypeCorrect == Spec => []TypeOK
<1>1. Init => TypeOK
  BY WorkerAssumption DEF Init, TypeOK
<1> QED
  BY <1>1, TypeStep, PTL DEF Spec

-----------------------------------------------------------------------------
(* The inductive invariant of the safety theorems.                          *)

\* What a pass holds at each point of run_pass.
PassPhase ==
    /\ pc \in {"idle", "pruned"} => todo = {}
    /\ pc \notin {"sending", "answered"} => batch = {}

\* A send that mark_accepted has not recorded is paid for by a fault or a lost
\* answer, unless the pass is between the answer and the mark.
InFlight(i) == pc = "answered" /\ answer = "accepted" /\ i \in batch

SendsAccounted ==
    \A i \in DOMAIN outbox :
        outbox[i].sends <= faults + lost +
            IF outbox[i].state = "delivered" \/ InFlight(i) THEN 1 ELSE 0

\* A row that is open and not being sent has tries left, or a fault for each
\* one beyond the limit.
AttemptsAccounted ==
    \A i \in DOMAIN outbox :
        /\ outbox[i].attempts <= MaxAttempts + faults
        /\ outbox[i].state \notin Finished /\ i \notin batch
              => outbox[i].attempts < MaxAttempts + faults

\* A follow-up is newer than the row it came from, which stays resolved.
FollowUpsNewer ==
    \A i \in DOMAIN outbox, n \in Ids :
        outbox[i].key = SnoozeKey(n)
        => n < i /\ (n \in DOMAIN outbox => outbox[n].resolution # "none")

IInv == TypeOK /\ PassPhase /\ PassHoldsOpenRows /\ SendsAccounted
        /\ AttemptsAccounted /\ FollowUpsNewer

\* A digest and the single rows never share a row, and hold only what they got.
LEMMA BatchesPartition ==
  ASSUME NEW rows, NEW ids
  PROVE  /\ UNION Batches(rows, ids) \subseteq ids
         /\ \A b, c \in Batches(rows, ids) : b # c => b \cap c = {}
<1>1. \A b, c \in Digests(rows, ids) : b # c => b \cap c = {}
  BY DEF Digests, OverdueFor
<1>2. \A b \in Digests(rows, ids) : b \subseteq ids
  BY DEF Digests, OverdueFor
<1>3. \A b \in Batches(rows, ids) :
         b \in Digests(rows, ids) \/ \E i \in ids \ UNION Digests(rows, ids) : b = {i}
  BY DEF Batches
<1>4. UNION Batches(rows, ids) \subseteq ids
  <2>1. ASSUME NEW b \in Batches(rows, ids) PROVE b \subseteq ids
    BY <1>2, <1>3
  <2> QED
    BY <2>1
<1>5. ASSUME NEW b \in Batches(rows, ids), NEW c \in Batches(rows, ids), b # c
      PROVE  b \cap c = {}
  <2> DEFINE single == ids \ UNION Digests(rows, ids)
  <2>1. CASE b \in Digests(rows, ids) /\ c \in Digests(rows, ids)
    BY <2>1, <1>1, <1>5
  <2>2. ASSUME NEW d \in Digests(rows, ids), NEW i \in single PROVE d \cap {i} = {}
    OBVIOUS
  <2>3. CASE b \notin Digests(rows, ids) /\ c \notin Digests(rows, ids)
    BY <2>3, <1>3, <1>5
  <2> QED
    BY <2>1, <2>2, <2>3, <1>3
<1> QED
  BY <1>4, <1>5

\* The pass part of the invariant is preserved by every step.
LEMMA PassStep ==
  TypeOK /\ PassPhase /\ PassHoldsOpenRows /\ [Next]_vars => PassPhase' /\ PassHoldsOpenRows'
<1> SUFFICES ASSUME TypeOK, PassPhase, PassHoldsOpenRows, [Next]_vars
             PROVE  PassPhase' /\ PassHoldsOpenRows'
  OBVIOUS
<1> USE DEF PassPhase, PassHoldsOpenRows, Held
<1>a. \A i \in DOMAIN outbox : outbox[i] \in Row
  BY DEF TypeOK
<1>c. passAge \in Nat
  BY WorkerAssumption DEF TypeOK
<1>b. ASSUME UNCHANGED <<pc, todo, batch>>,
             \A i \in DOMAIN outbox :
                /\ i \in DOMAIN outbox'
                /\ i \in Held => /\ outbox'[i].state = outbox[i].state
                                /\ outbox'[i].token = outbox[i].token
      PROVE  PassPhase' /\ PassHoldsOpenRows'
  BY <1>b
<1>1. CASE StartPass
  BY <1>1 DEF StartPass, Pruned
<1>2. CASE TakeDue
  <2>1. PICK slice \in CatchupSlices(outbox) :
           todo' = Batches(outbox, DueNormal(outbox) \cup slice)
    BY <1>2 DEF TakeDue
  <2>2. \A i \in DueNormal(outbox) \cup slice :
           i \in DOMAIN outbox /\ outbox[i].state \notin Finished /\ outbox[i].token
    BY DEF CatchupSlices, DueNormal, DueCatchup, Due, Finished
  <2>3. /\ UNION todo' \subseteq DueNormal(outbox) \cup slice
        /\ \A b, c \in todo' : b # c => b \cap c = {}
    BY <2>1, BatchesPartition, ZenonT(60)
  <2> QED
    BY <1>2, <2>2, <2>3 DEF TakeDue
<1>3. ASSUME NEW b \in todo, Hold(b) PROVE PassPhase' /\ PassHoldsOpenRows'
  BY <1>3 DEF Hold
<1>4. ASSUME NEW b \in todo, Lease(b) PROVE PassPhase' /\ PassHoldsOpenRows'
  <2>1. /\ DOMAIN outbox' = DOMAIN outbox
        /\ \A i \in b : outbox'[i] = Leased(outbox[i], passAge)
        /\ \A i \in DOMAIN outbox \ b : outbox'[i] = outbox[i]
    BY <1>4 DEF Lease, Edit
  <2>2. \A i \in b : outbox'[i].state = "delivering" /\ outbox'[i].token = outbox[i].token
    BY <2>1, <1>a, <1>c, EditFields
  <2>3. pc' = "sending" /\ batch' = b /\ todo' = todo \ {b} /\ batch = {}
    BY <1>4 DEF Lease
  <2> QED
    BY <2>1, <2>2, <2>3 DEF Finished
<1>5. ASSUME NEW a \in Answers, Deliver(a) PROVE PassPhase' /\ PassHoldsOpenRows'
  BY <1>5, <1>a, <1>c, EditFields DEF Deliver, Edit
<1>6. CASE MarkAccepted
  BY <1>6 DEF MarkAccepted, Settle, Edit
<1>7. CASE MarkDead
  BY <1>7 DEF MarkDead, Settle, Edit
<1>8. CASE MarkRetry
  BY <1>8 DEF MarkRetry, Settle
<1>9. CASE Release
  BY <1>9 DEF Release, Settle, Edit
<1>10. ASSUME NEW done \in SUBSET batch, ReleaseSome(done)
       PROVE  PassPhase' /\ PassHoldsOpenRows'
  BY <1>10 DEF ReleaseSome, Idle
<1>11. CASE EndPass
  BY <1>11 DEF EndPass, Idle
<1>12. CASE Crash
  BY <1>12 DEF Crash, Idle
<1>13. ASSUME NEW k \in SourceKeys, NEW t \in Targets, NEW rank \in 0 .. MaxRank,
              NEW fresh \in {0, LateTicks}, Enqueue(k, t, rank, fresh)
       PROVE  PassPhase' /\ PassHoldsOpenRows'
  BY <1>13, <1>b, InsertKeeps DEF Enqueue, passVars, TypeOK
<1>14. ASSUME NEW id \in Ids, NEW r \in {"completed", "dismissed"}, Resolve(id, r)
       PROVE  PassPhase' /\ PassHoldsOpenRows'
  BY <1>14, <1>a DEF Resolve, Resolved, passVars, Row
<1>15. ASSUME NEW id \in Ids, Snooze(id) PROVE PassPhase' /\ PassHoldsOpenRows'
  <2> DEFINE claimed == [outbox EXCEPT ![id] = Resolved(@, "snoozed")]
  <2>1. /\ DOMAIN claimed = DOMAIN outbox
        /\ \A i \in DOMAIN outbox : /\ claimed[i].state = outbox[i].state
                                  /\ claimed[i].token = outbox[i].token
    BY <1>a, EditFields DEF Resolutions, TypeOK
  <2>0. PICK next \in Ids :
           IsNextId(outbox, next) /\ outbox' = Insert(claimed, next, FollowUp(id))
    BY <1>15 DEF Snooze
  <2> HIDE DEF claimed
  <2>2. \A i \in DOMAIN claimed : i \in DOMAIN outbox' /\ outbox'[i] = claimed[i]
    <3>1. DOMAIN claimed \subseteq Ids /\ IsNextId(claimed, next)
      BY <2>0, <2>1 DEF TypeOK, IsNextId
    <3> QED
      BY <2>0, <3>1, InsertKeeps
  <2> QED
    BY <1>15, <2>1, <2>2, <1>b DEF Snooze, passVars
<1>16. ASSUME NEW id \in Ids, Ack(id) PROVE PassPhase' /\ PassHoldsOpenRows'
  BY <1>16, <1>a DEF Ack, passVars, Row
<1>17. ASSUME NEW id \in Ids, Retry(id) PROVE PassPhase' /\ PassHoldsOpenRows'
  BY <1>17, <1>a DEF Retry, Reopened, passVars, Row, Finished
<1>18. CASE Tick
  BY <1>18, <1>a, <1>b, <1>c, EditFields DEF Tick, Edit
<1>19. CASE UNCHANGED vars
  BY <1>19 DEF vars, passVars
<1>20. CASE AnswerLost
  BY <1>20, <1>a, <1>c, EditFields DEF AnswerLost, Edit
<1> QED
  BY <1>1, <1>2, <1>3, <1>4, <1>5, <1>6, <1>7, <1>8, <1>9, <1>10, <1>11, <1>12,
     <1>13, <1>14, <1>15, <1>16, <1>17, <1>18, <1>19, <1>20 DEF Next, Worker, Owner

\* What a step makes of a row of the table, as the accounting needs it: every
\* row that stays keeps its key, and its sends grow only under Deliver.
LEMMA MarkedRows ==
  ASSUME TypeOK, NEW i \in DOMAIN outbox, NEW jitter \in Nat
  PROVE  LET c == Retried(outbox[i], passAge, jitter)
         IN  /\ c.key = outbox[i].key /\ c.resolution = outbox[i].resolution
             /\ c.sends = outbox[i].sends /\ c.attempts = outbox[i].attempts
             /\ outbox[i].attempts >= MaxAttempts => c.state = "dead"
             /\ outbox[i].attempts < MaxAttempts => c.state = "failed"
<1>1. outbox[i] \in Row /\ passAge \in Nat
  BY WorkerAssumption DEF TypeOK
<1>2. outbox[i].attempts \in Nat /\ MaxAttempts \in Nat
  BY <1>1, TableAssumption, Zenon DEF Row
<1>3. CASE outbox[i].attempts >= MaxAttempts
  BY <1>1, <1>2, <1>3, EditFields DEF Retried
<1>4. CASE ~(outbox[i].attempts >= MaxAttempts)
  BY <1>1, <1>2, <1>4 DEF Retried, Row
<1> QED
  BY <1>2, <1>3, <1>4

\* The sends of a row stay accounted for.
LEMMA SendsStep ==
  TypeOK /\ PassPhase /\ PassHoldsOpenRows /\ SendsAccounted /\ [Next]_vars => SendsAccounted'
<1> SUFFICES ASSUME TypeOK, PassPhase, PassHoldsOpenRows, SendsAccounted, [Next]_vars
             PROVE  SendsAccounted'
  OBVIOUS
<1> USE DEF SendsAccounted, InFlight
<1>a. \A i \in DOMAIN outbox : outbox[i] \in Row
  BY DEF TypeOK
<1>b. \A i \in DOMAIN outbox : outbox[i].sends \in Nat
  BY <1>a, Zenon DEF Row
<1>c. passAge \in Nat /\ faults \in Nat /\ lost \in Nat
  BY WorkerAssumption DEF TypeOK
<1>d. ASSUME UNCHANGED <<pc, batch, answer, faults, lost>>,
             \A i \in DOMAIN outbox' :
                \/ i \in DOMAIN outbox /\ outbox'[i].sends = outbox[i].sends
                   /\ (outbox[i].state = "delivered" => outbox'[i].state = "delivered")
                \/ outbox'[i].sends = 0
      PROVE  SendsAccounted'
  BY <1>b, <1>c, <1>d
<1>1. CASE StartPass
  BY <1>1, <1>d DEF StartPass, Pruned
<1>2. CASE TakeDue
  BY <1>2 DEF TakeDue
<1>3. ASSUME NEW b \in todo, Hold(b) PROVE SendsAccounted'
  BY <1>3 DEF Hold
<1>4. ASSUME NEW b \in todo, Lease(b) PROVE SendsAccounted'
  <2>1. /\ DOMAIN outbox' = DOMAIN outbox
        /\ \A i \in DOMAIN outbox : outbox'[i] \in {outbox[i], Leased(outbox[i], passAge)}
        /\ \A i \in DOMAIN outbox \ b : outbox'[i] = outbox[i]
    BY <1>4 DEF Lease, Edit
  <2>2. \A i \in DOMAIN outbox : outbox'[i].sends = outbox[i].sends
    BY <2>1, <1>a, <1>c, EditFields
  <2>3. \A i \in b : i \in DOMAIN outbox /\ outbox[i].state # "delivered"
    BY DEF PassHoldsOpenRows, Held, Finished
  <2>4. pc = "draining" /\ pc' = "sending" /\ faults' = faults /\ lost' = lost
    BY <1>4 DEF Lease
  <2> QED
    BY <2>1, <2>2, <2>3, <2>4, <1>b, <1>c
<1>5. ASSUME NEW a \in Answers, Deliver(a) PROVE SendsAccounted'
  <2>1. \A i \in DOMAIN outbox : /\ Sent(outbox[i]).sends = outbox[i].sends + 1
                                 /\ Sent(outbox[i]).state = outbox[i].state
    BY <1>a, <1>c, EditFields
  <2>2. \A i \in batch : i \in DOMAIN outbox /\ outbox[i].state # "delivered"
    BY DEF PassHoldsOpenRows, Held, Finished
  <2>3. pc = "sending" /\ pc' = "answered" /\ answer' = a /\ batch' = batch /\ faults' = faults /\ lost' = lost
    BY <1>5 DEF Deliver
  <2>4. CASE a = "accepted"
    <3>1. /\ DOMAIN outbox' = DOMAIN outbox
          /\ \A i \in DOMAIN outbox \ batch : outbox'[i] = outbox[i]
          /\ \A i \in batch : outbox'[i].sends = outbox[i].sends + 1
      BY <2>1, <2>2, <2>4, <1>5 DEF Deliver, Edit
    <3> QED
      BY <3>1, <2>2, <2>3, <2>4, <1>b, <1>c
  <2>5. CASE a # "accepted"
    BY <2>3, <2>5, <1>5 DEF Deliver
  <2> QED
    BY <2>4, <2>5
<1>6. CASE MarkAccepted
  <2>1. /\ DOMAIN outbox' = DOMAIN outbox
        /\ \A i \in DOMAIN outbox \ batch : outbox'[i] = outbox[i]
        /\ \A i \in DOMAIN outbox : i \in batch =>
              outbox'[i].sends = outbox[i].sends /\ outbox'[i].state = "delivered"
    BY <1>6, <1>a, <1>c, EditFields DEF MarkAccepted, Edit
  <2> QED
    BY <2>1, <1>6, <1>b, <1>c DEF MarkAccepted, Settle
<1>7. CASE MarkDead
  <2>1. /\ DOMAIN outbox' = DOMAIN outbox
        /\ \A i \in DOMAIN outbox : i \notin batch => outbox'[i] = outbox[i]
        /\ \A i \in DOMAIN outbox : i \in batch => outbox'[i].sends = outbox[i].sends
    BY <1>7, <1>a, <1>c, EditFields DEF MarkDead, Edit
  <2>2. \A i \in DOMAIN outbox : outbox[i].sends <= faults + lost \/ outbox[i].state = "delivered"
    BY <1>7, <1>b, <1>c DEF MarkDead
  <2>3. \A i \in DOMAIN outbox : i \in batch => outbox[i].sends <= faults + lost
    BY <2>2 DEF PassHoldsOpenRows
  <2>4. pc' = "draining" /\ faults' = faults /\ lost' = lost
    BY <1>7 DEF MarkDead, Settle
  <2> QED
    BY <2>1, <2>2, <2>3, <2>4, <1>b, <1>c
<1>8. CASE MarkRetry
  <2>1. PICK jitter \in [batch -> 0 .. BackoffTicks] :
           outbox' = [i \in DOMAIN outbox |->
                        IF i \in batch THEN Retried(outbox[i], passAge, jitter[i])
                                      ELSE outbox[i]]
    BY <1>8 DEF MarkRetry
  <2>2. \A i \in DOMAIN outbox : i \in batch => jitter[i] \in Nat
    BY TableAssumption
  <2>3. /\ DOMAIN outbox' = DOMAIN outbox
        /\ \A i \in DOMAIN outbox : i \notin batch => outbox'[i] = outbox[i]
        /\ \A i \in DOMAIN outbox : i \in batch => outbox'[i].sends = outbox[i].sends
    BY <2>1, <2>2, MarkedRows
  <2> QED
    BY <2>3, <1>8, <1>b, <1>c DEF MarkRetry, Settle, PassHoldsOpenRows
<1>9. CASE Release
  <2>1. /\ DOMAIN outbox' = DOMAIN outbox
        /\ \A i \in DOMAIN outbox : i \notin batch => outbox'[i] = outbox[i]
        /\ \A i \in DOMAIN outbox : i \in batch => outbox'[i].sends = outbox[i].sends
    BY <1>9, <1>a, <1>c, EditFields DEF Release, Edit
  <2> QED
    BY <2>1, <1>9, <1>b, <1>c DEF Release, Settle, PassHoldsOpenRows
<1>10. ASSUME NEW done \in SUBSET batch, ReleaseSome(done) PROVE SendsAccounted'
  <2>1. /\ DOMAIN outbox' = DOMAIN outbox
        /\ \A i \in DOMAIN outbox : outbox'[i].sends = outbox[i].sends
    BY <1>10, <1>a, <1>c, EditFields DEF ReleaseSome, Edit
  <2> QED
    BY <2>1, <1>10, <1>b, <1>c DEF ReleaseSome, Idle
<1>11. CASE EndPass
  BY <1>11, <1>b, <1>c DEF EndPass, Idle
<1>12. CASE Crash
  BY <1>12, <1>b, <1>c DEF Crash, Idle
<1>13. ASSUME NEW k \in SourceKeys, NEW t \in Targets, NEW rank \in 0 .. MaxRank,
              NEW fresh \in {0, LateTicks}, Enqueue(k, t, rank, fresh)
       PROVE  SendsAccounted'
  <2>1. PICK id \in Ids : /\ IsNextId(outbox, id)
                          /\ outbox' = Insert(outbox, id, NewRow(SourceKey(k), t, rank, 0, fresh))
    BY <1>13 DEF Enqueue
  <2>2. \A i \in DOMAIN outbox' : i \notin DOMAIN outbox => outbox'[i].sends = 0
    BY <2>1, InsertKeeps, NewRowFields DEF TypeOK
  <2>3. \A i \in DOMAIN outbox : outbox'[i] = outbox[i]
    BY <2>1, InsertKeeps DEF TypeOK
  <2> QED
    BY <1>13, <1>d, <2>2, <2>3 DEF Enqueue, passVars
<1>14. ASSUME NEW id \in Ids, NEW r \in {"completed", "dismissed"}, Resolve(id, r)
       PROVE  SendsAccounted'
  BY <1>14, <1>a, <1>d, EditFields DEF Resolve, passVars, Resolutions
<1>15. ASSUME NEW id \in Ids, Snooze(id) PROVE SendsAccounted'
  <2> DEFINE claimed == [outbox EXCEPT ![id] = Resolved(@, "snoozed")]
  <2>0. PICK next \in Ids :
           IsNextId(outbox, next) /\ outbox' = Insert(claimed, next, FollowUp(id))
    BY <1>15 DEF Snooze
  <2>1. /\ DOMAIN claimed = DOMAIN outbox
        /\ \A i \in DOMAIN outbox : /\ claimed[i].state = outbox[i].state
                                  /\ claimed[i].sends = outbox[i].sends
    BY <1>a, EditFields DEF Resolutions, TypeOK
  <2> HIDE DEF claimed
  <2>2. DOMAIN claimed \subseteq Ids /\ IsNextId(claimed, next)
    BY <2>0, <2>1 DEF TypeOK, IsNextId
  <2>3. \A i \in DOMAIN outbox' : i \notin DOMAIN outbox => outbox'[i].sends = 0
    BY <2>0, <2>1, <2>2, InsertKeeps, NewRowFields DEF FollowUp
  <2>4. \A i \in DOMAIN outbox : outbox'[i] = claimed[i]
    BY <2>0, <2>1, <2>2, InsertKeeps
  <2> QED
    BY <1>15, <1>d, <2>1, <2>3, <2>4 DEF Snooze, passVars
<1>16. ASSUME NEW id \in Ids, Ack(id) PROVE SendsAccounted'
  BY <1>16, <1>a, <1>d DEF Ack, passVars, Row
<1>17. ASSUME NEW id \in Ids, Retry(id) PROVE SendsAccounted'
  BY <1>17, <1>a, <1>d, <1>c, EditFields DEF Retry, passVars
<1>18. CASE Tick
  <2>1. /\ DOMAIN outbox' = DOMAIN outbox
        /\ \A i \in DOMAIN outbox : outbox'[i] = Aged(outbox[i])
    BY <1>18 DEF Tick, Edit
  <2>2. \A i \in DOMAIN outbox : /\ outbox'[i].sends = outbox[i].sends
                                 /\ outbox'[i].state = outbox[i].state
    BY <2>1, <1>a, <1>c, EditFields
  <2> QED
    BY <1>18, <1>d, <2>1, <2>2 DEF Tick
<1>19. CASE UNCHANGED vars
  BY <1>19 DEF vars, passVars
<1>20. CASE AnswerLost
  <2>1. /\ DOMAIN outbox' = DOMAIN outbox
        /\ \A i \in DOMAIN outbox : i \notin batch => outbox'[i] = outbox[i]
        /\ \A i \in DOMAIN outbox : i \in batch =>
              /\ outbox'[i].sends = outbox[i].sends + 1
              /\ outbox'[i].state = outbox[i].state
    BY <1>20, <1>a, <1>c, EditFields DEF AnswerLost, Edit
  <2>2. pc = "sending" /\ answer' = "retryable" /\ faults' = faults /\ lost' = lost + 1
    BY <1>20 DEF AnswerLost
  <2> QED
    BY <2>1, <2>2, <1>b, <1>c
<1> QED
  BY <1>1, <1>2, <1>3, <1>4, <1>5, <1>6, <1>7, <1>8, <1>9, <1>10, <1>11, <1>12,
     <1>13, <1>14, <1>15, <1>16, <1>17, <1>18, <1>19, <1>20 DEF Next, Worker, Owner

\* The attempts of a row stay accounted for.
LEMMA AttemptsStep ==
  TypeOK /\ PassPhase /\ PassHoldsOpenRows /\ AttemptsAccounted /\ [Next]_vars
  => AttemptsAccounted'
<1> SUFFICES ASSUME TypeOK, PassPhase, PassHoldsOpenRows, AttemptsAccounted, [Next]_vars
             PROVE  AttemptsAccounted'
  OBVIOUS
<1> USE DEF AttemptsAccounted
<1>a. \A i \in DOMAIN outbox : outbox[i] \in Row
  BY DEF TypeOK
<1>b. \A i \in DOMAIN outbox : outbox[i].attempts \in Nat
  BY <1>a, Zenon DEF Row
<1>c. passAge \in Nat /\ faults \in Nat /\ MaxAttempts \in Nat /\ MaxAttempts > 0
  BY WorkerAssumption, TableAssumption DEF TypeOK
<1>d. ASSUME UNCHANGED <<batch, faults>>,
             \A i \in DOMAIN outbox' :
                \/ i \in DOMAIN outbox /\ outbox'[i].attempts = outbox[i].attempts
                   /\ (outbox[i].state \in Finished => outbox'[i].state \in Finished)
                \/ outbox'[i].attempts = 0
      PROVE  AttemptsAccounted'
  BY <1>b, <1>c, <1>d
<1>e. \A i \in batch : i \in DOMAIN outbox
  BY DEF PassHoldsOpenRows, Held
<1>1. CASE StartPass
  BY <1>1, <1>d DEF StartPass, Pruned
<1>2. CASE TakeDue
  BY <1>2 DEF TakeDue
<1>3. ASSUME NEW b \in todo, Hold(b) PROVE AttemptsAccounted'
  BY <1>3 DEF Hold
<1>4. ASSUME NEW b \in todo, Lease(b) PROVE AttemptsAccounted'
  <2>1. /\ DOMAIN outbox' = DOMAIN outbox
        /\ \A i \in DOMAIN outbox \ b : outbox'[i] = outbox[i]
        /\ \A i \in DOMAIN outbox : i \in b => outbox'[i].attempts = outbox[i].attempts + 1
    BY <1>4, <1>a, <1>c, EditFields DEF Lease, Edit
  <2>2. \A i \in b : i \in DOMAIN outbox /\ outbox[i].state \notin Finished /\ i \notin batch
    BY DEF PassHoldsOpenRows, Held
  <2>3. batch = {} /\ batch' = b /\ faults' = faults
    BY <1>4 DEF Lease, PassPhase
  <2> QED
    BY <2>1, <2>2, <2>3, <1>b, <1>c
<1>5. ASSUME NEW a \in Answers, Deliver(a) PROVE AttemptsAccounted'
  BY <1>5, <1>a, <1>c, <1>d, EditFields DEF Deliver, Edit
<1>6. CASE MarkAccepted
  <2>1. /\ DOMAIN outbox' = DOMAIN outbox
        /\ \A i \in DOMAIN outbox : i \notin batch => outbox'[i] = outbox[i]
        /\ \A i \in DOMAIN outbox : i \in batch =>
              outbox'[i].attempts = outbox[i].attempts /\ outbox'[i].state \in Finished
    BY <1>6, <1>a, <1>c, EditFields DEF MarkAccepted, Edit, Finished
  <2> QED
    BY <2>1, <1>6, <1>b, <1>c DEF MarkAccepted, Settle
<1>7. CASE MarkDead
  <2>1. /\ DOMAIN outbox' = DOMAIN outbox
        /\ \A i \in DOMAIN outbox : i \notin batch => outbox'[i] = outbox[i]
        /\ \A i \in DOMAIN outbox : i \in batch =>
              outbox'[i].attempts = outbox[i].attempts /\ outbox'[i].state \in Finished
    BY <1>7, <1>a, <1>c, EditFields DEF MarkDead, Edit, Finished
  <2> QED
    BY <2>1, <1>7, <1>b, <1>c DEF MarkDead, Settle
<1>8. CASE MarkRetry
  <2>1. PICK jitter \in [batch -> 0 .. BackoffTicks] :
           outbox' = [i \in DOMAIN outbox |->
                        IF i \in batch THEN Retried(outbox[i], passAge, jitter[i])
                                      ELSE outbox[i]]
    BY <1>8 DEF MarkRetry
  <2>2. \A i \in DOMAIN outbox : i \in batch => jitter[i] \in Nat
    BY TableAssumption
  <2>3. /\ DOMAIN outbox' = DOMAIN outbox
        /\ \A i \in DOMAIN outbox : i \notin batch => outbox'[i] = outbox[i]
        /\ \A i \in DOMAIN outbox : i \in batch =>
              /\ outbox'[i].attempts = outbox[i].attempts
              /\ outbox[i].attempts >= MaxAttempts => outbox'[i].state \in Finished
    BY <2>1, <2>2, MarkedRows DEF Finished
  <2> QED
    BY <2>3, <1>8, <1>b, <1>c DEF MarkRetry, Settle
<1>9. CASE Release
  <2>1. /\ DOMAIN outbox' = DOMAIN outbox
        /\ \A i \in DOMAIN outbox : i \notin batch => outbox'[i] = outbox[i]
        /\ \A i \in DOMAIN outbox : i \in batch =>
              outbox'[i].attempts = Less(outbox[i].attempts, 1)
    BY <1>9, <1>a, <1>c, EditFields DEF Release, Edit
  <2> QED
    BY <2>1, <1>9, <1>b, <1>c DEF Release, Settle, Less
<1>10. ASSUME NEW done \in SUBSET batch, ReleaseSome(done) PROVE AttemptsAccounted'
  <2>1. /\ DOMAIN outbox' = DOMAIN outbox
        /\ \A i \in DOMAIN outbox : i \notin done => outbox'[i] = outbox[i]
        /\ \A i \in DOMAIN outbox : i \in done =>
              outbox'[i].attempts = Less(outbox[i].attempts, 1)
    BY <1>10, <1>a, <1>c, EditFields DEF ReleaseSome, Edit
  <2> QED
    BY <2>1, <1>10, <1>b, <1>c DEF ReleaseSome, Idle, Less
<1>11. CASE EndPass
  BY <1>11 DEF EndPass, Idle, PassPhase
<1>12. CASE Crash
  BY <1>12, <1>b, <1>c DEF Crash, Idle
<1>13. ASSUME NEW k \in SourceKeys, NEW t \in Targets, NEW rank \in 0 .. MaxRank,
              NEW fresh \in {0, LateTicks}, Enqueue(k, t, rank, fresh)
       PROVE  AttemptsAccounted'
  <2>1. PICK id \in Ids : /\ IsNextId(outbox, id)
                          /\ outbox' = Insert(outbox, id, NewRow(SourceKey(k), t, rank, 0, fresh))
    BY <1>13 DEF Enqueue
  <2>2. \A i \in DOMAIN outbox' : i \notin DOMAIN outbox => outbox'[i].attempts = 0
    BY <2>1, InsertKeeps, NewRowFields DEF TypeOK
  <2>3. \A i \in DOMAIN outbox : outbox'[i] = outbox[i]
    BY <2>1, InsertKeeps DEF TypeOK
  <2> QED
    BY <1>13, <1>d, <2>2, <2>3 DEF Enqueue, passVars
<1>14. ASSUME NEW id \in Ids, NEW r \in {"completed", "dismissed"}, Resolve(id, r)
       PROVE  AttemptsAccounted'
  BY <1>14, <1>a, <1>d, EditFields DEF Resolve, passVars, Resolutions
<1>15. ASSUME NEW id \in Ids, Snooze(id) PROVE AttemptsAccounted'
  <2> DEFINE claimed == [outbox EXCEPT ![id] = Resolved(@, "snoozed")]
  <2>0. PICK next \in Ids :
           IsNextId(outbox, next) /\ outbox' = Insert(claimed, next, FollowUp(id))
    BY <1>15 DEF Snooze
  <2>1. /\ DOMAIN claimed = DOMAIN outbox
        /\ \A i \in DOMAIN outbox : /\ claimed[i].state = outbox[i].state
                                  /\ claimed[i].attempts = outbox[i].attempts
    BY <1>a, EditFields DEF Resolutions, TypeOK
  <2> HIDE DEF claimed
  <2>2. DOMAIN claimed \subseteq Ids /\ IsNextId(claimed, next)
    BY <2>0, <2>1 DEF TypeOK, IsNextId
  <2>3. \A i \in DOMAIN outbox' : i \notin DOMAIN outbox => outbox'[i].attempts = 0
    BY <2>0, <2>1, <2>2, InsertKeeps, NewRowFields DEF FollowUp
  <2>4. \A i \in DOMAIN outbox : outbox'[i] = claimed[i]
    BY <2>0, <2>1, <2>2, InsertKeeps
  <2> QED
    BY <1>15, <1>d, <2>1, <2>3, <2>4 DEF Snooze, passVars
<1>16. ASSUME NEW id \in Ids, Ack(id) PROVE AttemptsAccounted'
  BY <1>16, <1>a, <1>d DEF Ack, passVars, Row
<1>17. ASSUME NEW id \in Ids, Retry(id) PROVE AttemptsAccounted'
  BY <1>17, <1>a, <1>d, <1>c, EditFields DEF Retry, passVars
<1>18. CASE Tick
  BY <1>18, <1>a, <1>d, <1>c, EditFields DEF Tick, Edit
<1>19. CASE UNCHANGED vars
  BY <1>19 DEF vars, passVars
<1>20. CASE AnswerLost
  BY <1>20, <1>a, <1>c, <1>d, EditFields DEF AnswerLost, Edit
<1> QED
  BY <1>1, <1>2, <1>3, <1>4, <1>5, <1>6, <1>7, <1>8, <1>9, <1>10, <1>11, <1>12,
     <1>13, <1>14, <1>15, <1>16, <1>17, <1>18, <1>19, <1>20 DEF Next, Worker, Owner

\* Follow-ups stay newer than the rows they came from.
LEMMA FollowUpsStep == TypeOK /\ FollowUpsNewer /\ [Next]_vars => FollowUpsNewer'
<1> SUFFICES ASSUME TypeOK, FollowUpsNewer, [Next]_vars PROVE FollowUpsNewer'
  OBVIOUS
<1> USE DEF FollowUpsNewer
<1>a. \A i \in DOMAIN outbox : outbox[i] \in Row /\ i \in Ids
  BY DEF TypeOK
<1>c. passAge \in Nat
  BY WorkerAssumption DEF TypeOK
<1>d. ASSUME \A i \in DOMAIN outbox' :
                /\ i \in DOMAIN outbox
                /\ outbox'[i].key = outbox[i].key
                /\ outbox[i].resolution # "none" => outbox'[i].resolution # "none"
      PROVE  FollowUpsNewer'
  <2> SUFFICES ASSUME NEW i \in DOMAIN outbox', NEW n \in Ids, outbox'[i].key = SnoozeKey(n)
               PROVE  n < i /\ (n \in DOMAIN outbox' => outbox'[n].resolution # "none")
    BY Zenon
  <2>1. i \in DOMAIN outbox /\ outbox[i].key = SnoozeKey(n)
    BY <1>d
  <2>2. n < i /\ (n \in DOMAIN outbox => outbox[n].resolution # "none")
    BY <2>1, Zenon
  <2> QED
    BY <1>d, <2>2
<1>1. CASE StartPass
  BY <1>1, <1>d DEF StartPass, Pruned
<1>2. CASE TakeDue
  BY <1>2 DEF TakeDue
<1>3. ASSUME NEW b \in todo, Hold(b) PROVE FollowUpsNewer'
  BY <1>3 DEF Hold
<1>4. ASSUME NEW b \in todo, Lease(b) PROVE FollowUpsNewer'
  BY <1>4, <1>a, <1>c, <1>d, EditFields DEF Lease, Edit
<1>5. ASSUME NEW a \in Answers, Deliver(a) PROVE FollowUpsNewer'
  BY <1>5, <1>a, <1>c, <1>d, EditFields DEF Deliver, Edit
<1>6. CASE MarkAccepted
  BY <1>6, <1>a, <1>c, <1>d, EditFields DEF MarkAccepted, Edit
<1>7. CASE MarkDead
  BY <1>7, <1>a, <1>c, <1>d, EditFields DEF MarkDead, Edit
<1>8. CASE MarkRetry
  <2>1. PICK jitter \in [batch -> 0 .. BackoffTicks] :
           outbox' = [i \in DOMAIN outbox |->
                        IF i \in batch THEN Retried(outbox[i], passAge, jitter[i])
                                      ELSE outbox[i]]
    BY <1>8 DEF MarkRetry
  <2>2. \A i \in DOMAIN outbox : i \in batch => jitter[i] \in Nat
    BY TableAssumption
  <2> QED
    BY <2>1, <2>2, <1>d, MarkedRows
<1>9. CASE Release
  BY <1>9, <1>a, <1>c, <1>d, EditFields DEF Release, Edit
<1>10. ASSUME NEW done \in SUBSET batch, ReleaseSome(done) PROVE FollowUpsNewer'
  BY <1>10, <1>a, <1>c, <1>d, EditFields DEF ReleaseSome, Edit
<1>11. CASE EndPass
  BY <1>11 DEF EndPass
<1>12. CASE Crash
  BY <1>12 DEF Crash
<1>13. ASSUME NEW k \in SourceKeys, NEW t \in Targets, NEW rank \in 0 .. MaxRank,
              NEW fresh \in {0, LateTicks}, Enqueue(k, t, rank, fresh)
       PROVE  FollowUpsNewer'
  <2>1. PICK id \in Ids : /\ IsNextId(outbox, id)
                          /\ outbox' = Insert(outbox, id, NewRow(SourceKey(k), t, rank, 0, fresh))
    BY <1>13 DEF Enqueue
  <2>2. \A i \in DOMAIN outbox' : i \notin DOMAIN outbox => i = id /\ outbox'[i].key = SourceKey(k)
    BY <2>1, InsertKeeps, NewRowFields DEF TypeOK
  <2>3. \A i \in DOMAIN outbox : i < id /\ outbox'[i] = outbox[i]
    BY <2>1, InsertKeeps DEF TypeOK, IsNextId
  <2>4. \A n \in Ids : SourceKey(k) # SnoozeKey(n)
    BY DEF SourceKey, SnoozeKey
  <2> QED
    BY <2>2, <2>3, <2>4, <1>a DEF Ids
<1>14. ASSUME NEW id \in Ids, NEW r \in {"completed", "dismissed"}, Resolve(id, r)
       PROVE  FollowUpsNewer'
  BY <1>14, <1>a, <1>d, EditFields DEF Resolve, Resolutions
<1>15. ASSUME NEW id \in Ids, Snooze(id) PROVE FollowUpsNewer'
  <2> DEFINE claimed == [outbox EXCEPT ![id] = Resolved(@, "snoozed")]
  <2>0. PICK next \in Ids :
           IsNextId(outbox, next) /\ outbox' = Insert(claimed, next, FollowUp(id))
    BY <1>15 DEF Snooze
  <2>1. /\ DOMAIN claimed = DOMAIN outbox
        /\ \A i \in DOMAIN outbox :
              /\ claimed[i].key = outbox[i].key
              /\ outbox[i].resolution # "none" => claimed[i].resolution # "none"
        /\ id \in DOMAIN outbox /\ claimed[id].resolution # "none"
    BY <1>15, <1>a, EditFields DEF Snooze, Resolutions, TypeOK
  <2> HIDE DEF claimed
  <2>2. DOMAIN claimed \subseteq Ids /\ IsNextId(claimed, next)
    BY <2>0, <2>1 DEF TypeOK, IsNextId
  <2>3. \A i \in DOMAIN outbox' : i \notin DOMAIN outbox => i = next /\ outbox'[i].key = SnoozeKey(id)
    BY <2>0, <2>1, <2>2, InsertKeeps, NewRowFields DEF FollowUp
  <2>4. \A i \in DOMAIN outbox : i < next /\ i \in DOMAIN outbox' /\ outbox'[i] = claimed[i]
    BY <2>0, <2>1, <2>2, InsertKeeps DEF IsNextId
  <2>5. \A n, m \in Ids : SnoozeKey(n) = SnoozeKey(m) => n = m
    BY DEF SnoozeKey
  <2> QED
    BY <2>1, <2>3, <2>4, <2>5, <1>a DEF Ids
<1>16. ASSUME NEW id \in Ids, Ack(id) PROVE FollowUpsNewer'
  BY <1>16, <1>a, <1>d DEF Ack, Row
<1>17. ASSUME NEW id \in Ids, Retry(id) PROVE FollowUpsNewer'
  BY <1>17, <1>a, <1>d, <1>c, EditFields DEF Retry
<1>18. CASE Tick
  BY <1>18, <1>a, <1>d, <1>c, EditFields DEF Tick, Edit
<1>19. CASE UNCHANGED vars
  BY <1>19 DEF vars
<1>20. CASE AnswerLost
  BY <1>20, <1>a, <1>c, <1>d, EditFields DEF AnswerLost, Edit
<1> QED
  BY <1>1, <1>2, <1>3, <1>4, <1>5, <1>6, <1>7, <1>8, <1>9, <1>10, <1>11, <1>12,
     <1>13, <1>14, <1>15, <1>16, <1>17, <1>18, <1>19, <1>20 DEF Next, Worker, Owner

-----------------------------------------------------------------------------
(* The safety theorems.                                                     *)

\* The invariant is inductive, so it holds in every reachable state.
THEOREM Inductive == Spec => []IInv
<1>1. Init => IInv
  <2> SUFFICES ASSUME Init PROVE IInv
    OBVIOUS
  <2>1. TypeOK
    BY WorkerAssumption DEF Init, TypeOK
  <2> QED
    BY <2>1 DEF Init, IInv, PassPhase, PassHoldsOpenRows, Held, SendsAccounted,
                AttemptsAccounted, FollowUpsNewer
<1>2. IInv /\ [Next]_vars => IInv'
  BY TypeStep, PassStep, SendsStep, AttemptsStep, FollowUpsStep DEF IInv
<1> QED
  BY <1>1, <1>2, PTL DEF Spec

\* A pass only ever holds open rows, each in one batch (PassHoldsOpenRows):
\* the ids read by due_rows stay valid across every await of the pass.
THEOREM PassHoldsOpenRowsAlways == Spec => []PassHoldsOpenRows
  BY Inductive, PTL DEF IInv

\* A reminder is accepted by its channel at most once more than the process
\* stopped, a write failed or an answer was lost (SendsBounded).
THEOREM AtMostOnePerFault == Spec => []SendsBounded
<1>1. IInv => SendsBounded
  <2> SUFFICES ASSUME IInv, NEW i \in DOMAIN outbox PROVE outbox[i].sends <= faults + lost + 1
    BY DEF SendsBounded
  <2>1. outbox[i] \in Row /\ faults \in Nat /\ lost \in Nat
    BY WorkerAssumption DEF IInv, TypeOK
  <2>2. outbox[i].sends \in Nat
    BY <2>1, Zenon DEF Row
  <2> QED
    BY <2>1, <2>2 DEF IInv, SendsAccounted
<1> QED
  BY <1>1, Inductive, PTL

\* A row is attempted at most max_attempts times, plus once per fault
\* (AttemptsBounded).
THEOREM AttemptsLimited == Spec => []AttemptsBounded
<1>1. IInv => AttemptsBounded
  BY DEF IInv, AttemptsAccounted, AttemptsBounded
<1> QED
  BY <1>1, Inductive, PTL

\* The follow-up of a snooze is always a new row (SnoozeKeyFree), although
\* SQLite hands out the ids of pruned rows again.
THEOREM SnoozeNeverDuplicate == Spec => []SnoozeKeyFree
<1>1. IInv => SnoozeKeyFree
  BY DEF IInv, TypeOK, FollowUpsNewer, SnoozeKeyFree, KeyTaken
<1> QED
  BY <1>1, Inductive, PTL

\* A delivered row stays delivered for as long as the table keeps it.
LEMMA DeliveredStep ==
  ASSUME IInv, [Next]_vars, NEW i \in DOMAIN outbox, i \in DOMAIN outbox',
         outbox[i].state = "delivered"
  PROVE  outbox'[i].state = "delivered"
<1>a. outbox[i] \in Row /\ passAge \in Nat
  BY WorkerAssumption DEF IInv, TypeOK
<1>b. i \notin batch /\ \A b \in todo : i \notin b
  BY DEF IInv, PassHoldsOpenRows, Held, Finished
<1>1. CASE StartPass
  BY <1>1 DEF StartPass, Pruned
<1>2. CASE TakeDue \/ EndPass \/ Crash \/ UNCHANGED vars \/ \E b \in todo : Hold(b)
  BY <1>2 DEF TakeDue, EndPass, Crash, vars, Hold
<1>3. CASE \E b \in todo : Lease(b)
  BY <1>3, <1>b DEF Lease, Edit
<1>4. CASE AnswerLost \/ \E a \in Answers : Deliver(a)
  BY <1>4, <1>b DEF AnswerLost, Deliver, Edit
<1>5. CASE MarkAccepted \/ MarkDead \/ MarkRetry \/ Release
  BY <1>5, <1>b DEF MarkAccepted, MarkDead, MarkRetry, Release, Edit
<1>6. CASE \E done \in SUBSET batch : ReleaseSome(done)
  BY <1>6, <1>b DEF ReleaseSome, Edit
<1>7. CASE \E k \in SourceKeys, t \in Targets, rank \in 0 .. MaxRank,
           fresh \in {0, LateTicks} : Enqueue(k, t, rank, fresh)
  BY <1>7, InsertKeeps DEF Enqueue, IInv, TypeOK
<1>8. ASSUME NEW id \in Ids, NEW r \in {"completed", "dismissed"}, Resolve(id, r)
      PROVE  outbox'[i].state = "delivered"
  BY <1>8, <1>a, EditFields DEF Resolve, Resolutions
<1>9. ASSUME NEW id \in Ids, Snooze(id) PROVE outbox'[i].state = "delivered"
  <2> DEFINE claimed == [outbox EXCEPT ![id] = Resolved(@, "snoozed")]
  <2>0. PICK next \in Ids :
           IsNextId(outbox, next) /\ outbox' = Insert(claimed, next, FollowUp(id))
    BY <1>9 DEF Snooze
  <2>1. DOMAIN claimed = DOMAIN outbox /\ claimed[i].state = "delivered"
    BY <1>a, EditFields DEF Resolutions, IInv, TypeOK
  <2> HIDE DEF claimed
  <2>2. DOMAIN claimed \subseteq Ids /\ IsNextId(claimed, next)
    BY <2>0, <2>1 DEF IInv, TypeOK, IsNextId
  <2>3. outbox'[i] = claimed[i]
    BY <2>0, <2>1, <2>2, InsertKeeps
  <2> QED
    BY <2>1, <2>3
<1>10. ASSUME NEW id \in Ids, Ack(id) PROVE outbox'[i].state = "delivered"
  BY <1>10, <1>a DEF Ack, Row
<1>11. ASSUME NEW id \in Ids, Retry(id) PROVE outbox'[i].state = "delivered"
  BY <1>11 DEF Retry
<1>12. CASE Tick
  BY <1>12, <1>a, EditFields DEF Tick, Edit
<1> QED
  BY <1>1, <1>2, <1>3, <1>4, <1>5, <1>6, <1>7, <1>8, <1>9, <1>10, <1>11, <1>12
     DEF Next, Worker, Owner

\* Nothing opens a delivered row again (DeliveredIsFinal): the unconditional
\* UPDATEs of the pass never meet one, since a pass holds open rows only.
THEOREM DeliveredForGood == Spec => DeliveredIsFinal
<1>1. IInv /\ [Next]_vars =>
        [\A i \in DOMAIN outbox \cap DOMAIN outbox' :
            outbox[i].state = "delivered" => outbox'[i].state = "delivered"]_vars
  BY DeliveredStep
<1> QED
  BY <1>1, Inductive, PTL DEF Spec, DeliveredIsFinal

\* A resolved row that no batch holds is not picked up by the next step.
LEMMA QuietStep ==
  ASSUME IInv, [Next]_vars, NEW i \in DOMAIN outbox, i \in DOMAIN outbox',
         outbox[i].resolution # "none", i \notin Held
  PROVE  i \notin Held' /\ outbox'[i].attempts <= outbox[i].attempts
<1>a. outbox[i] \in Row /\ passAge \in Nat
  BY WorkerAssumption DEF IInv, TypeOK
<1>b. i \notin batch /\ \A b \in todo : i \notin b
  BY DEF Held
<1>c. outbox[i].attempts \in Nat
  BY <1>a, Zenon DEF Row
<1>d. ASSUME batch' \subseteq Held, UNION todo' \subseteq Held,
             outbox'[i].attempts = outbox[i].attempts
      PROVE  i \notin Held' /\ outbox'[i].attempts <= outbox[i].attempts
  BY <1>c, <1>d DEF Held
<1>1. CASE StartPass
  BY <1>1, <1>d DEF StartPass, Pruned, Held
<1>2. CASE TakeDue
  <2>1. PICK slice \in CatchupSlices(outbox) :
           todo' = Batches(outbox, DueNormal(outbox) \cup slice)
    BY <1>2 DEF TakeDue
  <2>2. i \notin DueNormal(outbox) \cup slice
    BY DEF CatchupSlices, DueNormal, DueCatchup, Due
  <2>3. i \notin UNION todo'
    BY <2>1, <2>2, BatchesPartition
  <2>4. outbox' = outbox /\ batch' = batch
    BY <1>2 DEF TakeDue
  <2>5. i \notin Held'
    BY <2>3, <2>4, <1>b DEF Held
  <2> QED
    BY <2>4, <2>5, <1>c
<1>3. CASE EndPass \/ Crash \/ UNCHANGED vars \/ \E b \in todo : Hold(b)
  BY <1>3, <1>d DEF EndPass, Crash, Idle, vars, passVars, Hold, Held
<1>4. CASE \E b \in todo : Lease(b)
  BY <1>4, <1>b, <1>d DEF Lease, Edit, Held
<1>5. CASE AnswerLost \/ \E a \in Answers : Deliver(a)
  BY <1>5, <1>b, <1>d DEF AnswerLost, Deliver, Edit, Held
<1>6. CASE MarkAccepted \/ MarkDead \/ MarkRetry \/ Release
  BY <1>6, <1>b, <1>d DEF MarkAccepted, MarkDead, MarkRetry, Release, Settle, Edit, Held
<1>7. CASE \E done \in SUBSET batch : ReleaseSome(done)
  BY <1>7, <1>b, <1>d DEF ReleaseSome, Idle, Edit, Held
<1>8. CASE \E k \in SourceKeys, t \in Targets, rank \in 0 .. MaxRank,
           fresh \in {0, LateTicks} : Enqueue(k, t, rank, fresh)
  BY <1>8, <1>d, InsertKeeps DEF Enqueue, passVars, IInv, TypeOK, Held
<1>9. ASSUME NEW id \in Ids, NEW r \in {"completed", "dismissed"}, Resolve(id, r)
      PROVE  i \notin Held' /\ outbox'[i].attempts <= outbox[i].attempts
  BY <1>9, <1>a, <1>d, EditFields DEF Resolve, Resolutions, passVars, Held
<1>10. ASSUME NEW id \in Ids, Snooze(id)
       PROVE  i \notin Held' /\ outbox'[i].attempts <= outbox[i].attempts
  <2> DEFINE claimed == [outbox EXCEPT ![id] = Resolved(@, "snoozed")]
  <2>0. PICK next \in Ids :
           IsNextId(outbox, next) /\ outbox' = Insert(claimed, next, FollowUp(id))
    BY <1>10 DEF Snooze
  <2>1. DOMAIN claimed = DOMAIN outbox /\ claimed[i].attempts = outbox[i].attempts
    BY <1>a, EditFields DEF Resolutions, IInv, TypeOK
  <2> HIDE DEF claimed
  <2>2. DOMAIN claimed \subseteq Ids /\ IsNextId(claimed, next)
    BY <2>0, <2>1 DEF IInv, TypeOK, IsNextId
  <2>3. outbox'[i] = claimed[i]
    BY <2>0, <2>1, <2>2, InsertKeeps
  <2> QED
    BY <1>10, <2>1, <2>3, <1>d DEF Snooze, passVars, Held
<1>11. ASSUME NEW id \in Ids, Ack(id)
       PROVE  i \notin Held' /\ outbox'[i].attempts <= outbox[i].attempts
  BY <1>11, <1>a, <1>d DEF Ack, Row, passVars, Held
<1>12. ASSUME NEW id \in Ids, Retry(id)
       PROVE  i \notin Held' /\ outbox'[i].attempts <= outbox[i].attempts
  BY <1>12, <1>a, <1>c, <1>b, EditFields DEF Retry, passVars, Held
<1>13. CASE Tick
  BY <1>13, <1>a, <1>d, EditFields DEF Tick, Edit, Held
<1> QED
  BY <1>1, <1>2, <1>3, <1>4, <1>5, <1>6, <1>7, <1>8, <1>9, <1>10, <1>11, <1>12, <1>13
     DEF Next, Worker, Owner

\* What the owner has resolved, no later pass sends (ResolvedStaysQuiet).
THEOREM ResolvedQuiet == Spec => ResolvedStaysQuiet
<1>1. IInv /\ [Next]_vars =>
        [\A i \in DOMAIN outbox \cap DOMAIN outbox' :
            outbox[i].resolution # "none" /\ i \notin Held
            => /\ i \notin Held'
               /\ outbox'[i].attempts <= outbox[i].attempts]_vars
  BY QuietStep
<1> QED
  BY <1>1, Inductive, PTL DEF Spec, ResolvedStaysQuiet
=============================================================================
