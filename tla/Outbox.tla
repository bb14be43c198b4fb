------------------------------- MODULE Outbox -------------------------------
(***************************************************************************)
(* The durable reminder outbox (crates/outbox) at work: enqueuers insert   *)
(* rows, one worker (daemon/src/reminders/enqueue.rs, spawn_worker) sends  *)
(* them pass by pass (pass.rs, run_pass), the owner resolves, snoozes,     *)
(* acks and retries rows through the API at any moment, and the process    *)
(* may stop between any two steps.  Every step is one lock of the database *)
(* connection or one answer of a channel.                                  *)
(***************************************************************************)
EXTENDS OutboxRows

CONSTANTS
    Answers,    \* what a channel may answer (DeliveryOutcome)
    MaxFaults,  \* bound on stops and failed writes
    MaxLost,    \* bound on answers lost after the channel took a batch
    Horizon     \* age of a pass beyond which its stamps are all reached

ASSUME WorkerAssumption ==
    /\ Answers \subseteq {"accepted", "gone", "retryable", "unconfigured"}
    /\ MaxFaults \in Nat
    /\ MaxLost \in Nat
    /\ Horizon \in Nat

VARIABLES
    outbox,   \* the table: a function from row ids to rows
    ready,    \* the targets DeliverySink::readiness accepts
    pc,       \* where run_pass is
    passAge,  \* ticks since the `now` the pass runs with
    todo,     \* batches the pass has still to apply
    batch,    \* the rows of the batch being applied
    answer,   \* what the channel answered for it
    faults,   \* history: stops and failed writes so far
    lost      \* history: answers lost so far

passVars == <<pc, passAge, todo, batch, answer>>
vars == <<outbox, ready, passVars, faults, lost>>

Held == batch \cup UNION todo
Idle == pc' = "idle" /\ todo' = {} /\ batch' = {} /\ answer' = "none" /\ passAge' = 0

Init ==
    /\ outbox = [i \in {} |-> {}]
    /\ ready \in SUBSET Targets
    /\ pc = "idle" /\ passAge = 0
    /\ todo = {} /\ batch = {} /\ answer = "none"
    /\ faults = 0 /\ lost = 0

-----------------------------------------------------------------------------
(* The worker.                                                              *)

StartPass ==
    /\ pc = "idle"
    /\ outbox' = Pruned(outbox)
    /\ pc' = "pruned"
    /\ UNCHANGED <<ready, passAge, todo, batch, answer, faults, lost>>

TakeDue ==
    /\ pc = "pruned"
    /\ \E slice \in CatchupSlices(outbox) :
          todo' = Batches(outbox, DueNormal(outbox) \cup slice)
    /\ pc' = "draining"
    /\ UNCHANGED <<outbox, ready, passAge, batch, answer, faults, lost>>

\* Mutant: a held batch ends the pass.
HoldEndsPass(b) ==
    /\ pc = "draining" /\ b \in todo
    /\ \E i \in b : outbox[i].target \notin ready
    /\ Idle
    /\ UNCHANGED <<outbox, ready, faults, lost>>

\* readiness() refuses: note() records why and the rows stay as they are.
Hold(b) ==
    /\ pc = "draining" /\ b \in todo
    /\ \E i \in b : outbox[i].target \notin ready
    /\ todo' = todo \ {b}
    /\ UNCHANGED <<outbox, ready, pc, passAge, batch, answer, faults, lost>>

Lease(b) ==
    /\ pc = "draining" /\ b \in todo
    /\ \A i \in b : outbox[i].target \in ready
    /\ LET Change(row) == Leased(row, passAge)
       IN  outbox' = Edit(outbox, b, Change)
    /\ pc' = "sending" /\ batch' = b /\ todo' = todo \ {b}
    /\ UNCHANGED <<ready, passAge, answer, faults, lost>>

\* The await of deliver() returns; the table is untouched until the mark.
Deliver(a) ==
    /\ pc = "sending"
    /\ outbox' = IF a = "accepted" THEN Edit(outbox, batch, Sent) ELSE outbox
    /\ pc' = "answered" /\ answer' = a
    /\ UNCHANGED <<ready, passAge, todo, batch, faults, lost>>

\* The channel took the batch, and its answer did not arrive in time or was not
\* understood: deliver() makes of it a Retryable like any other.
AnswerLost ==
    /\ pc = "sending" /\ "retryable" \in Answers
    /\ lost < MaxLost
    /\ outbox' = Edit(outbox, batch, Sent)
    /\ pc' = "answered" /\ answer' = "retryable"
    /\ lost' = lost + 1
    /\ UNCHANGED <<ready, passAge, todo, batch, faults>>

Settle ==
    /\ pc' = "draining" /\ batch' = {} /\ answer' = "none"
    /\ UNCHANGED <<ready, passAge, todo, faults, lost>>

MarkAccepted ==
    /\ pc = "answered" /\ answer = "accepted"
    /\ LET Change(row) == Accepted(row, passAge)
       IN  outbox' = Edit(outbox, batch, Change)
    /\ Settle

MarkDead ==
    /\ pc = "answered" /\ answer = "gone"
    /\ LET Change(row) == Dead(row, passAge)
       IN  outbox' = Edit(outbox, batch, Change)
    /\ Settle

MarkRetry ==
    /\ pc = "answered" /\ answer = "retryable"
    /\ \E jitter \in [batch -> 0 .. BackoffTicks] :
          /\ \A i \in batch : jitter[i] \in Backoff(outbox[i].attempts)
          /\ outbox' = [i \in DOMAIN outbox |->
                            IF i \in batch
                            THEN Retried(outbox[i], passAge, jitter[i])
                            ELSE outbox[i]]
    /\ Settle

Release ==
    /\ pc = "answered" /\ answer = "unconfigured"
    /\ outbox' = Edit(outbox, batch, Released)
    /\ Settle

\* release() has no transaction: a failed write leaves the earlier rows released.
ReleaseSome(done) ==
    /\ pc = "answered" /\ answer = "unconfigured"
    /\ faults < MaxFaults
    /\ outbox' = Edit(outbox, done, Released)
    /\ Idle
    /\ faults' = faults + 1
    /\ UNCHANGED <<ready, lost>>

EndPass ==
    /\ pc = "draining" /\ todo = {}
    /\ Idle
    /\ UNCHANGED <<outbox, ready, faults, lost>>

\* The process stops and restarts, maybe with other channels configured, or a
\* database error ends the pass early.  What was committed stays.
Crash ==
    /\ faults < MaxFaults
    /\ Idle
    /\ ready' \in SUBSET Targets
    /\ faults' = faults + 1
    /\ UNCHANGED <<outbox, lost>>

-----------------------------------------------------------------------------
(* Enqueuers and the owner.                                                 *)

Enqueue(k, t, rank, fresh) ==
    /\ \E id \in Ids :
          /\ IsNextId(outbox, id)
          /\ outbox' = Insert(outbox, id, NewRow(SourceKey(k), t, rank, 0, fresh))
    /\ UNCHANGED <<ready, passVars, faults, lost>>

Resolve(id, resolution) ==
    /\ id \in DOMAIN outbox /\ outbox[id].resolution = "none"
    /\ outbox' = [outbox EXCEPT ![id] = Resolved(@, resolution)]
    /\ UNCHANGED <<ready, passVars, faults, lost>>

FollowUp(id) ==
    NewRow(SnoozeKey(id), outbox[id].target, 0, SnoozeTicks, SnoozeTicks + LateTicks)

Snooze(id) ==
    /\ id \in DOMAIN outbox /\ outbox[id].resolution = "none"
    /\ \E next \in Ids :
          /\ IsNextId(outbox, next)
          /\ outbox' = Insert([outbox EXCEPT ![id] = Resolved(@, "snoozed")],
                              next, FollowUp(id))
    /\ UNCHANGED <<ready, passVars, faults, lost>>

\* Only a device that was sent the row knows its token.
Ack(id) ==
    /\ id \in DOMAIN outbox /\ outbox[id].sends > 0
    /\ outbox' = [outbox EXCEPT ![id].acked = TRUE]
    /\ UNCHANGED <<ready, passVars, faults, lost>>

Retry(id) ==
    /\ id \in DOMAIN outbox /\ outbox[id].state \in {"dead", "failed"}
    /\ outbox' = [outbox EXCEPT ![id] = Reopened(@)]
    /\ UNCHANGED <<ready, passVars, faults, lost>>

\* Prune and due_rows read one `now` and nothing is awaited between them.
Tick ==
    /\ pc # "pruned"
    /\ outbox' = Edit(outbox, DOMAIN outbox, Aged)
    /\ passAge' = IF pc = "idle" \/ passAge = Horizon THEN passAge ELSE passAge + 1
    /\ UNCHANGED <<ready, pc, todo, batch, answer, faults, lost>>

-----------------------------------------------------------------------------
Worker ==
    \/ StartPass \/ TakeDue \/ EndPass
    \/ \E b \in todo : Hold(b) \/ Lease(b)
    \/ \E a \in Answers : Deliver(a)
    \/ MarkAccepted \/ MarkDead \/ MarkRetry \/ Release

Owner ==
    \E id \in Ids :
        \/ \E resolution \in {"completed", "dismissed"} : Resolve(id, resolution)
        \/ Snooze(id) \/ Ack(id) \/ Retry(id)

Next ==
    \/ Worker
    \/ \E done \in SUBSET batch : ReleaseSome(done)
    \/ AnswerLost
    \/ Crash
    \/ Owner
    \/ \E k \in SourceKeys, t \in Targets, rank \in 0 .. MaxRank,
          fresh \in {0, LateTicks} :
          (rank > 0 => fresh = 0) /\ Enqueue(k, t, rank, fresh)
    \/ Tick

Spec == Init /\ [][Next]_vars

\* The loop never stops, a channel call has a timeout, and time passes (strong
\* fairness, because Tick is disabled for the moment between prune and due_rows).
FairSpec == Spec /\ WF_vars(Worker) /\ SF_vars(Tick)

-----------------------------------------------------------------------------
(* Correctness.                                                             *)

\* Type invariant of the table, the configuration and the pass.
TypeOK ==
    /\ DOMAIN outbox \subseteq Ids
    /\ outbox \in [DOMAIN outbox -> Row]
    /\ ready \subseteq Targets
    /\ pc \in {"idle", "pruned", "draining", "sending", "answered"}
    /\ passAge \in 0 .. Horizon
    /\ todo \subseteq SUBSET Ids
    /\ batch \subseteq Ids
    /\ answer \in Answers \cup {"none"}
    /\ faults \in 0 .. MaxFaults
    /\ lost \in 0 .. MaxLost

\* A pass works on rows that are really there and really open: each id it
\* still holds names an unfinished row with its token, in one batch only, so
\* no row is sent twice in a pass, and only the row of the batch being sent
\* is under its lease (pass.rs works from the ids due_rows read long before).
PassHoldsOpenRows ==
    /\ Held \subseteq {i \in DOMAIN outbox : outbox[i].state \notin Finished /\ outbox[i].token}
    /\ \A b \in todo : b \cap batch = {}
    /\ \A b, c \in todo : b # c => b \cap c = {}
    /\ \A i \in batch : outbox[i].state = "delivering"

\* A channel accepts a reminder once, and once more at most for each stop that
\* came between the answer and mark_accepted (run_pass records it afterwards),
\* and for each answer that was lost (deliver() says Retryable, and the row is
\* sent again although it was accepted).
SendsBounded == \A i \in DOMAIN outbox : outbox[i].sends <= faults + lost + 1

\* A row is attempted max_attempts times before it is dead, and once more at
\* most for each stop: lease() counts the attempt, only mark_retry checks it.
AttemptsBounded ==
    \A i \in DOMAIN outbox : outbox[i].attempts <= MaxAttempts + faults

\* While a row is unresolved its snooze/{id} key is free, so the follow-up of
\* owner_snooze is always a new row and never the "Duplicate" of an older one,
\* though prune lets SQLite give an id out again.
SnoozeKeyFree ==
    \A i \in DOMAIN outbox :
        outbox[i].resolution = "none" => ~KeyTaken(outbox, SnoozeKey(i))

\* What prune has not removed yet stays delivered: nothing in the pass or the
\* API opens a delivered row again.
DeliveredIsFinal ==
    [][\A i \in DOMAIN outbox \cap DOMAIN outbox' :
            outbox[i].state = "delivered" => outbox'[i].state = "delivered"]_vars

\* A row the owner resolved is attempted only by the pass that had read it
\* before: no later pass picks it up.
ResolvedStaysQuiet ==
    [][\A i \in DOMAIN outbox \cap DOMAIN outbox' :
            outbox[i].resolution # "none" /\ i \notin Held
            => /\ i \notin Held'
               /\ outbox'[i].attempts <= outbox[i].attempts]_vars

Open(i) == outbox[i].token /\ outbox[i].resolution = "none"

\* The catch-up rows no pass sends, which take the quota before row i.
Ahead(i) ==
    {j \in DOMAIN outbox \ {i} :
        /\ Open(j) /\ outbox[j].target \notin ready
        /\ outbox[j].rank \in 1 .. outbox[i].rank}

\* A row the passes come to, for a target that can be reached.
Deliverable(i) ==
    /\ i \in DOMAIN outbox /\ Open(i) /\ outbox[i].target \in ready
    /\ outbox[i].rank > 0 => Cardinality(Ahead(i)) < MaxCatchup

\* The owner presses retry, or another catch-up row comes in.
Renews ==
    \/ \E i \in Ids : Retry(i)
    \/ \E k \in SourceKeys, t \in Targets, rank \in 1 .. MaxRank : Enqueue(k, t, rank, 0)

\* Every such row is settled: sent, given up, resolved, no longer reachable, or
\* behind a quota of held rows, unless rows are renewed for ever.
Settles == <>[][~Renews]_vars => \A i \in Ids : Deliverable(i) ~> ~Deliverable(i)
=============================================================================
