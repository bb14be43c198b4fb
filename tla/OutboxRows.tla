----------------------------- MODULE OutboxRows -----------------------------
(***************************************************************************)
(* The reminder table of crates/outbox as a value: one record per row, and *)
(* what each SQL statement of rows.rs and row_detail.rs makes of it.       *)
(*                                                                         *)
(* A stamp is kept as the ticks that remain until it matters (`wait` for   *)
(* next_attempt_at, `lease` for lease_until, `fresh` until the row counts  *)
(* as late, `kept` until finished_at is past retention); 0 means the stamp *)
(* is reached.  The code only ever compares a stamp with the present, so   *)
(* no clock value is needed.  A statement that writes a stamp from the     *)
(* `now` of a pass that began `age` ticks ago writes that much less.       *)
(* Titles, bodies, last_error and source_json are left out.                *)
(***************************************************************************)
EXTENDS Naturals, FiniteSets

CONSTANTS
    SourceKeys,    \* idempotency keys the enqueuers use
    Targets,       \* (channel, target) pairs a row is addressed to
    MaxRowId,      \* bound on the row ids of one behaviour
    MaxRank,       \* bound on the distinct due times of catch-up rows
    MaxAttempts,   \* [reminders] max_attempts
    MaxCatchup,    \* [reminders] max_catchup_per_boot
    DigestOver,    \* a group of more overdue rows than this is one digest
    LeaseTicks,    \* a lease, 2 minutes in the code
    BackoffTicks,  \* largest backoff, 3600 seconds in the code
    LateTicks,     \* age at which a row counts as late, 5 minutes
    KeepTicks,     \* retention of a finished row, 30 days
    SnoozeTicks    \* how far ahead a snooze schedules the follow-up

ASSUME TableAssumption ==
    /\ MaxRowId \in Nat /\ MaxRank \in Nat /\ MaxCatchup \in Nat /\ DigestOver \in Nat
    /\ LeaseTicks \in Nat /\ BackoffTicks \in Nat /\ LateTicks \in Nat
    /\ KeepTicks \in Nat /\ SnoozeTicks \in Nat
    /\ MaxAttempts \in Nat \ {0}

Ids == 1 .. MaxRowId

\* UNIQUE idempotency_key: an enqueuer's key, or snooze/{id}.
SourceKey(k) == [tag |-> "source", name |-> k]
SnoozeKey(id) == [tag |-> "snooze", name |-> id]
Keys == [tag : {"source"}, name : SourceKeys] \cup [tag : {"snooze"}, name : Ids]

Finished == {"delivered", "dead"}
Resolutions == {"completed", "dismissed", "snoozed"}

Row == [ key        : Keys,
         target     : Targets,
         rank       : Nat,       \* 0: catch_up = 0; else the order of due_at
         state      : {"pending", "delivering", "failed"} \cup Finished,
         attempts   : Nat,
         wait       : Nat,
         lease      : Nat,
         fresh      : Nat,
         kept       : Nat,
         token      : BOOLEAN,   \* ack_token IS NOT NULL
         acked      : BOOLEAN,
         resolution : Resolutions \cup {"none"},
         sends      : Nat ]      \* history: times a channel accepted the row

\* Mutant: the floor at zero is lost.
LessUnfloored(ticks, age) == ticks - age

Less(ticks, age) == IF ticks > age THEN ticks - age ELSE 0

-----------------------------------------------------------------------------
(* INSERT OR IGNORE, and the id SQLite gives the row: no AUTOINCREMENT, so  *)
(* one more than the largest id still in the table.                         *)

NewRow(key, target, rank, wait, fresh) ==
    [ key |-> key, target |-> target, rank |-> rank, state |-> "pending",
      attempts |-> 0, wait |-> wait, lease |-> 0, fresh |-> fresh, kept |-> 0,
      token |-> TRUE, acked |-> FALSE, resolution |-> "none", sends |-> 0 ]

\* Mutant: ids of deleted rows are filled in.
IsFreeId(rows, id) == id \notin DOMAIN rows

IsNextId(rows, id) ==
    /\ \A i \in DOMAIN rows : i < id
    /\ id = 1 \/ id - 1 \in DOMAIN rows

KeyTaken(rows, key) == \E i \in DOMAIN rows : rows[i].key = key

Insert(rows, id, row) ==
    IF KeyTaken(rows, row.key)
    THEN rows
    ELSE [i \in DOMAIN rows \cup {id} |-> IF i = id THEN row ELSE rows[i]]

Edit(rows, ids, Change(_)) ==
    [i \in DOMAIN rows |-> IF i \in ids THEN Change(rows[i]) ELSE rows[i]]

-----------------------------------------------------------------------------
(* The UPDATEs.                                                             *)

Leased(row, age) ==
    [row EXCEPT !.state = "delivering", !.attempts = @ + 1,
                !.lease = Less(LeaseTicks, age)]

Released(row) ==
    [row EXCEPT !.state = "pending", !.attempts = Less(@, 1), !.lease = 0]

\* History: the channel took the row.
Sent(row) == [row EXCEPT !.sends = @ + 1]

\* Mutant: only the receipt is recorded, the state is left for later.
AcceptedReceiptOnly(row, age) == row

Accepted(row, age) ==
    [row EXCEPT !.state = "delivered", !.lease = 0, !.token = FALSE,
                !.kept = Less(KeepTicks, age)]

Dead(row, age) ==
    [row EXCEPT !.state = "dead", !.lease = 0, !.token = FALSE,
                !.kept = Less(KeepTicks, age)]

\* backoff_secs draws uniformly below a cap that doubles with every attempt.
Backoff(attempts) == {b \in 0 .. BackoffTicks : b <= 2 ^ (attempts - 1)}

Retried(row, age, jitter) ==
    IF row.attempts >= MaxAttempts
    THEN Dead(row, age)
    ELSE [row EXCEPT !.state = "failed", !.lease = 0, !.wait = Less(jitter, age)]

Reopened(row) ==
    [row EXCEPT !.state = "pending", !.attempts = 0, !.wait = 0, !.lease = 0,
                !.kept = 0]

Resolved(row, resolution) ==
    [row EXCEPT !.resolution = resolution, !.acked = TRUE]

Aged(row) ==
    [row EXCEPT !.wait = Less(@, 1), !.lease = Less(@, 1),
                !.fresh = Less(@, 1), !.kept = Less(@, 1)]

-----------------------------------------------------------------------------
(* The reads of a pass.                                                     *)

Expired(row) == row.state \in Finished /\ row.kept = 0

Pruned(rows) == [i \in {j \in DOMAIN rows : ~Expired(rows[j])} |-> rows[i]]

\* Mutants: resolved rows are picked; a lapsed lease is not.
DueThoughResolved(row) ==
    /\ row.token
    /\ \/ row.state \in {"pending", "failed"} /\ row.wait = 0
       \/ row.state = "delivering" /\ row.lease = 0

DueUnlessLeased(row) ==
    /\ row.token
    /\ row.resolution = "none"
    /\ row.state \in {"pending", "failed"} /\ row.wait = 0

Due(row) ==
    /\ row.token
    /\ row.resolution = "none"
    /\ \/ row.state \in {"pending", "failed"} /\ row.wait = 0
       \/ row.state = "delivering" /\ row.lease = 0

DueNormal(rows) == {i \in DOMAIN rows : Due(rows[i]) /\ rows[i].rank = 0}
DueCatchup(rows) == {i \in DOMAIN rows : Due(rows[i]) /\ rows[i].rank > 0}

\* The catch-up rows a pass may take: the MaxCatchup with the earliest due_at.
CatchupSlices(rows) ==
    LET late == DueCatchup(rows)
    IN  {S \in SUBSET late :
            /\ Cardinality(S) <= MaxCatchup
            /\ S = late \/ Cardinality(S) = MaxCatchup
            /\ \A i \in S, j \in late \ S : rows[i].rank <= rows[j].rank}

Overdue(row) == row.rank > 0 \/ row.fresh = 0

OverdueFor(rows, ids, t) == {i \in ids : rows[i].target = t /\ Overdue(rows[i])}

\* coalesce: one digest per target with many overdue rows, the rest singly.
Digests(rows, ids) ==
    {g \in {OverdueFor(rows, ids, t) : t \in Targets} : Cardinality(g) > DigestOver}

\* Mutant: the rows of a digest are sent singly too.
BatchesTwice(rows, ids) == Digests(rows, ids) \cup {{i} : i \in ids}

Batches(rows, ids) ==
    Digests(rows, ids) \cup {{i} : i \in ids \ UNION Digests(rows, ids)}
=============================================================================
