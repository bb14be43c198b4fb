------------------------------ MODULE ChatTurns ------------------------------
(***************************************************************************)
(* The turns of one conversation (crates/main-agent: sessions.rs, with     *)
(* cancel_cascade.rs and turn_failure.rs) over its log of messages.  A     *)
(* message is a node that names its parent; what a reader is shown is the  *)
(* path from the newest node to the root.  A hosted turn is a detached     *)
(* task with an entry in the running map, which a cancel finds there; a    *)
(* direct turn (POST /api/chat) is dropped with its request.  Turns take   *)
(* the session lock; the notes that other parts of the daemon fold into    *)
(* the conversation do not.  Every action runs from one await to the next. *)
(***************************************************************************)
EXTENDS Integers, FiniteSets, SequencesExt

CONSTANTS
    Hosted,       \* turns start_or_attach spawns
    Direct,       \* turns a request runs itself
    Notes,        \* writers of append_note and set_profile
    NoTurn,
    History,      \* the kinds of the messages the conversation begins with
    MaxRestarts   \* bound on restarts of the daemon

ASSUME ChatAssumption ==
    /\ Hosted \cap Direct = {} /\ (Hosted \cup Direct) \cap Notes = {}
    /\ NoTurn \notin Hosted \cup Direct \cup Notes
    /\ MaxRestarts \in Nat

Kinds == {"system", "user", "call", "result", "reply", "error", "note", "marker", "copy"}

\* What turns before these may have left: never a result without its call.
ASSUME HistoryAssumption ==
    /\ History \in Seq(Kinds \ {"marker", "copy"}) /\ History # <<>>
    /\ \A k \in DOMAIN History : History[k] = "result" =>
          \E j \in 1 .. k - 1 :
              History[j] = "call" /\ \A m \in j + 1 .. k : History[m] # "user"

Turns == Hosted \cup Direct

VARIABLES
    log,        \* the nodes, oldest first; a node's id is its place
    running,    \* the running map's entry for this conversation
    handle,     \* each entry's abort handle: none, due (spawned, not stored yet), set
    aborted,    \* turns whose future is to be dropped
    lock,       \* who holds the session lock
    queue,      \* who waits for it, in order
    pc,         \* where each turn is
    parent,     \* the node each turn's next message hangs off
    keep,       \* the nodes each turn's compaction has still to copy
    tail,       \* what each turn has still to persist of its answer
    notePc, noteParent,
    restarts

entryVars == <<running, handle, aborted>>
lockVars == <<lock, queue>>
turnVars == <<parent, keep, tail>>
noteVars == <<notePc, noteParent>>
vars == <<log, entryVars, lockVars, pc, turnVars, noteVars, restarts>>

Places ==
    {"none", "spawned", "waiting", "loading", "summarizing", "marking", "copying",
     "asking", "thinking", "noting", "noted", "writing", "ending", "flushing",
     "retiring", "done", "gone"}
Locked ==   \* with the session lock held
    {"loading", "summarizing", "marking", "copying", "asking", "thinking", "noting",
     "noted", "writing", "ending"}
InModel == {"thinking", "summarizing"}
Over == {"none", "done", "gone"}

Answers == {<<"reply">>, <<"call", "result", "reply">>}

-----------------------------------------------------------------------------
(* The log as its readers see it.                                            *)

Leaf == Len(log)

\* leaf_path, as the set of places on it: a parent is always older.
Path ==
    LET up[i \in 0 .. Leaf] == IF i = 0 THEN {} ELSE {i} \cup up[log[i].parent]
    IN  up[Leaf] \cap 1 .. Leaf

Message(i) == IF log[i].kind = "copy" THEN log[i].source ELSE i
IsUser(i) == log[Message(i)].kind = "user"

\* elide_before_latest_marker.
View ==
    LET markers == {i \in Path : log[i].kind = "marker"}
    IN  {i \in Path : i = 1 \/ \A m \in markers : m <= i}

\* Mutant: the boundary counts messages, whoever wrote them.
KeepsNewest == {i \in View : i >= Leaf - 1}

\* The kept tail of elision_boundary, for keep_recent_turns = 1.
Kept == {i \in View : \A u \in View : IsUser(u) => u <= i}

Elidable ==
    /\ Cardinality({u \in View : IsUser(u)}) > 1
    /\ View \ (Kept \cup {1}) # {}

Init ==
    /\ log = [i \in 1 .. Len(History) |->
                 [kind |-> History[i], of |-> NoTurn, parent |-> i - 1, source |-> 0]]
    /\ running = NoTurn /\ handle = [t \in Hosted |-> "none"] /\ aborted = {}
    /\ lock = NoTurn /\ queue = <<>>
    /\ pc = [t \in Turns |-> "none"] /\ parent = [t \in Turns |-> 0]
    /\ keep = [t \in Turns |-> {}] /\ tail = [t \in Turns |-> <<>>]
    /\ notePc = [n \in Notes |-> "none"] /\ noteParent = [n \in Notes |-> 0]
    /\ restarts = 0

Goto(t, place) == pc' = [pc EXCEPT ![t] = place]

-----------------------------------------------------------------------------
(* The running map.                                                          *)

\* start_or_attach, when nothing is registered: it attaches otherwise.
Host(t) ==
    /\ pc[t] = "none" /\ running = NoTurn
    /\ running' = t /\ handle' = [handle EXCEPT ![t] = "due"]
    /\ Goto(t, "spawned")
    /\ UNCHANGED <<log, aborted, lockVars, turnVars, noteVars, restarts>>

\* The handle exists only once the task does.
Arm(t) ==
    /\ handle[t] = "due"
    /\ handle' = [handle EXCEPT ![t] = "set"]
    /\ UNCHANGED <<log, running, aborted, lockVars, pc, turnVars, noteVars, restarts>>

\* Mutant: the entry stays in the map for the task to remove.
CancelKeepsEntry ==
    /\ running # NoTurn
    /\ aborted' = IF handle[running] = "set" THEN aborted \cup {running} ELSE aborted
    /\ UNCHANGED <<log, running, handle, lockVars, pc, turnVars, noteVars, restarts>>

Cancel ==
    /\ running # NoTurn
    /\ running' = NoTurn
    /\ aborted' = IF handle[running] = "set" THEN aborted \cup {running} ELSE aborted
    /\ UNCHANGED <<log, handle, lockVars, pc, turnVars, noteVars, restarts>>

Post(t) ==
    /\ pc[t] = "none" /\ Goto(t, "spawned")
    /\ UNCHANGED <<log, entryVars, lockVars, turnVars, noteVars, restarts>>

\* The client of a direct turn goes away, and its request with it.
Disconnect(t) ==
    /\ pc[t] \notin Over /\ t \notin aborted /\ aborted' = aborted \cup {t}
    /\ UNCHANGED <<log, running, handle, lockVars, pc, turnVars, noteVars, restarts>>

\* The locals of a turn go with it.
Forget(t) ==
    /\ parent' = [parent EXCEPT ![t] = 0] /\ keep' = [keep EXCEPT ![t] = {}]
    /\ tail' = [tail EXCEPT ![t] = <<>>]

Unqueue(t) ==
    IF pc[t] = "waiting"
    THEN \E i \in DOMAIN queue : queue[i] = t /\ queue' = RemoveAt(queue, i)
    ELSE UNCHANGED queue

\* Mutant: the guard of a dropped turn is not.
DropKeepsLock(t) ==
    /\ t \in aborted /\ pc[t] \notin Over \cup {"ending", "retiring"}
    /\ aborted' = aborted \ {t} /\ Goto(t, "gone") /\ Forget(t)
    /\ Unqueue(t)
    /\ UNCHANGED <<log, running, handle, lock, noteVars, restarts>>

\* Mutant: a turn that waits for the lock does not hear the abort.
DropRunning(t) ==
    /\ t \in aborted /\ pc[t] \notin Over \cup {"waiting", "ending", "retiring"}
    /\ aborted' = aborted \ {t} /\ Goto(t, "gone") /\ Forget(t)
    /\ lock' = IF lock = t THEN NoTurn ELSE lock
    /\ UNCHANGED <<log, running, handle, queue, noteVars, restarts>>

\* An abort takes effect at an await; past the last one the turn completes.
Drop(t) ==
    /\ t \in aborted /\ pc[t] \notin Over \cup {"ending", "retiring"}
    /\ aborted' = aborted \ {t} /\ Goto(t, "gone") /\ Forget(t)
    /\ lock' = IF lock = t THEN NoTurn ELSE lock
    /\ Unqueue(t)
    /\ UNCHANGED <<log, running, handle, noteVars, restarts>>

-----------------------------------------------------------------------------
(* A turn: turn and turn_stream.                                             *)

\* Mutant: the turns of one conversation share no lock.
EnterAtOnce(t) ==
    /\ pc[t] = "spawned"
    /\ lock' = t /\ Goto(t, "loading") /\ UNCHANGED queue
    /\ UNCHANGED <<log, entryVars, turnVars, noteVars, restarts>>

Enter(t) ==
    /\ pc[t] = "spawned"
    /\ IF lock = NoTurn /\ queue = <<>>
       THEN lock' = t /\ Goto(t, "loading") /\ UNCHANGED queue
       ELSE queue' = Append(queue, t) /\ Goto(t, "waiting") /\ UNCHANGED lock
    /\ UNCHANGED <<log, entryVars, turnVars, noteVars, restarts>>

Granted(t) ==
    /\ pc[t] = "waiting" /\ t \notin aborted
    /\ lock = NoTurn /\ queue # <<>> /\ Head(queue) = t
    /\ lock' = t /\ queue' = Tail(queue) /\ Goto(t, "loading")
    /\ UNCHANGED <<log, entryVars, turnVars, noteVars, restarts>>

\* load, and maybe_compact up to its summary: the trigger counts tokens.
Load(t) ==
    /\ pc[t] = "loading"
    /\ parent' = [parent EXCEPT ![t] = Leaf]
    /\ \/ Goto(t, "asking") /\ UNCHANGED keep
       \/ Elidable /\ Goto(t, "summarizing") /\ keep' = [keep EXCEPT ![t] = Kept]
    /\ UNCHANGED <<log, entryVars, lockVars, tail, noteVars, restarts>>

Summarized(t) ==
    /\ pc[t] = "summarizing" /\ t \notin aborted
    /\ Goto(t, "marking")
    /\ UNCHANGED <<log, entryVars, lockVars, turnVars, noteVars, restarts>>

NoSummary(t) ==
    /\ pc[t] = "summarizing" /\ t \notin aborted
    /\ Goto(t, "asking") /\ keep' = [keep EXCEPT ![t] = {}]
    /\ UNCHANGED <<log, entryVars, lockVars, parent, tail, noteVars, restarts>>

\* Mutant: the parent is read once the new node is there.
SaysUnderItself(t, kind, source) ==
    /\ log' = Append(log, [kind |-> kind, of |-> t, parent |-> Leaf + 1,
                           source |-> source])
    /\ parent' = [parent EXCEPT ![t] = Leaf + 1]

\* One append of a turn; its next message hangs off it.
Says(t, kind, source) ==
    /\ log' = Append(log, [kind |-> kind, of |-> t, parent |-> parent[t],
                           source |-> source])
    /\ parent' = [parent EXCEPT ![t] = Leaf + 1]

Mark(t) ==
    /\ pc[t] = "marking"
    /\ Says(t, "marker", 0) /\ Goto(t, "copying")
    /\ UNCHANGED <<entryVars, lockVars, keep, tail, noteVars, restarts>>

Copy(t) ==
    /\ pc[t] = "copying"
    /\ \E i \in keep[t] :
          /\ \A j \in keep[t] : i <= j
          /\ Says(t, "copy", Message(i))
          /\ keep' = [keep EXCEPT ![t] = @ \ {i}]
          /\ Goto(t, IF keep[t] = {i} THEN "asking" ELSE "copying")
    /\ UNCHANGED <<entryVars, lockVars, tail, noteVars, restarts>>

\* persist_user_message, before the model is asked.
Ask(t) ==
    /\ pc[t] = "asking"
    /\ Says(t, "user", 0) /\ Goto(t, "thinking")
    /\ UNCHANGED <<entryVars, lockVars, keep, tail, noteVars, restarts>>

Answer(t) ==
    /\ pc[t] = "thinking" /\ t \notin aborted
    /\ \E a \in Answers : tail' = [tail EXCEPT ![t] = a]
    /\ Goto(t, "writing")
    /\ UNCHANGED <<log, entryVars, lockVars, parent, keep, noteVars, restarts>>

Fails(t) ==
    /\ pc[t] = "thinking" /\ t \notin aborted
    /\ Goto(t, "noting")
    /\ UNCHANGED <<log, entryVars, lockVars, turnVars, noteVars, restarts>>

\* turn_failure::record reads the leaf again.
FailureReads(t) ==
    /\ pc[t] = "noting"
    /\ parent' = [parent EXCEPT ![t] = Leaf] /\ Goto(t, "noted")
    /\ UNCHANGED <<log, entryVars, lockVars, keep, tail, noteVars, restarts>>

FailureLands(t) ==
    /\ pc[t] = "noted"
    /\ Says(t, "error", 0) /\ Goto(t, "ending")
    /\ UNCHANGED <<entryVars, lockVars, keep, tail, noteVars, restarts>>

\* persist_tail: one append for each message of the answer.
Persist(t) ==
    /\ pc[t] = "writing"
    /\ Says(t, Head(tail[t]), 0)
    /\ tail' = [tail EXCEPT ![t] = Tail(@)]
    /\ Goto(t, IF Len(tail[t]) = 1 THEN "ending" ELSE "writing")
    /\ UNCHANGED <<entryVars, lockVars, keep, noteVars, restarts>>

\* The turn returns and its guard is dropped.
Returns(t) ==
    /\ pc[t] = "ending"
    /\ lock' = NoTurn /\ Forget(t)
    /\ Goto(t, IF t \in Hosted THEN "flushing" ELSE "done")
    /\ aborted' = IF t \in Hosted THEN aborted ELSE aborted \ {t}
    /\ UNCHANGED <<log, running, handle, queue, noteVars, restarts>>

\* The pump has drained: the last await of a hosted turn.
Flushed(t) ==
    /\ pc[t] = "flushing" /\ Goto(t, "retiring")
    /\ UNCHANGED <<log, entryVars, lockVars, turnVars, noteVars, restarts>>

\* The entry is removed by its key, whoever's entry is there by now.
Retire(t) ==
    /\ pc[t] = "retiring"
    /\ running' = NoTurn /\ Goto(t, "done")
    /\ handle' = [handle EXCEPT ![t] = "none"] /\ aborted' = aborted \ {t}
    /\ UNCHANGED <<log, lockVars, turnVars, noteVars, restarts>>

-----------------------------------------------------------------------------
(* append_note and set_profile: two awaits and no session lock.              *)

NoteReads(n) ==
    /\ notePc[n] = "none"
    /\ notePc' = [notePc EXCEPT ![n] = "read"]
    /\ noteParent' = [noteParent EXCEPT ![n] = Leaf]
    /\ UNCHANGED <<log, entryVars, lockVars, pc, turnVars, restarts>>

NoteLands(n) ==
    /\ notePc[n] = "read"
    /\ notePc' = [notePc EXCEPT ![n] = "done"]
    /\ log' = Append(log, [kind |-> "note", of |-> n, parent |-> noteParent[n],
                           source |-> 0])
    /\ noteParent' = [noteParent EXCEPT ![n] = 0]
    /\ UNCHANGED <<entryVars, lockVars, pc, turnVars, restarts>>

\* The daemon stops and starts: the log is all that is left.
Restart ==
    /\ restarts < MaxRestarts /\ restarts' = restarts + 1
    /\ running' = NoTurn /\ handle' = [t \in Hosted |-> "none"] /\ aborted' = {}
    /\ lock' = NoTurn /\ queue' = <<>>
    /\ pc' = [t \in Turns |-> IF pc[t] \in Over THEN pc[t] ELSE "gone"]
    /\ parent' = [t \in Turns |-> 0] /\ keep' = [t \in Turns |-> {}]
    /\ tail' = [t \in Turns |-> <<>>]
    /\ notePc' = [n \in Notes |-> IF notePc[n] = "read" THEN "lost" ELSE notePc[n]]
    /\ noteParent' = [n \in Notes |-> 0]
    /\ UNCHANGED log

-----------------------------------------------------------------------------
Replies(t) == Summarized(t) \/ NoSummary(t) \/ Answer(t) \/ Fails(t)

Proceeds(t) ==
    \/ Enter(t) \/ Granted(t) \/ Load(t) \/ Mark(t) \/ Copy(t) \/ Ask(t)
    \/ FailureReads(t) \/ FailureLands(t) \/ Persist(t) \/ Returns(t)
    \/ Flushed(t) \/ Retire(t) \/ Drop(t)

Next ==
    \/ \E t \in Turns : Proceeds(t) \/ Replies(t)
    \/ \E t \in Hosted : Host(t) \/ Arm(t)
    \/ \E t \in Direct : Post(t) \/ Disconnect(t)
    \/ Cancel
    \/ \E n \in Notes : NoteReads(n) \/ NoteLands(n)
    \/ Restart

(***************************************************************************)
(* The runtime polls every task that can go on.  The model may never       *)
(* answer: the provider's client has no timeout.                           *)
(***************************************************************************)
Fairness == \A t \in Turns : WF_vars(Proceeds(t))

Spec == Init /\ [][Next]_vars
FairSpec == Spec /\ Fairness

-----------------------------------------------------------------------------
Node == [kind : Kinds, of : Turns \cup Notes \cup {NoTurn}, parent : Nat, source : Nat]

\* Every variable stays in its range, and a node's parent is an older node.
TypeOK ==
    /\ log \in Seq(Node) /\ Len(log) > 0
    /\ \A i \in 1 .. Len(log) : log[i].parent < i /\ log[i].source < i
    /\ running \in Hosted \cup {NoTurn} /\ handle \in [Hosted -> {"none", "due", "set"}]
    /\ aborted \subseteq Turns
    /\ lock \in Turns \cup {NoTurn} /\ queue \in Seq(Turns)
    /\ pc \in [Turns -> Places] /\ parent \in [Turns -> 0 .. Len(log)]
    /\ keep \in [Turns -> SUBSET (1 .. Len(log))]
    /\ tail \in [Turns -> {<<>>} \cup {<<"result", "reply">>} \cup Answers]
    /\ notePc \in [Notes -> {"none", "read", "done", "lost"}]
    /\ noteParent \in [Notes -> 0 .. Len(log)]
    /\ restarts \in 0 .. MaxRestarts

(***************************************************************************)
(* What a turn writes takes nothing another turn wrote off the path: all   *)
(* that lies between a turn's message and the parent it names is notes.    *)
(* This is what the session lock is for, and it has to survive aborts at   *)
(* every await, restarts, compaction and the failure note, which reads     *)
(* the leaf a second time.                                                 *)
(***************************************************************************)
TurnsDontFork ==
    \A j \in 1 .. Len(log) : log[j].of \in Turns =>
        \A k \in log[j].parent + 1 .. j - 1 : log[k].kind = "note"

Own(t) == {i \in 1 .. Len(log) : log[i].of = t}
Newest(S) == {i \in S : \A j \in S : j <= i}
Has(t, kind) == \E i \in Own(t) : log[i].kind = kind

\* What each part of an answer is said under.
Before(t, kind) ==
    CASE kind = "call" -> "user"
      [] kind = "result" -> "call"
      [] OTHER -> IF Has(t, "result") THEN "result" ELSE "user"

(***************************************************************************)
(* A turn that returned left its question, then its whole answer, one      *)
(* message under the other, or its failure note: a reader of the path is   *)
(* never shown the end of an answer without its beginning.                 *)
(***************************************************************************)
AnswersStandWhole ==
    \A t \in Turns : pc[t] \in {"ending", "flushing", "retiring", "done"} =>
        /\ \A i \in Newest(Own(t)) : log[i].kind \in {"reply", "error"}
        /\ \A i \in Own(t) : log[i].kind \in {"call", "result", "reply"} =>
              /\ log[i].parent \in Own(t)
              /\ log[log[i].parent].kind = Before(t, log[i].kind)

(***************************************************************************)
(* What the model is shown never holds a tool result without the call it   *)
(* answers, however compaction, aborted turns and notes cut the path: a    *)
(* provider rejects such a history, and the conversation with it.          *)
(***************************************************************************)
ResultsHaveCalls ==
    \A i \in View : log[Message(i)].kind = "result" =>
        \E j \in View :
            /\ j < i /\ log[Message(j)].kind = "call"
            /\ log[Message(j)].of = log[Message(i)].of

(***************************************************************************)
(* The entry in the running map is a turn that is still in flight: an      *)
(* entry left behind would make every later message attach to a stream     *)
(* that has ended, and the shutdown drain wait for nothing.                *)
(***************************************************************************)
EntryHasTask == running # NoTurn => pc[running] \notin Over

(***************************************************************************)
(* A turn that is stopped, by a cancel or by its client, ends, wherever it *)
(* was: behind a turn the model never answers, or waiting for the model.   *)
(***************************************************************************)
StoppedTurnsEnd == \A t \in Turns : t \in aborted ~> pc[t] \in Over

(***************************************************************************)
(* A turn that waits for the lock is let in, unless the turn ahead of it   *)
(* is the model's to end: no abort and no failure leaves the lock behind.  *)
(***************************************************************************)
WaitersAreLetIn ==
    \A t \in Turns : pc[t] = "waiting" ~>
        (pc[t] # "waiting" \/ \E u \in Turns : pc[u] \in InModel)

(***************************************************************************)
(* A note that was folded into the conversation is there to be read once   *)
(* nothing is in flight ("its summary is appended here so the main agent   *)
(* can discuss the outcome on the next turn").                             *)
(***************************************************************************)
NotesAreRead ==
    (\A t \in Turns : pc[t] \in Over) =>
        \A i \in 1 .. Len(log) : log[i].kind = "note" => i \in Path
==============================================================================
