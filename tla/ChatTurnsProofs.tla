---------------------------- MODULE ChatTurnsProofs ----------------------------
(* Theorems about ChatTurns for every set of turns and notes, every history *)
(* and any number of restarts.                                              *)
EXTENDS ChatTurns, TLAPS

-----------------------------------------------------------------------------
(* The inductive invariant.                                                 *)

(* The lock is held by the turn that is past session_lock, and by no other. *)
LockHeld == \A t \in Turns : pc[t] \in Locked <=> lock = t

(* The entry in the map is in flight and was not aborted; a turn that has   *)
(* not begun was not either.                                                *)
EntryInFlight ==
    /\ running # NoTurn => pc[running] \notin Over /\ running \notin aborted
    /\ \A t \in aborted : pc[t] # "none"

(* A turn that is writing has something left to write.                      *)
Tailed == \A t \in Turns : pc[t] = "writing" => tail[t] # <<>>

(* Since the turn with the lock read the leaf, or wrote last, notes alone   *)
(* were appended.                                                           *)
OnTip ==
    \A t \in Turns : pc[t] \in Locked \ {"loading"} =>
        \A k \in parent[t] + 1 .. Len(log) : log[k].kind = "note"

Parts == {"call", "result", "reply"}
Unanswered ==
    {"none", "spawned", "waiting", "loading", "summarizing", "marking", "copying",
     "asking", "thinking", "noting", "noted"}
Returned == {"ending", "flushing", "retiring", "done"}

(* How far the answer of a turn is, part by part.                           *)
AnsweredBy(t) ==
    /\ \A i \in Own(t) : log[i].kind \in Parts =>
          /\ log[i].parent \in Own(t)
          /\ log[log[i].parent].kind = Before(t, log[i].kind)
    /\ pc[t] \in Unanswered => \A kind \in Parts : ~Has(t, kind)
    /\ pc[t] = "thinking" => parent[t] \in Own(t) /\ log[parent[t]].kind = "user"
    /\ pc[t] = "writing" =>
          /\ parent[t] \in Own(t) /\ log[parent[t]].kind = Before(t, Head(tail[t]))
          /\ ~Has(t, "reply")
          /\ Head(tail[t]) \in {"call", "result"} => ~Has(t, "result")
    /\ pc[t] \in Returned => \A i \in Newest(Own(t)) : log[i].kind \in {"reply", "error"}

Answered == \A t \in Turns : AnsweredBy(t)

IInv ==
    /\ TypeOK
    /\ LockHeld
    /\ EntryInFlight
    /\ Tailed
    /\ OnTip
    /\ TurnsDontFork
    /\ Answered

-----------------------------------------------------------------------------
(* The log.                                                                  *)

(* A node whose parent and source are older keeps the log well-formed.      *)
LEMMA Appended ==
  ASSUME TypeOK, NEW kind \in Kinds, NEW of \in Turns \cup Notes \cup {NoTurn},
         NEW p \in 0 .. Len(log), NEW source \in 0 .. Len(log),
         log' = Append(log, [kind |-> kind, of |-> of, parent |-> p, source |-> source])
  PROVE  /\ log' \in Seq(Node) /\ Len(log') = Len(log) + 1 /\ Len(log) \in Nat
         /\ \A i \in 1 .. Len(log) : log'[i] = log[i]
         /\ log'[Len(log) + 1] = [kind |-> kind, of |-> of, parent |-> p, source |-> source]
         /\ \A i \in 1 .. Len(log') : log'[i].parent < i /\ log'[i].source < i
<1>1. [kind |-> kind, of |-> of, parent |-> p, source |-> source] \in Node
  BY DEF Node, TypeOK
<1>2. log \in Seq(Node) /\ Len(log) \in Nat
  BY DEF TypeOK
<1>3. /\ log' \in Seq(Node) /\ Len(log') = Len(log) + 1
      /\ \A i \in 1 .. Len(log) : log'[i] = log[i]
      /\ log'[Len(log) + 1] = [kind |-> kind, of |-> of, parent |-> p, source |-> source]
  BY <1>1, <1>2
<1>4. \A i \in 1 .. Len(log) : log[i].parent < i /\ log[i].source < i
  BY DEF TypeOK
<1>5. ASSUME NEW i \in 1 .. Len(log') PROVE log'[i].parent < i /\ log'[i].source < i
  BY <1>2, <1>3, <1>4
<1> QED
  BY <1>2, <1>3, <1>5

(* Turns, writers of notes and nobody are told apart.                       *)
LEMMA Writers ==
  /\ NoTurn \notin Turns /\ Turns \cap Notes = {} /\ NoTurn \notin Notes
  /\ Hosted \subseteq Turns /\ Direct \subseteq Turns /\ NoTurn \notin Hosted
  /\ Hosted \cap Direct = {} /\ Turns = Hosted \cup Direct
BY ChatAssumption DEF Turns

(* What the turns and the notes remember of the log stays in it as it grows.*)
LEMMA Grown ==
  ASSUME TypeOK, Len(log') = Len(log) + 1
  PROVE  /\ parent \in [Turns -> 0 .. Len(log')]
         /\ keep \in [Turns -> SUBSET (1 .. Len(log'))]
         /\ noteParent \in [Notes -> 0 .. Len(log')]
         /\ Len(log') > 0
<1>1. Len(log) \in Nat
  BY DEF TypeOK
<1>2. 0 .. Len(log) \subseteq 0 .. Len(log') /\ 1 .. Len(log) \subseteq 1 .. Len(log')
  BY <1>1
<1> QED
  BY <1>1, <1>2 DEF TypeOK

(* A message of the turn that holds the lock goes under the last one it     *)
(* wrote or read, and nothing but notes came between.                       *)
LEMMA Said ==
  ASSUME IInv, NEW t \in Turns, pc[t] \in Locked \ {"loading"},
         NEW kind \in Kinds, NEW source \in 0 .. Len(log), Says(t, kind, source),
         NEW place \in Locked, Goto(t, place), UNCHANGED lock
  PROVE  /\ log' \in Seq(Node) /\ Len(log') = Len(log) + 1 /\ Len(log) \in Nat
         /\ \A i \in 1 .. Len(log') : log'[i].parent < i /\ log'[i].source < i
         /\ parent' \in [Turns -> 0 .. Len(log')]
         /\ OnTip'
         /\ TurnsDontFork'
<1> DEFINE node == [kind |-> kind, of |-> t, parent |-> parent[t], source |-> source]
<1>1. TypeOK /\ parent[t] \in 0 .. Len(log)
  BY DEF IInv, TypeOK
<1>2. /\ log' \in Seq(Node) /\ Len(log') = Len(log) + 1 /\ Len(log) \in Nat
      /\ \A i \in 1 .. Len(log) : log'[i] = log[i]
      /\ log'[Len(log) + 1] = node
      /\ \A i \in 1 .. Len(log') : log'[i].parent < i /\ log'[i].source < i
  BY <1>1, Appended DEF Says
<1>3. parent' = [parent EXCEPT ![t] = Len(log) + 1]
  BY DEF Says, Leaf
<1>4. parent' \in [Turns -> 0 .. Len(log')]
  BY <1>1, <1>2, <1>3, Grown
<1>5. lock = t /\ \A u \in Turns \ {t} : pc'[u] \notin Locked
  BY <1>1 DEF IInv, LockHeld, Goto, TypeOK
<1>6. OnTip'
  BY <1>1, <1>2, <1>3, <1>5 DEF OnTip, TypeOK
<1>7. \A k \in parent[t] + 1 .. Len(log) : log[k].kind = "note"
  BY DEF IInv, OnTip
<1>8. ASSUME NEW j \in 1 .. Len(log'), log'[j].of \in Turns,
             NEW k \in log'[j].parent + 1 .. j - 1
      PROVE  log'[k].kind = "note"
  <2>1. CASE j = Len(log) + 1
    <3>1. log'[j].parent = parent[t]
      BY <1>2, <2>1
    <3>2. k \in parent[t] + 1 .. Len(log)
      BY <1>1, <1>2, <2>1, <1>8, <3>1
    <3> QED
      BY <1>1, <1>2, <1>7, <3>2
  <2>2. CASE j \in 1 .. Len(log)
    <3>0. log'[j] = log[j] /\ log[j] \in Node
      BY <1>1, <1>2, <2>2 DEF TypeOK
    <3>1. log'[j] = log[j] /\ log[j].parent \in Nat
      BY <3>0 DEF Node
    <3>2. k \in 1 .. Len(log)
      BY <1>2, <2>2, <3>1, <1>8
    <3> QED
      BY <1>2, <1>8, <2>2, <3>1, <3>2 DEF IInv, TurnsDontFork
  <2> QED
    BY <1>2, <2>1, <2>2
<1> QED
  BY <1>2, <1>4, <1>6, <1>8 DEF TurnsDontFork

(* The queue without the turn that gave up waiting is a queue of turns.     *)
LEMMA Removed ==
  ASSUME NEW q \in Seq(Turns), NEW i \in DOMAIN q
  PROVE  RemoveAt(q, i) \in Seq(Turns)
<1>1. i \in 1 .. Len(q) /\ Len(q) \in Nat
  OBVIOUS
<1>2. SubSeq(q, 1, i - 1) \in Seq(Turns) /\ SubSeq(q, i + 1, Len(q)) \in Seq(Turns)
  BY <1>1
<1> QED
  BY <1>2 DEF RemoveAt

(* The places that hold the lock are places.                                *)
LEMMA LockedPlaces == Locked \subseteq Places /\ Over \subseteq Places /\ Locked \cap Over = {}
BY DEF Locked, Places, Over

-----------------------------------------------------------------------------
(* Answers.                                                                  *)

(* The answer of a turn that neither writes nor moves is as it was.         *)
LEMMA Unmoved ==
  ASSUME NEW u \in Turns, AnsweredBy(u), Own(u)' = Own(u),
         \A i \in Own(u) : log'[i] = log[i],
         pc'[u] = pc[u], parent'[u] = parent[u], tail'[u] = tail[u]
  PROVE  AnsweredBy(u)'
<1>1. \A kind : Has(u, kind)' = Has(u, kind)
  BY DEF Has
<1>2. \A kind : Before(u, kind)' = Before(u, kind)
  BY <1>1 DEF Before
<1> QED
  BY <1>1, <1>2 DEF AnsweredBy, Newest

(* A turn that moves and writes nothing keeps what it has said.             *)
LEMMA Silent ==
  ASSUME IInv, UNCHANGED log, NEW t \in Turns, AnsweredBy(t)',
         \A u \in Turns \ {t} : pc'[u] = pc[u] /\ parent'[u] = parent[u] /\ tail'[u] = tail[u]
  PROVE  Answered'
<1>1. ASSUME NEW u \in Turns \ {t} PROVE AnsweredBy(u)'
  BY <1>1, Unmoved DEF IInv, Answered, Own
<1> QED
  BY <1>1 DEF Answered

(* Where nobody moves, no answer does.                                      *)
LEMMA Still == ASSUME IInv, UNCHANGED <<log, pc, parent, tail>> PROVE Answered'
<1>1. ASSUME NEW u \in Turns PROVE AnsweredBy(u)'
  BY Unmoved DEF IInv, Answered, Own
<1> QED
  BY <1>1 DEF Answered

(* A node is its writer's and nobody else's.                                *)
LEMMA Adds ==
  ASSUME TypeOK, NEW node \in Node, log' = Append(log, node)
  PROVE  /\ \A u \in Turns : Own(u)' = IF u = node.of THEN Own(u) \cup {Len(log) + 1} ELSE Own(u)
         /\ \A u \in Turns : Own(u) \subseteq 1 .. Len(log)
         /\ \A i \in 1 .. Len(log) : log'[i] = log[i]
         /\ log'[Len(log) + 1] = node /\ Len(log) \in Nat
<1>1. log \in Seq(Node) /\ Len(log) \in Nat
  BY DEF TypeOK
<1>2. /\ Len(log') = Len(log) + 1 /\ log'[Len(log) + 1] = node
      /\ \A i \in 1 .. Len(log) : log'[i] = log[i]
  BY <1>1
<1> QED
  BY <1>1, <1>2 DEF Own

(* Only the turn that writes a message may change how its answer stands.    *)
LEMMA Speaks ==
  ASSUME IInv, NEW t \in Turns, NEW kind \in Kinds, NEW source \in 0 .. Len(log),
         Says(t, kind, source), AnsweredBy(t)',
         \A u \in Turns \ {t} : pc'[u] = pc[u] /\ tail'[u] = tail[u]
  PROVE  Answered'
<1> DEFINE node == [kind |-> kind, of |-> t, parent |-> parent[t], source |-> source]
<1>1. TypeOK /\ node \in Node /\ log' = Append(log, node)
  BY DEF IInv, TypeOK, Node, Says
<1>2. ASSUME NEW u \in Turns \ {t} PROVE AnsweredBy(u)'
  <2>1. Own(u)' = Own(u) /\ \A i \in Own(u) : log'[i] = log[i]
    BY <1>1, Adds
  <2>2. parent'[u] = parent[u]
    BY <1>1 DEF Says, TypeOK
  <2> QED
    BY <2>1, <2>2, Unmoved DEF IInv, Answered
<1> QED
  BY <1>2 DEF Answered

(* What the turn has said once it has said one thing more.                  *)
LEMMA Sayings ==
  ASSUME TypeOK, NEW t \in Turns, NEW kind \in Kinds, NEW source \in 0 .. Len(log),
         Says(t, kind, source)
  PROVE  /\ Own(t)' = Own(t) \cup {Len(log) + 1} /\ Own(t) \subseteq 1 .. Len(log)
         /\ Newest(Own(t))' = {Len(log) + 1}
         /\ \A i \in Own(t) : log'[i] = log[i]
         /\ log'[Len(log) + 1].kind = kind /\ log'[Len(log) + 1].parent = parent[t]
         /\ parent'[t] = Len(log) + 1 /\ Len(log) \in Nat
         /\ \A k : Has(t, k)' <=> Has(t, k) \/ k = kind
<1> DEFINE node == [kind |-> kind, of |-> t, parent |-> parent[t], source |-> source]
<1>1. node \in Node /\ log' = Append(log, node) /\ node.of = t
  BY DEF TypeOK, Node, Says
<1>2. /\ Own(t)' = Own(t) \cup {Len(log) + 1} /\ Own(t) \subseteq 1 .. Len(log)
      /\ \A i \in 1 .. Len(log) : log'[i] = log[i]
      /\ log'[Len(log) + 1] = node /\ Len(log) \in Nat
  BY <1>1, Adds
<1>3. Newest(Own(t))' = {Len(log) + 1}
  BY <1>2 DEF Newest
<1>4. parent'[t] = Len(log) + 1
  BY DEF Says, Leaf, TypeOK
<1>5. \A k : Has(t, k)' <=> Has(t, k) \/ k = kind
  BY <1>2 DEF Has
<1>6. \A i \in Own(t) : log'[i] = log[i]
  BY <1>2
<1>7. log'[Len(log) + 1].kind = kind /\ log'[Len(log) + 1].parent = parent[t]
  BY <1>2
<1> QED
  BY <1>2, <1>3, <1>4, <1>5, <1>6, <1>7, Zenon

-----------------------------------------------------------------------------
(* What each action keeps.                                                   *)

(* start_or_attach registers a turn that has not begun.                     *)
LEMMA HostKeeps ==
  ASSUME IInv, NEW t \in Hosted, Host(t)
  PROVE  IInv'
<1> USE DEF IInv
<1>1. TypeOK'
  BY Writers DEF TypeOK, Host, lockVars, turnVars, noteVars, Goto, Turns, Places
<1>2. LockHeld'
  BY Writers DEF LockHeld, Host, lockVars, Goto, Turns, Locked, TypeOK
<1>3. EntryInFlight'
  BY Writers DEF EntryInFlight, Host, Goto, Turns, Over, TypeOK
<1>4. Tailed'
  BY DEF Tailed, Host, turnVars, Goto, Turns, TypeOK
<1>5. OnTip'
  BY Writers DEF OnTip, Host, turnVars, Goto, Turns, Locked, TypeOK
<1>6. Answered'
  <2>1. AnsweredBy(t) /\ UNCHANGED log /\ Own(t)' = Own(t)
    BY DEF Answered, Host, Own, Turns
  <2>2. \A k : Has(t, k)' = Has(t, k) /\ Before(t, k)' = Before(t, k)
    BY <2>1 DEF Has, Before
  <2>3. AnsweredBy(t)'
    BY <2>1, <2>2 DEF AnsweredBy, Host, turnVars, Goto, Turns, Unanswered, Returned, Newest, TypeOK
  <2> QED
    BY <2>1, <2>3, Silent DEF Host, turnVars, Goto, Turns, TypeOK
<1>7. TurnsDontFork'
  BY DEF TurnsDontFork, Host, TypeOK
<1> QED
  BY <1>1, <1>2, <1>3, <1>4, <1>5, <1>6, <1>7

(* spawn_turn stores the handle of the task it has just spawned.            *)
LEMMA ArmKeeps ==
  ASSUME IInv, NEW t \in Hosted, Arm(t)
  PROVE  IInv'
<1> USE DEF IInv
<1>1. TypeOK'
  BY Writers DEF TypeOK, Arm, lockVars, turnVars, noteVars, Turns, Places
<1>2. LockHeld' /\ EntryInFlight' /\ Tailed' /\ OnTip' /\ TurnsDontFork'
  BY DEF LockHeld, Arm, lockVars, Locked, TypeOK, EntryInFlight, Over, Tailed, turnVars,
      OnTip, TurnsDontFork
<1>3. Answered'
  BY Still DEF Arm, turnVars
<1> QED
  BY <1>1, <1>2, <1>3

(* cancel_turn takes the entry out before it aborts the task.               *)
LEMMA CancelKeeps ==
  ASSUME IInv, Cancel
  PROVE  IInv'
<1> USE DEF IInv
<1>1. TypeOK'
  BY Writers DEF TypeOK, Cancel, lockVars, turnVars, noteVars, Places
<1>2. EntryInFlight'
  BY Writers DEF EntryInFlight, Cancel, Over, TypeOK
<1>3. LockHeld' /\ Tailed' /\ OnTip' /\ TurnsDontFork'
  BY DEF LockHeld, Cancel, lockVars, Locked, TypeOK, Tailed, turnVars, OnTip,
      TurnsDontFork
<1>4. Answered'
  BY Still DEF Cancel, turnVars
<1> QED
  BY <1>1, <1>2, <1>3, <1>4

(* A direct turn begins; it is in no map.                                   *)
LEMMA PostKeeps ==
  ASSUME IInv, NEW t \in Direct, Post(t)
  PROVE  IInv'
<1> USE DEF IInv
<1>1. TypeOK'
  BY Writers DEF TypeOK, Post, entryVars, lockVars, turnVars, noteVars, Goto, Turns,
      Places
<1>2. LockHeld'
  BY Writers DEF LockHeld, Post, lockVars, Goto, Turns, Locked, TypeOK
<1>3. EntryInFlight'
  BY Writers DEF EntryInFlight, Post, entryVars, Goto, Turns, Over, TypeOK
<1>4. Tailed'
  BY DEF Tailed, Post, turnVars, Goto, Turns, TypeOK
<1>5. OnTip'
  BY Writers DEF OnTip, Post, turnVars, Goto, Turns, Locked, TypeOK
<1>6. Answered'
  <2>1. AnsweredBy(t) /\ UNCHANGED log /\ Own(t)' = Own(t)
    BY DEF Answered, Post, Own, Turns
  <2>2. \A k : Has(t, k)' = Has(t, k) /\ Before(t, k)' = Before(t, k)
    BY <2>1 DEF Has, Before
  <2>3. AnsweredBy(t)'
    BY <2>1, <2>2 DEF AnsweredBy, Post, turnVars, Goto, Turns, Unanswered, Returned, Newest, TypeOK
  <2> QED
    BY <2>1, <2>3, Silent DEF Post, turnVars, Goto, Turns, TypeOK
<1>7. TurnsDontFork'
  BY DEF TurnsDontFork, Post, TypeOK
<1> QED
  BY <1>1, <1>2, <1>3, <1>4, <1>5, <1>6, <1>7

(* The client of a direct turn is gone: that turn is not the entry's.       *)
LEMMA DisconnectKeeps ==
  ASSUME IInv, NEW t \in Direct, Disconnect(t)
  PROVE  IInv'
<1> USE DEF IInv
<1>1. TypeOK'
  BY Writers DEF TypeOK, Disconnect, lockVars, turnVars, noteVars, Turns, Places
<1>2. EntryInFlight'
  BY Writers DEF EntryInFlight, Disconnect, Turns, Over, TypeOK
<1>3. LockHeld' /\ Tailed' /\ OnTip' /\ TurnsDontFork'
  BY DEF LockHeld, Disconnect, lockVars, Locked, TypeOK, Tailed, turnVars, OnTip,
      TurnsDontFork
<1>4. Answered'
  BY Still DEF Disconnect, turnVars
<1> QED
  BY <1>1, <1>2, <1>3, <1>4

(* An aborted turn gives up the lock, its place in the queue and its        *)
(* locals; it is not the entry any more.                                    *)
LEMMA DropKeeps ==
  ASSUME IInv, NEW t \in Turns, Drop(t)
  PROVE  IInv'
<1> USE DEF IInv
<1>a. queue' \in Seq(Turns)
  BY Removed DEF Drop, Unqueue, TypeOK
<1>b. t \in Turns /\ pc[t] \notin Over
  BY DEF Drop
<1>1. TypeOK'
  BY <1>a, Writers DEF TypeOK, Drop, noteVars, Goto, Forget, Places
<1>2. LockHeld'
  BY Writers DEF LockHeld, Drop, Goto, Forget, Unqueue, Locked, TypeOK
<1>3. EntryInFlight'
  BY Writers DEF EntryInFlight, Drop, Goto, Forget, Unqueue, Over, TypeOK
<1>4. Tailed'
  BY DEF Tailed, Drop, Goto, Forget, Unqueue, TypeOK
<1>5. OnTip'
  BY Writers DEF OnTip, Drop, Goto, Forget, Unqueue, Locked, TypeOK
<1>6. Answered'
  <2>1. AnsweredBy(t) /\ UNCHANGED log /\ Own(t)' = Own(t)
    BY DEF Answered, Drop, Own
  <2>2. \A k : Has(t, k)' = Has(t, k) /\ Before(t, k)' = Before(t, k)
    BY <2>1 DEF Has, Before
  <2>3. AnsweredBy(t)'
    BY <2>1, <2>2 DEF AnsweredBy, Drop, Goto, Forget, Unanswered, Returned, Newest, TypeOK
  <2> QED
    BY <2>1, <2>3, Silent DEF Drop, Goto, Forget, TypeOK
<1>7. TurnsDontFork'
  BY DEF TurnsDontFork, Drop, TypeOK
<1> QED
  BY <1>1, <1>2, <1>3, <1>4, <1>5, <1>6, <1>7

(* session_lock is taken at once when nobody holds it or waits for it.      *)
LEMMA EnterKeeps ==
  ASSUME IInv, NEW t \in Turns, Enter(t)
  PROVE  IInv'
<1> USE DEF IInv
<1>a. \/ lock' = t /\ Goto(t, "loading") /\ UNCHANGED queue
      \/ queue' = Append(queue, t) /\ Goto(t, "waiting") /\ UNCHANGED lock
  BY DEF Enter
<1>1. TypeOK'
  <2>1. queue' \in Seq(Turns) /\ lock' \in Turns \cup {NoTurn}
    <3>1. CASE lock' = t /\ UNCHANGED queue
      BY <3>1 DEF TypeOK
    <3>2. CASE queue' = Append(queue, t) /\ UNCHANGED lock
      BY <3>2 DEF TypeOK
    <3> QED
      BY <1>a, <3>1, <3>2
  <2>2. pc' \in [Turns -> Places]
    BY <1>a DEF TypeOK, Goto, Places
  <2> QED
    BY <2>1, <2>2 DEF TypeOK, Enter, entryVars, turnVars, noteVars
<1>2. LockHeld'
  BY Writers DEF LockHeld, Enter, Goto, Locked, TypeOK
<1>3. EntryInFlight'
  BY Writers DEF EntryInFlight, Enter, entryVars, Goto, Over, TypeOK
<1>4. Tailed'
  BY DEF Tailed, Enter, turnVars, Goto, TypeOK
<1>5. OnTip'
  <2>1. \A u \in Turns : pc'[u] \in Locked \ {"loading"} => pc[u] \in Locked \ {"loading"}
    BY <1>a DEF Goto, Locked, TypeOK
  <2> QED
    BY <2>1 DEF OnTip, Enter, turnVars
<1>6. Answered'
  <2>1. AnsweredBy(t) /\ UNCHANGED log /\ Own(t)' = Own(t)
    BY DEF Answered, Enter, Own
  <2>2. \A k : Has(t, k)' = Has(t, k) /\ Before(t, k)' = Before(t, k)
    BY <2>1 DEF Has, Before
  <2>3. AnsweredBy(t)'
    BY <2>1, <2>2 DEF AnsweredBy, Enter, turnVars, Goto, Unanswered, Returned, Newest, TypeOK
  <2> QED
    BY <2>1, <2>3, Silent DEF Enter, turnVars, Goto, TypeOK
<1>7. TurnsDontFork'
  BY DEF TurnsDontFork, Enter, TypeOK
<1> QED
  BY <1>1, <1>2, <1>3, <1>4, <1>5, <1>6, <1>7

(* The lock goes to the turn that has waited longest.                       *)
LEMMA GrantedKeeps ==
  ASSUME IInv, NEW t \in Turns, Granted(t)
  PROVE  IInv'
<1> USE DEF IInv
<1>1. TypeOK'
  BY Writers DEF TypeOK, Granted, entryVars, turnVars, noteVars, Goto, Places
<1>2. LockHeld'
  BY Writers DEF LockHeld, Granted, Goto, Locked, TypeOK
<1>3. EntryInFlight'
  BY Writers DEF EntryInFlight, Granted, entryVars, Goto, Over, TypeOK
<1>4. Tailed'
  BY DEF Tailed, Granted, turnVars, Goto, TypeOK
<1>5. OnTip'
  BY Writers DEF OnTip, Granted, turnVars, Goto, Locked, TypeOK
<1>6. Answered'
  <2>1. AnsweredBy(t) /\ UNCHANGED log /\ Own(t)' = Own(t)
    BY DEF Answered, Granted, Own
  <2>2. \A k : Has(t, k)' = Has(t, k) /\ Before(t, k)' = Before(t, k)
    BY <2>1 DEF Has, Before
  <2>3. AnsweredBy(t)'
    BY <2>1, <2>2 DEF AnsweredBy, Granted, turnVars, Goto, Unanswered, Returned, Newest, TypeOK
  <2> QED
    BY <2>1, <2>3, Silent DEF Granted, turnVars, Goto, TypeOK
<1>7. TurnsDontFork'
  BY DEF TurnsDontFork, Granted, TypeOK
<1> QED
  BY <1>1, <1>2, <1>3, <1>4, <1>5, <1>6, <1>7

(* load reads the leaf with the lock held.                                  *)
LEMMA LoadKeeps ==
  ASSUME IInv, NEW t \in Turns, Load(t)
  PROVE  IInv'
<1> USE DEF IInv
<1>1. TypeOK'
  <2>1. Len(log) \in 0 .. Len(log)
    BY DEF TypeOK
  <2>2. parent' \in [Turns -> 0 .. Len(log)] /\ pc' \in [Turns -> Places]
    BY <2>1 DEF TypeOK, Load, Leaf, Goto, Places
  <2>3. Kept \subseteq 1 .. Len(log)
    BY Zenon DEF Kept, View, Path, Leaf
  <2>4. keep' \in [Turns -> SUBSET (1 .. Len(log))]
    BY <2>3 DEF TypeOK, Load
  <2> QED
    BY <2>2, <2>4 DEF TypeOK, Load, entryVars, lockVars, noteVars
<1>2. LockHeld'
  BY Writers DEF LockHeld, Load, lockVars, Goto, Leaf, Locked, TypeOK
<1>3. EntryInFlight'
  BY Writers DEF EntryInFlight, Load, entryVars, Goto, Leaf, Over, TypeOK
<1>4. Tailed'
  BY DEF Tailed, Load, Goto, Leaf, TypeOK
<1>5. OnTip'
  BY Writers DEF OnTip, Load, Goto, Leaf, Locked, TypeOK
<1>6. Answered'
  <2>1. AnsweredBy(t) /\ UNCHANGED log /\ Own(t)' = Own(t)
    BY DEF Answered, Load, Own
  <2>2. \A k : Has(t, k)' = Has(t, k) /\ Before(t, k)' = Before(t, k)
    BY <2>1 DEF Has, Before
  <2>3. AnsweredBy(t)'
    BY <2>1, <2>2 DEF AnsweredBy, Load, Goto, Leaf, Unanswered, Returned, Newest, TypeOK
  <2> QED
    BY <2>1, <2>3, Silent DEF Load, Goto, Leaf, TypeOK
<1>7. TurnsDontFork'
  BY DEF TurnsDontFork, Load, TypeOK
<1> QED
  BY <1>1, <1>2, <1>3, <1>4, <1>5, <1>6, <1>7

(* The model's summary moves the turn on with the lock held.                *)
LEMMA SummarizedKeeps ==
  ASSUME IInv, NEW t \in Turns, Summarized(t)
  PROVE  IInv'
<1> USE DEF IInv
<1>1. TypeOK'
  BY Writers DEF TypeOK, Summarized, entryVars, lockVars, turnVars, noteVars, Goto, Places
<1>2. LockHeld'
  BY Writers DEF LockHeld, Summarized, lockVars, Goto, Locked, TypeOK
<1>3. EntryInFlight'
  BY Writers DEF EntryInFlight, Summarized, entryVars, Goto, Over, TypeOK
<1>4. Tailed'
  BY DEF Tailed, Summarized, turnVars, Goto, TypeOK
<1>5. OnTip'
  BY Writers DEF OnTip, Summarized, turnVars, Goto, Locked, TypeOK
<1>6. Answered'
  <2>1. AnsweredBy(t) /\ UNCHANGED log /\ Own(t)' = Own(t)
    BY DEF Answered, Summarized, Own
  <2>2. \A k : Has(t, k)' = Has(t, k) /\ Before(t, k)' = Before(t, k)
    BY <2>1 DEF Has, Before
  <2>3. AnsweredBy(t)'
    BY <2>1, <2>2 DEF AnsweredBy, Summarized, turnVars, Goto, Unanswered, Returned, Newest, TypeOK
  <2> QED
    BY <2>1, <2>3, Silent DEF Summarized, turnVars, Goto, TypeOK
<1>7. TurnsDontFork'
  BY DEF TurnsDontFork, Summarized, TypeOK
<1> QED
  BY <1>1, <1>2, <1>3, <1>4, <1>5, <1>6, <1>7

(* Without a summary the turn goes on uncompacted.                          *)
LEMMA NoSummaryKeeps ==
  ASSUME IInv, NEW t \in Turns, NoSummary(t)
  PROVE  IInv'
<1> USE DEF IInv
<1>1. TypeOK'
  BY Writers DEF TypeOK, NoSummary, entryVars, lockVars, noteVars, Goto, Places
<1>2. LockHeld'
  BY Writers DEF LockHeld, NoSummary, lockVars, Goto, Locked, TypeOK
<1>3. EntryInFlight'
  BY Writers DEF EntryInFlight, NoSummary, entryVars, Goto, Over, TypeOK
<1>4. Tailed'
  BY DEF Tailed, NoSummary, Goto, TypeOK
<1>5. OnTip'
  BY Writers DEF OnTip, NoSummary, Goto, Locked, TypeOK
<1>6. Answered'
  <2>1. AnsweredBy(t) /\ UNCHANGED log /\ Own(t)' = Own(t)
    BY DEF Answered, NoSummary, Own
  <2>2. \A k : Has(t, k)' = Has(t, k) /\ Before(t, k)' = Before(t, k)
    BY <2>1 DEF Has, Before
  <2>3. AnsweredBy(t)'
    BY <2>1, <2>2 DEF AnsweredBy, NoSummary, Goto, Unanswered, Returned, Newest, TypeOK
  <2> QED
    BY <2>1, <2>3, Silent DEF NoSummary, Goto, TypeOK
<1>7. TurnsDontFork'
  BY DEF TurnsDontFork, NoSummary, TypeOK
<1> QED
  BY <1>1, <1>2, <1>3, <1>4, <1>5, <1>6, <1>7

(* The marker of a compaction goes under the leaf that was loaded.          *)
LEMMA MarkKeeps ==
  ASSUME IInv, NEW t \in Turns, Mark(t)
  PROVE  IInv'
<1> USE DEF IInv
<1>a. /\ log' \in Seq(Node) /\ Len(log') = Len(log) + 1 /\ Len(log) \in Nat
      /\ \A i \in 1 .. Len(log') : log'[i].parent < i /\ log'[i].source < i
      /\ parent' \in [Turns -> 0 .. Len(log')]
      /\ OnTip' /\ TurnsDontFork'
  <2>1. /\ pc[t] \in Locked \ {"loading"} /\ "marker" \in Kinds /\ 0 \in 0 .. Len(log)
        /\ "copying" \in Locked
    BY DEF Mark, Locked, Kinds, TypeOK
  <2>2. Says(t, "marker", 0) /\ Goto(t, "copying") /\ UNCHANGED lock
    BY DEF Mark, lockVars
  <2> QED
    BY <2>1, <2>2, Said
<1>1. TypeOK'
  BY <1>a, Grown DEF TypeOK, Mark, entryVars, lockVars, noteVars, Goto, Places
<1>2. LockHeld'
  BY Writers DEF LockHeld, Mark, lockVars, Goto, Says, Locked, TypeOK
<1>3. EntryInFlight'
  BY Writers DEF EntryInFlight, Mark, entryVars, Goto, Says, Over, TypeOK
<1>4. Tailed'
  BY DEF Tailed, Mark, Goto, Says, TypeOK
<1>5. OnTip'
  BY <1>a
<1>6. TurnsDontFork'
  BY <1>a
<1>7. Answered'
  <2>1. AnsweredBy(t) /\ pc[t] \in Unanswered /\ "marker" \in Kinds /\ 0 \in 0 .. Len(log)
    BY DEF Answered, Mark, Unanswered, Kinds, TypeOK
  <2>2. /\ Own(t)' = Own(t) \cup {Len(log) + 1} /\ Own(t) \subseteq 1 .. Len(log)
        /\ Newest(Own(t))' = {Len(log) + 1}
        /\ \A i \in Own(t) : log'[i] = log[i]
        /\ log'[Len(log) + 1].kind = "marker"
        /\ parent'[t] = Len(log) + 1
        /\ \A k : Has(t, k)' <=> Has(t, k) \/ k = "marker"
    BY <2>1, Sayings DEF Mark
  <2>3. \A kind \in Parts : ~Has(t, kind)'
    BY <2>1, <2>2 DEF AnsweredBy, Parts
  <2>4. AnsweredBy(t)'
    BY <2>2, <2>3 DEF AnsweredBy, Mark, Goto, Returned, Has, TypeOK
  <2> QED
    BY <2>1, <2>4, Speaks DEF Mark, Goto, TypeOK
<1> QED
  BY <1>1, <1>2, <1>3, <1>4, <1>5, <1>6, <1>7

(* Each kept message is said again under the marker.                        *)
LEMMA CopyKeeps ==
  ASSUME IInv, NEW t \in Turns, Copy(t)
  PROVE  IInv'
<1> USE DEF IInv
<1>0. PICK src \in keep[t] : /\ Says(t, "copy", Message(src))
                         /\ keep' = [keep EXCEPT ![t] = @ \ {src}]
                         /\ Goto(t, IF keep[t] = {src} THEN "asking" ELSE "copying")
  BY DEF Copy
<1>a. /\ log' \in Seq(Node) /\ Len(log') = Len(log) + 1 /\ Len(log) \in Nat
      /\ \A i \in 1 .. Len(log') : log'[i].parent < i /\ log'[i].source < i
      /\ parent' \in [Turns -> 0 .. Len(log')]
      /\ OnTip' /\ TurnsDontFork'
  <2>1. src \in 1 .. Len(log) /\ Len(log) \in Nat
    BY DEF TypeOK
  <2>2. log[src] \in Node /\ log[src].source < src
    BY <2>1 DEF TypeOK
  <2>3. Message(src) \in 0 .. Len(log)
    BY <2>1, <2>2 DEF Message, Node
  <2>4. /\ pc[t] \in Locked \ {"loading"} /\ "copy" \in Kinds
        /\ (IF keep[t] = {src} THEN "asking" ELSE "copying") \in Locked
    BY DEF Copy, Locked, Kinds
  <2>5. UNCHANGED lock
    BY DEF Copy, lockVars
  <2> QED
    BY <1>0, <2>3, <2>4, <2>5, Said
<1>1. TypeOK'
  BY <1>0, <1>a, Grown DEF TypeOK, Copy, entryVars, lockVars, noteVars, Goto, Places
<1>2. LockHeld'
  BY Writers DEF LockHeld, Copy, lockVars, Goto, Says, Locked, TypeOK
<1>3. EntryInFlight'
  BY Writers DEF EntryInFlight, Copy, entryVars, Goto, Says, Over, TypeOK
<1>4. Tailed'
  BY DEF Tailed, Copy, Goto, Says, TypeOK
<1>5. OnTip'
  BY <1>a
<1>6. TurnsDontFork'
  BY <1>a
<1>7. Answered'
  <2>0. Message(src) \in 0 .. Len(log) /\ "copy" \in Kinds
    <3>1. src \in 1 .. Len(log) /\ Len(log) \in Nat
      BY DEF TypeOK
    <3>2. log[src] \in Node /\ log[src].source < src
      BY <3>1 DEF TypeOK
    <3> QED
      BY <3>1, <3>2 DEF Message, Node, Kinds
  <2>1. AnsweredBy(t) /\ pc[t] \in Unanswered
    BY DEF Answered, Copy, Unanswered
  <2>2. /\ Own(t)' = Own(t) \cup {Len(log) + 1} /\ Own(t) \subseteq 1 .. Len(log)
        /\ \A j \in Own(t) : log'[j] = log[j]
        /\ log'[Len(log) + 1].kind = "copy"
        /\ \A k : Has(t, k)' <=> Has(t, k) \/ k = "copy"
    BY <1>0, <2>0, Sayings
  <2>3. \A kind \in Parts : ~Has(t, kind)'
    BY <2>1, <2>2 DEF AnsweredBy, Parts
  <2>4. AnsweredBy(t)'
    BY <1>0, <2>2, <2>3 DEF AnsweredBy, Goto, Returned, Has, TypeOK
  <2> QED
    BY <1>0, <2>0, <2>4, Speaks DEF Copy, Goto, TypeOK
<1> QED
  BY <1>1, <1>2, <1>3, <1>4, <1>5, <1>6, <1>7

(* The question goes under the view the model is shown.                     *)
LEMMA AskKeeps ==
  ASSUME IInv, NEW t \in Turns, Ask(t)
  PROVE  IInv'
<1> USE DEF IInv
<1>a. /\ log' \in Seq(Node) /\ Len(log') = Len(log) + 1 /\ Len(log) \in Nat
      /\ \A i \in 1 .. Len(log') : log'[i].parent < i /\ log'[i].source < i
      /\ parent' \in [Turns -> 0 .. Len(log')]
      /\ OnTip' /\ TurnsDontFork'
  <2>1. /\ pc[t] \in Locked \ {"loading"} /\ "user" \in Kinds /\ 0 \in 0 .. Len(log)
        /\ "thinking" \in Locked
    BY DEF Ask, Locked, Kinds, TypeOK
  <2>2. Says(t, "user", 0) /\ Goto(t, "thinking") /\ UNCHANGED lock
    BY DEF Ask, lockVars
  <2> QED
    BY <2>1, <2>2, Said
<1>1. TypeOK'
  BY <1>a, Grown DEF TypeOK, Ask, entryVars, lockVars, noteVars, Goto, Places
<1>2. LockHeld'
  BY Writers DEF LockHeld, Ask, lockVars, Goto, Says, Locked, TypeOK
<1>3. EntryInFlight'
  BY Writers DEF EntryInFlight, Ask, entryVars, Goto, Says, Over, TypeOK
<1>4. Tailed'
  BY DEF Tailed, Ask, Goto, Says, TypeOK
<1>5. OnTip'
  BY <1>a
<1>6. TurnsDontFork'
  BY <1>a
<1>7. Answered'
  <2>1. AnsweredBy(t) /\ pc[t] \in Unanswered /\ "user" \in Kinds /\ 0 \in 0 .. Len(log)
    BY DEF Answered, Ask, Unanswered, Kinds, TypeOK
  <2>2. /\ Own(t)' = Own(t) \cup {Len(log) + 1} /\ Own(t) \subseteq 1 .. Len(log)
        /\ Newest(Own(t))' = {Len(log) + 1}
        /\ \A i \in Own(t) : log'[i] = log[i]
        /\ log'[Len(log) + 1].kind = "user"
        /\ parent'[t] = Len(log) + 1
        /\ \A k : Has(t, k)' <=> Has(t, k) \/ k = "user"
    BY <2>1, Sayings DEF Ask
  <2>3. \A kind \in Parts : ~Has(t, kind)'
    BY <2>1, <2>2 DEF AnsweredBy, Parts
  <2>4. AnsweredBy(t)'
    BY <2>2, <2>3 DEF AnsweredBy, Ask, Goto, Returned, Has, TypeOK
  <2> QED
    BY <2>1, <2>4, Speaks DEF Ask, Goto, TypeOK
<1> QED
  BY <1>1, <1>2, <1>3, <1>4, <1>5, <1>6, <1>7

(* The model's answer is whole before any of it is persisted.               *)
LEMMA AnswerKeeps ==
  ASSUME IInv, NEW t \in Turns, Answer(t)
  PROVE  IInv'
<1> USE DEF IInv
<1>1. TypeOK'
  BY Writers DEF TypeOK, Answer, entryVars, lockVars, noteVars, Goto, Places
<1>2. LockHeld'
  BY Writers DEF LockHeld, Answer, lockVars, Goto, Locked, TypeOK
<1>3. EntryInFlight'
  BY Writers DEF EntryInFlight, Answer, entryVars, Goto, Over, TypeOK
<1>4. Tailed'
  <2>1. \A a \in Answers : a # <<>>
    BY DEF Answers
  <2> QED
    BY <2>1 DEF Tailed, Answer, Goto, TypeOK
<1>5. OnTip'
  BY Writers DEF OnTip, Answer, Goto, Locked, TypeOK
<1>6. Answered'
  <2>1. AnsweredBy(t) /\ UNCHANGED log /\ Own(t)' = Own(t)
    BY DEF Answered, Answer, Own
  <2>2. \A k : Has(t, k)' = Has(t, k) /\ Before(t, k)' = Before(t, k)
    BY <2>1 DEF Has, Before
  <2>a. \A a \in Answers : Head(a) = "call" \/ Head(a) = "reply"
    BY DEF Answers
  <2>3. AnsweredBy(t)'
    BY <2>a, <2>1, <2>2 DEF Before, Parts, AnsweredBy, Answer, Goto, Unanswered, Returned, Newest, TypeOK
  <2> QED
    BY <2>1, <2>3, Silent DEF Answer, Goto, TypeOK
<1>7. TurnsDontFork'
  BY DEF TurnsDontFork, Answer, TypeOK
<1> QED
  BY <1>1, <1>2, <1>3, <1>4, <1>5, <1>6, <1>7

(* A failed turn has said nothing of an answer.                             *)
LEMMA FailsKeeps ==
  ASSUME IInv, NEW t \in Turns, Fails(t)
  PROVE  IInv'
<1> USE DEF IInv
<1>1. TypeOK'
  BY Writers DEF TypeOK, Fails, entryVars, lockVars, turnVars, noteVars, Goto, Places
<1>2. LockHeld'
  BY Writers DEF LockHeld, Fails, lockVars, Goto, Locked, TypeOK
<1>3. EntryInFlight'
  BY Writers DEF EntryInFlight, Fails, entryVars, Goto, Over, TypeOK
<1>4. Tailed'
  BY DEF Tailed, Fails, turnVars, Goto, TypeOK
<1>5. OnTip'
  BY Writers DEF OnTip, Fails, turnVars, Goto, Locked, TypeOK
<1>6. Answered'
  <2>1. AnsweredBy(t) /\ UNCHANGED log /\ Own(t)' = Own(t)
    BY DEF Answered, Fails, Own
  <2>2. \A k : Has(t, k)' = Has(t, k) /\ Before(t, k)' = Before(t, k)
    BY <2>1 DEF Has, Before
  <2>3. AnsweredBy(t)'
    BY <2>1, <2>2 DEF AnsweredBy, Fails, turnVars, Goto, Unanswered, Returned, Newest, TypeOK
  <2> QED
    BY <2>1, <2>3, Silent DEF Fails, turnVars, Goto, TypeOK
<1>7. TurnsDontFork'
  BY DEF TurnsDontFork, Fails, TypeOK
<1> QED
  BY <1>1, <1>2, <1>3, <1>4, <1>5, <1>6, <1>7

(* turn_failure reads the leaf again, with the lock still held.             *)
LEMMA FailureReadsKeeps ==
  ASSUME IInv, NEW t \in Turns, FailureReads(t)
  PROVE  IInv'
<1> USE DEF IInv
<1>1. TypeOK'
  BY Writers DEF TypeOK, FailureReads, entryVars, lockVars, noteVars, Goto, Leaf, Places
<1>2. LockHeld'
  BY Writers DEF LockHeld, FailureReads, lockVars, Goto, Leaf, Locked, TypeOK
<1>3. EntryInFlight'
  BY Writers DEF EntryInFlight, FailureReads, entryVars, Goto, Leaf, Over, TypeOK
<1>4. Tailed'
  BY DEF Tailed, FailureReads, Goto, Leaf, TypeOK
<1>5. OnTip'
  BY Writers DEF OnTip, FailureReads, Goto, Leaf, Locked, TypeOK
<1>6. Answered'
  <2>1. AnsweredBy(t) /\ UNCHANGED log /\ Own(t)' = Own(t)
    BY DEF Answered, FailureReads, Own
  <2>2. \A k : Has(t, k)' = Has(t, k) /\ Before(t, k)' = Before(t, k)
    BY <2>1 DEF Has, Before
  <2>3. AnsweredBy(t)'
    BY <2>1, <2>2 DEF AnsweredBy, FailureReads, Goto, Leaf, Unanswered, Returned, Newest, TypeOK
  <2> QED
    BY <2>1, <2>3, Silent DEF FailureReads, Goto, Leaf, TypeOK
<1>7. TurnsDontFork'
  BY DEF TurnsDontFork, FailureReads, TypeOK
<1> QED
  BY <1>1, <1>2, <1>3, <1>4, <1>5, <1>6, <1>7

(* The failure note is the last thing the turn says.                        *)
LEMMA FailureLandsKeeps ==
  ASSUME IInv, NEW t \in Turns, FailureLands(t)
  PROVE  IInv'
<1> USE DEF IInv
<1>a. /\ log' \in Seq(Node) /\ Len(log') = Len(log) + 1 /\ Len(log) \in Nat
      /\ \A i \in 1 .. Len(log') : log'[i].parent < i /\ log'[i].source < i
      /\ parent' \in [Turns -> 0 .. Len(log')]
      /\ OnTip' /\ TurnsDontFork'
  <2>1. /\ pc[t] \in Locked \ {"loading"} /\ "error" \in Kinds /\ 0 \in 0 .. Len(log)
        /\ "ending" \in Locked
    BY DEF FailureLands, Locked, Kinds, TypeOK
  <2>2. Says(t, "error", 0) /\ Goto(t, "ending") /\ UNCHANGED lock
    BY DEF FailureLands, lockVars
  <2> QED
    BY <2>1, <2>2, Said
<1>1. TypeOK'
  BY <1>a, Grown DEF TypeOK, FailureLands, entryVars, lockVars, noteVars, Goto, Places
<1>2. LockHeld'
  BY Writers DEF LockHeld, FailureLands, lockVars, Goto, Says, Locked, TypeOK
<1>3. EntryInFlight'
  BY Writers DEF EntryInFlight, FailureLands, entryVars, Goto, Says, Over, TypeOK
<1>4. Tailed'
  BY DEF Tailed, FailureLands, Goto, Says, TypeOK
<1>5. OnTip'
  BY <1>a
<1>6. TurnsDontFork'
  BY <1>a
<1>7. Answered'
  <2>1. AnsweredBy(t) /\ pc[t] \in Unanswered /\ "error" \in Kinds /\ 0 \in 0 .. Len(log)
    BY DEF Answered, FailureLands, Unanswered, Kinds, TypeOK
  <2>2. /\ Own(t)' = Own(t) \cup {Len(log) + 1} /\ Own(t) \subseteq 1 .. Len(log)
        /\ Newest(Own(t))' = {Len(log) + 1}
        /\ \A i \in Own(t) : log'[i] = log[i]
        /\ log'[Len(log) + 1].kind = "error"
        /\ parent'[t] = Len(log) + 1
        /\ \A k : Has(t, k)' <=> Has(t, k) \/ k = "error"
    BY <2>1, Sayings DEF FailureLands
  <2>3. \A kind \in Parts : ~Has(t, kind)'
    BY <2>1, <2>2 DEF AnsweredBy, Parts
  <2>4. AnsweredBy(t)'
    BY <2>2, <2>3 DEF AnsweredBy, FailureLands, Goto, Returned, Has, TypeOK
  <2> QED
    BY <2>1, <2>4, Speaks DEF FailureLands, Goto, TypeOK
<1> QED
  BY <1>1, <1>2, <1>3, <1>4, <1>5, <1>6, <1>7

(* persist_tail says each part of the answer under the one before.          *)
LEMMA PersistKeeps ==
  ASSUME IInv, NEW t \in Turns, Persist(t)
  PROVE  IInv'
<1> USE DEF IInv
<1>0. /\ tail[t] # <<>> /\ Head(tail[t]) \in {"call", "result", "reply"}
      /\ Tail(tail[t]) \in {<<>>, <<"result", "reply">>} \cup Answers
      /\ Len(tail[t]) # 1 => Tail(tail[t]) # <<>>
      /\ Head(tail[t]) = "reply" <=> Len(tail[t]) = 1
      /\ Head(tail[t]) = "call" => Head(Tail(tail[t])) = "result"
      /\ Head(tail[t]) = "result" => Head(Tail(tail[t])) = "reply"
  <2>1. tail[t] \in {<<"result", "reply">>, <<"reply">>, <<"call", "result", "reply">>}
    BY DEF Persist, Tailed, TypeOK, Answers
  <2>2. CASE tail[t] = <<"reply">>
    BY <2>2 DEF Answers
  <2>3. CASE tail[t] = <<"result", "reply">>
    <3>1. Tail(tail[t]) = <<"reply">>
      BY <2>3
    <3> QED
      BY <2>3, <3>1, SMT DEF Answers
  <2>4. CASE tail[t] = <<"call", "result", "reply">>
    <3>1. Tail(tail[t]) = <<"result", "reply">>
      BY <2>4
    <3> QED
      BY <2>4, <3>1
  <2> QED
    BY <2>1, <2>2, <2>3, <2>4
<1>a. /\ log' \in Seq(Node) /\ Len(log') = Len(log) + 1 /\ Len(log) \in Nat
      /\ \A i \in 1 .. Len(log') : log'[i].parent < i /\ log'[i].source < i
      /\ parent' \in [Turns -> 0 .. Len(log')]
      /\ OnTip' /\ TurnsDontFork'
  <2>1. /\ pc[t] \in Locked \ {"loading"} /\ Head(tail[t]) \in Kinds /\ 0 \in 0 .. Len(log)
        /\ (IF Len(tail[t]) = 1 THEN "ending" ELSE "writing") \in Locked
    BY <1>0 DEF Persist, Locked, Kinds, TypeOK
  <2>2. /\ Says(t, Head(tail[t]), 0) /\ UNCHANGED lock
        /\ Goto(t, IF Len(tail[t]) = 1 THEN "ending" ELSE "writing")
    BY DEF Persist, lockVars
  <2> QED
    BY <2>1, <2>2, Said
<1>1. TypeOK'
  BY <1>0, <1>a, Grown DEF TypeOK, Persist, entryVars, lockVars, noteVars, Goto, Places
<1>2. LockHeld'
  BY Writers DEF LockHeld, Persist, lockVars, Goto, Says, Locked, TypeOK
<1>3. EntryInFlight'
  BY Writers DEF EntryInFlight, Persist, entryVars, Goto, Says, Over, TypeOK
<1>4. Tailed'
  BY <1>0 DEF Tailed, Persist, Goto, Says, TypeOK
<1>5. OnTip'
  BY <1>a
<1>6. TurnsDontFork'
  BY <1>a
<1>7. Answered'
  <2> PICK kind \in Parts : kind = Head(tail[t])
    BY <1>0 DEF Parts
  <2>1. AnsweredBy(t) /\ pc[t] = "writing" /\ kind \in Kinds /\ 0 \in 0 .. Len(log)
    BY DEF Answered, Persist, Kinds, Parts, TypeOK
  <2>2. Says(t, kind, 0)
    BY DEF Persist
  <2>3. /\ Own(t)' = Own(t) \cup {Len(log) + 1} /\ Own(t) \subseteq 1 .. Len(log)
        /\ Newest(Own(t))' = {Len(log) + 1}
        /\ \A i \in Own(t) : log'[i] = log[i]
        /\ log'[Len(log) + 1].kind = kind /\ log'[Len(log) + 1].parent = parent[t]
        /\ parent'[t] = Len(log) + 1 /\ Len(log) \in Nat
        /\ \A k : Has(t, k)' <=> Has(t, k) \/ k = kind
    BY <2>1, <2>2, Sayings
  <2>4. /\ parent[t] \in Own(t) /\ log[parent[t]].kind = Before(t, kind) /\ ~Has(t, "reply")
        /\ kind \in {"call", "result"} => ~Has(t, "result")
    BY <2>1 DEF AnsweredBy
  <2>5. \A k \in Parts : k # "reply" \/ kind = "reply" => Before(t, k)' = Before(t, k)
    BY <2>3 DEF Before, Parts
  <2>6. \A i \in Own(t) : log[i].kind \in Parts =>
            /\ log[i].kind # "reply"
            /\ log[i].parent \in Own(t) /\ log[log[i].parent].kind = Before(t, log[i].kind)
    BY <2>1, <2>4 DEF AnsweredBy, Has
  <2>7. ASSUME NEW i \in Own(t)', log'[i].kind \in Parts
        PROVE  /\ log'[i].parent \in Own(t)'
               /\ log'[log'[i].parent].kind = Before(t, log[i].kind)'
    <3>1. CASE i = Len(log) + 1
      <4>1. log'[i].kind = kind /\ log'[i].parent = parent[t]
        BY <2>3, <3>1
      <4>2. log'[parent[t]].kind = Before(t, kind) /\ parent[t] \in Own(t)'
        BY <2>3, <2>4
      <4>3. Before(t, kind)' = Before(t, kind)
        BY <2>5 DEF Parts
      <4> QED
        BY <4>1, <4>2, <4>3 DEF Before
    <3>2. CASE i \in Own(t)
      <4>1. log'[i] = log[i] /\ log[i].kind \in Parts \ {"reply"}
        BY <2>3, <2>6, <2>7, <3>2
      <4>2. /\ log[i].parent \in Own(t) /\ log[log[i].parent].kind = Before(t, log[i].kind)
            /\ log'[log[i].parent] = log[log[i].parent]
        BY <2>3, <2>6, <3>2, <4>1
      <4> QED
        BY <2>3, <4>1, <4>2 DEF Before, Parts
    <3> QED
      BY <2>3, <3>1, <3>2
  <2>8. CASE Len(tail[t]) = 1
    <3>1. pc'[t] = "ending" /\ kind = "reply"
      BY <1>0, <2>8 DEF Persist, Goto, TypeOK
    <3>2. AnsweredBy(t)'
      BY <2>3, <2>7, <3>1 DEF AnsweredBy, Unanswered, Returned
    <3> QED
      BY <2>1, <2>2, <3>2, Speaks DEF Persist, Goto, TypeOK
  <2>9. CASE Len(tail[t]) # 1
    <3>1. /\ pc'[t] = "writing" /\ tail'[t] = Tail(tail[t]) /\ kind \in {"call", "result"}
          /\ Head(tail'[t]) = IF kind = "call" THEN "result" ELSE "reply"
      BY <1>0, <2>9 DEF Persist, Goto, TypeOK, Parts
    <3>2. Before(t, Head(tail[t]))' = kind
      BY <2>3, <3>1 DEF Before
    <3>3. log'[parent'[t]].kind = kind /\ parent'[t] \in Own(t)' /\ ~Has(t, "reply")'
      BY <2>3, <2>4, <3>1
    <3>4. Head(tail'[t]) \in {"call", "result"} => ~Has(t, "result")'
      BY <2>3, <2>4, <3>1
    <3>5. AnsweredBy(t)'
      BY <2>7, <3>1, <3>2, <3>3, <3>4 DEF AnsweredBy, Unanswered, Returned
    <3> QED
      BY <2>1, <2>2, <3>5, Speaks DEF Persist, Goto, TypeOK
  <2> QED
    BY <2>8, <2>9
<1> QED
  BY <1>1, <1>2, <1>3, <1>4, <1>5, <1>6, <1>7

(* The lock is given up by the turn that holds it.                          *)
LEMMA ReturnsKeeps ==
  ASSUME IInv, NEW t \in Turns, Returns(t)
  PROVE  IInv'
<1> USE DEF IInv
<1>1. TypeOK'
  BY Writers DEF TypeOK, Returns, noteVars, Goto, Forget, Places
<1>2. LockHeld'
  BY Writers DEF LockHeld, Returns, Goto, Forget, Locked, TypeOK
<1>3. EntryInFlight'
  BY Writers DEF EntryInFlight, Returns, Goto, Forget, Over, TypeOK
<1>4. Tailed'
  BY DEF Tailed, Returns, Goto, Forget, TypeOK
<1>5. OnTip'
  BY Writers DEF OnTip, Returns, Goto, Forget, Locked, TypeOK
<1>6. Answered'
  <2>1. AnsweredBy(t) /\ UNCHANGED log /\ Own(t)' = Own(t)
    BY DEF Answered, Returns, Own
  <2>2. \A k : Has(t, k)' = Has(t, k) /\ Before(t, k)' = Before(t, k)
    BY <2>1 DEF Has, Before
  <2>3. AnsweredBy(t)'
    BY <2>1, <2>2 DEF AnsweredBy, Returns, Goto, Forget, Unanswered, Returned, Newest, TypeOK
  <2> QED
    BY <2>1, <2>3, Silent DEF Returns, Goto, Forget, TypeOK
<1>7. TurnsDontFork'
  BY DEF TurnsDontFork, Returns, TypeOK
<1> QED
  BY <1>1, <1>2, <1>3, <1>4, <1>5, <1>6, <1>7

(* The pump has drained.                                                    *)
LEMMA FlushedKeeps ==
  ASSUME IInv, NEW t \in Turns, Flushed(t)
  PROVE  IInv'
<1> USE DEF IInv
<1>1. TypeOK'
  BY Writers DEF TypeOK, Flushed, entryVars, lockVars, turnVars, noteVars, Goto, Places
<1>2. LockHeld'
  BY Writers DEF LockHeld, Flushed, lockVars, Goto, Locked, TypeOK
<1>3. EntryInFlight'
  BY Writers DEF EntryInFlight, Flushed, entryVars, Goto, Over, TypeOK
<1>4. Tailed'
  BY DEF Tailed, Flushed, turnVars, Goto, TypeOK
<1>5. OnTip'
  BY Writers DEF OnTip, Flushed, turnVars, Goto, Locked, TypeOK
<1>6. Answered'
  <2>1. AnsweredBy(t) /\ UNCHANGED log /\ Own(t)' = Own(t)
    BY DEF Answered, Flushed, Own
  <2>2. \A k : Has(t, k)' = Has(t, k) /\ Before(t, k)' = Before(t, k)
    BY <2>1 DEF Has, Before
  <2>3. AnsweredBy(t)'
    BY <2>1, <2>2 DEF AnsweredBy, Flushed, turnVars, Goto, Unanswered, Returned, Newest, TypeOK
  <2> QED
    BY <2>1, <2>3, Silent DEF Flushed, turnVars, Goto, TypeOK
<1>7. TurnsDontFork'
  BY DEF TurnsDontFork, Flushed, TypeOK
<1> QED
  BY <1>1, <1>2, <1>3, <1>4, <1>5, <1>6, <1>7

(* A turn that retires leaves the map without an entry.                     *)
LEMMA RetireKeeps ==
  ASSUME IInv, NEW t \in Turns, Retire(t)
  PROVE  IInv'
<1> USE DEF IInv
<1>1. TypeOK'
  BY Writers DEF TypeOK, Retire, lockVars, turnVars, noteVars, Goto, Places
<1>2. LockHeld'
  BY Writers DEF LockHeld, Retire, lockVars, Goto, Locked, TypeOK
<1>3. EntryInFlight'
  BY Writers DEF EntryInFlight, Retire, Goto, Over, TypeOK
<1>4. Tailed'
  BY DEF Tailed, Retire, turnVars, Goto, TypeOK
<1>5. OnTip'
  BY Writers DEF OnTip, Retire, turnVars, Goto, Locked, TypeOK
<1>6. Answered'
  <2>1. AnsweredBy(t) /\ UNCHANGED log /\ Own(t)' = Own(t)
    BY DEF Answered, Retire, Own
  <2>2. \A k : Has(t, k)' = Has(t, k) /\ Before(t, k)' = Before(t, k)
    BY <2>1 DEF Has, Before
  <2>3. AnsweredBy(t)'
    BY <2>1, <2>2 DEF AnsweredBy, Retire, turnVars, Goto, Unanswered, Returned, Newest, TypeOK
  <2> QED
    BY <2>1, <2>3, Silent DEF Retire, turnVars, Goto, TypeOK
<1>7. TurnsDontFork'
  BY DEF TurnsDontFork, Retire, TypeOK
<1> QED
  BY <1>1, <1>2, <1>3, <1>4, <1>5, <1>6, <1>7

(* A note's writer reads the leaf without the lock.                         *)
LEMMA NoteReadsKeeps ==
  ASSUME IInv, NEW n \in Notes, NoteReads(n)
  PROVE  IInv'
<1> USE DEF IInv
<1>1. TypeOK'
  BY Writers DEF TypeOK, NoteReads, entryVars, lockVars, turnVars, Leaf, Places
<1>2. LockHeld' /\ EntryInFlight' /\ Tailed' /\ OnTip' /\ TurnsDontFork'
  BY DEF LockHeld, NoteReads, lockVars, Locked, TypeOK, EntryInFlight, entryVars, Over,
      Tailed, turnVars, OnTip, TurnsDontFork
<1>3. Answered'
  BY Still DEF NoteReads, turnVars
<1> QED
  BY <1>1, <1>2, <1>3

(* A note lands under what its writer read, and is nobody's answer.         *)
LEMMA NoteLandsKeeps ==
  ASSUME IInv, NEW n \in Notes, NoteLands(n)
  PROVE  IInv'
<1> USE DEF IInv
<1> DEFINE node == [kind |-> "note", of |-> n, parent |-> noteParent[n], source |-> 0]
<1>a. TypeOK /\ "note" \in Kinds /\ noteParent[n] \in 0 .. Len(log) /\ 0 \in 0 .. Len(log)
  BY DEF TypeOK, Kinds
<1>b. /\ log' \in Seq(Node) /\ Len(log') = Len(log) + 1 /\ Len(log) \in Nat
      /\ \A i \in 1 .. Len(log) : log'[i] = log[i]
      /\ log'[Len(log) + 1] = node
      /\ \A i \in 1 .. Len(log') : log'[i].parent < i /\ log'[i].source < i
  BY <1>a, Appended DEF NoteLands
<1>1. TypeOK'
  <2>1. /\ noteParent' \in [Notes -> 0 .. Len(log')] /\ Len(log') > 0
        /\ notePc' \in [Notes -> {"none", "read", "done", "lost"}]
    BY <1>a, <1>b, Grown DEF NoteLands, TypeOK
  <2> QED
    BY <1>a, <1>b, <2>1, Grown DEF TypeOK, NoteLands, entryVars, lockVars, turnVars
<1>2. OnTip'
  BY <1>a, <1>b DEF OnTip, NoteLands, turnVars, TypeOK
<1>3. TurnsDontFork'
  <2> SUFFICES ASSUME NEW j \in 1 .. Len(log'), log'[j].of \in Turns,
                      NEW k \in log'[j].parent + 1 .. j - 1
               PROVE  log'[k].kind = "note"
    BY DEF TurnsDontFork
  <2>1. j \in 1 .. Len(log)
    BY <1>b, Writers
  <2>2. log'[j] = log[j] /\ log[j] \in Node
    BY <1>b, <2>1 DEF TypeOK
  <2>3. k \in 1 .. Len(log)
    BY <1>b, <2>1, <2>2, SMTT(60) DEF Node
  <2> QED
    BY <1>b, <2>1, <2>2, <2>3 DEF TurnsDontFork
<1>4. Answered'
  <2>1. ASSUME NEW u \in Turns PROVE AnsweredBy(u)'
    <3>1. node \in Node /\ log' = Append(log, node) /\ u # node.of
      BY <1>a, Writers DEF Node, NoteLands
    <3>2. Own(u)' = Own(u) /\ \A i \in Own(u) : log'[i] = log[i]
      BY <1>a, <3>1, Adds
    <3> QED
      BY <3>2, Unmoved DEF NoteLands, turnVars, Answered
  <2> QED
    BY <2>1 DEF Answered
<1>5. LockHeld' /\ EntryInFlight' /\ Tailed'
  BY DEF LockHeld, NoteLands, lockVars, Locked, TypeOK, EntryInFlight, entryVars, Over,
      Tailed, turnVars
<1> QED
  BY <1>1, <1>2, <1>3, <1>4, <1>5

(* After a restart nothing is in flight and the log is what it was.         *)
LEMMA RestartKeeps ==
  ASSUME IInv, Restart
  PROVE  IInv'
<1> USE DEF IInv
<1>a. \A t \in Turns : pc'[t] \in Over
  BY DEF Restart, Over
<1>b. lock' = NoTurn /\ log' = log /\ parent' = [t \in Turns |-> 0]
  BY DEF Restart
<1>1. TypeOK'
  <2>1. pc' \in [Turns -> Places]
    BY DEF Restart, TypeOK, Places, Over
  <2>2. parent' \in [Turns -> 0 .. Len(log')] /\ noteParent' \in [Notes -> 0 .. Len(log')]
    BY DEF Restart, TypeOK
  <2>3. keep' \in [Turns -> SUBSET (1 .. Len(log'))] /\ queue' \in Seq(Turns)
    BY DEF Restart
  <2>4. /\ notePc' \in [Notes -> {"none", "read", "done", "lost"}]
        /\ tail' \in [Turns -> {<<>>} \cup {<<"result", "reply">>} \cup Answers]
    BY DEF Restart, TypeOK
  <2>5. restarts' \in 0 .. MaxRestarts
    BY ChatAssumption DEF Restart, TypeOK
  <2> QED
    BY <2>1, <2>2, <2>3, <2>4, <2>5 DEF Restart, TypeOK
<1>2. LockHeld'
  BY <1>a, <1>b, Writers, LockedPlaces DEF LockHeld
<1>3. EntryInFlight'
  BY Writers DEF EntryInFlight, Restart, Over, TypeOK
<1>4. Tailed'
  BY <1>a DEF Tailed, Over
<1>5. OnTip'
  BY <1>a, LockedPlaces DEF OnTip
<1>6. Answered'
  <2>1. ASSUME NEW t \in Turns PROVE AnsweredBy(t)'
    <3>1. Own(t)' = Own(t) /\ AnsweredBy(t)
      BY <1>b DEF Own, Answered
    <3>2. \A k : Has(t, k)' = Has(t, k) /\ Before(t, k)' = Before(t, k)
      BY <1>b, <3>1 DEF Has, Before
    <3>3. pc'[t] = IF pc[t] \in Over THEN pc[t] ELSE "gone"
      BY DEF Restart
    <3> QED
      BY <1>b, <3>1, <3>2, <3>3 DEF AnsweredBy, Unanswered, Returned, Newest, Over
  <2> QED
    BY <2>1 DEF Answered
<1>7. TurnsDontFork'
  BY DEF TurnsDontFork, Restart, TypeOK
<1> QED
  BY <1>1, <1>2, <1>3, <1>4, <1>5, <1>6, <1>7

-----------------------------------------------------------------------------
(* The invariant holds.                                                      *)

(* A conversation begins with its history, and nothing is in flight.        *)
LEMMA InitIInv == Init => IInv
<1> SUFFICES ASSUME Init PROVE IInv
  OBVIOUS
<1> USE Writers DEF Init
<1>1. /\ Len(History) \in Nat /\ Len(History) > 0
      /\ \A i \in 1 .. Len(History) : History[i] \in Kinds
  BY HistoryAssumption
<1>2. /\ log \in Seq(Node) /\ Len(log) = Len(History)
      /\ \A i \in 1 .. Len(log) : /\ log[i].parent < i /\ log[i].source < i
                                  /\ log[i].of = NoTurn
  <2>1. \A i \in 1 .. Len(History) : i - 1 \in Nat
    BY <1>1
  <2>2. \A i \in 1 .. Len(History) :
           [kind |-> History[i], of |-> NoTurn, parent |-> i - 1, source |-> 0] \in Node
    BY <1>1, <2>1 DEF Node
  <2> QED
    BY <1>1, <2>2
<1>3. TypeOK
  <2>1. 0 \in 0 .. MaxRestarts
    BY ChatAssumption
  <2>2. 0 \in 0 .. Len(log) /\ Len(log) > 0
    BY <1>1, <1>2
  <2> QED
    BY <1>2, <2>1, <2>2 DEF TypeOK, Places
<1>4. LockHeld /\ EntryInFlight /\ Tailed /\ OnTip
  BY DEF LockHeld, EntryInFlight, Tailed, OnTip, Locked, Over
<1>5. TurnsDontFork
  BY <1>2 DEF TurnsDontFork
<1>6. Answered
  BY <1>2 DEF Answered, AnsweredBy, Own, Has, Unanswered, Returned
<1> QED
  BY <1>3, <1>4, <1>5, <1>6 DEF IInv

(* Every await of a turn, a note, a cancel and a restart keeps it.          *)
LEMMA StepIInv == IInv /\ [Next]_vars => IInv'
<1> SUFFICES ASSUME IInv, [Next]_vars PROVE IInv'
  OBVIOUS
<1>1. ASSUME NEW t \in Turns, Proceeds(t) PROVE IInv'
  BY <1>1, EnterKeeps, GrantedKeeps, LoadKeeps, MarkKeeps, CopyKeeps, AskKeeps,
      FailureReadsKeeps, FailureLandsKeeps, PersistKeeps, ReturnsKeeps, FlushedKeeps,
      RetireKeeps, DropKeeps DEF Proceeds
<1>2. ASSUME NEW t \in Turns, Replies(t) PROVE IInv'
  BY <1>2, SummarizedKeeps, NoSummaryKeeps, AnswerKeeps, FailsKeeps DEF Replies
<1>3. ASSUME NEW t \in Hosted, Host(t) \/ Arm(t) PROVE IInv'
  BY <1>3, HostKeeps, ArmKeeps
<1>4. ASSUME NEW t \in Direct, Post(t) \/ Disconnect(t) PROVE IInv'
  BY <1>4, PostKeeps, DisconnectKeeps
<1>5. CASE Cancel \/ Restart
  BY <1>5, CancelKeeps, RestartKeeps
<1>6. ASSUME NEW n \in Notes, NoteReads(n) \/ NoteLands(n) PROVE IInv'
  BY <1>6, NoteReadsKeeps, NoteLandsKeeps
<1>7. CASE UNCHANGED vars
  <2> USE <1>7 DEF vars, entryVars, lockVars, turnVars, noteVars
  <2>1. TypeOK'
    BY DEF IInv, TypeOK
  <2>2. LockHeld' /\ EntryInFlight' /\ Tailed'
    BY DEF IInv, LockHeld, EntryInFlight, Tailed
  <2>3. OnTip' /\ TurnsDontFork'
    BY DEF IInv, OnTip, TurnsDontFork
  <2>4. Answered'
    BY Still
  <2> QED
    BY <2>1, <2>2, <2>3, <2>4 DEF IInv
<1> QED
  BY <1>1, <1>2, <1>3, <1>4, <1>5, <1>6, <1>7 DEF Next

(* The invariant in every behaviour.                                        *)
THEOREM Invariant == Spec => []IInv
BY InitIInv, StepIInv, PTL DEF Spec

-----------------------------------------------------------------------------
(* What follows for the conversation.                                        *)

(* Every variable stays in its range, and a node's parent is an older node, *)
(* so leaf_path ends.                                                       *)
THEOREM Typed == Spec => []TypeOK
<1>1. IInv => TypeOK
  BY DEF IInv
<1> QED
  BY <1>1, Invariant, PTL

(* What a turn writes takes nothing another turn wrote off the path, however*)
(* aborts, restarts, compaction and failure notes interleave: notes alone   *)
(* lie between a turn's message and its parent (turn_stream, persist_tail). *)
THEOREM NoTurnForks == Spec => []TurnsDontFork
<1>1. IInv => TurnsDontFork
  BY DEF IInv
<1> QED
  BY <1>1, Invariant, PTL

(* A turn that returned left its whole answer, one message under the other, *)
(* or its failure note, whatever others appended in between (persist_tail,  *)
(* turn_failure).                                                           *)
THEOREM AnswersAreWhole == Spec => []AnswersStandWhole
<1>1. IInv => AnswersStandWhole
  BY DEF IInv, Answered, AnsweredBy, AnswersStandWhole, Returned, Parts
<1> QED
  BY <1>1, Invariant, PTL

(* The entry in the running map is a turn in flight, whoever cancels it and *)
(* whenever it retires (start_or_attach, cancel_turn, spawn_turn).          *)
THEOREM EntryIsLive == Spec => []EntryHasTask
<1>1. IInv => EntryHasTask
  BY DEF IInv, EntryInFlight, EntryHasTask
<1> QED
  BY <1>1, Invariant, PTL

-----------------------------------------------------------------------------
(* The queue for the lock.                                                   *)

(* The turns that wait are the turns of the queue, each once.               *)
QueueWaits ==
    /\ \A i \in 1 .. Len(queue) : pc[queue[i]] = "waiting"
    /\ \A i, j \in 1 .. Len(queue) : queue[i] = queue[j] => i = j
    /\ \A t \in Turns : pc[t] = "waiting" => \E i \in 1 .. Len(queue) : queue[i] = t

WInv == IInv /\ QueueWaits

(* A step after which the same turns wait, in the same order.               *)
QueueStays ==
    /\ UNCHANGED queue
    /\ \A u \in Turns : pc'[u] = "waiting" <=> pc[u] = "waiting"

(* Such a step keeps the queue.                                             *)
LEMMA StaysKeeps == ASSUME WInv, QueueStays PROVE QueueWaits'
<1>1. \A i \in 1 .. Len(queue) : queue[i] \in Turns
  BY DEF WInv, IInv, TypeOK
<1> QED
  BY <1>1 DEF WInv, QueueWaits, QueueStays

(* A turn that goes on, from elsewhere than the queue to elsewhere.         *)
LEMMA GoesOn ==
  ASSUME WInv, NEW t \in Turns, UNCHANGED queue, pc[t] # "waiting",
         NEW place, place # "waiting", Goto(t, place)
  PROVE  QueueStays
BY DEF QueueStays, Goto, WInv, IInv, TypeOK

(* Nothing is lost where two sequences are joined.                          *)
LEMMA Joined ==
  ASSUME NEW a \in Seq(Turns), NEW b \in Seq(Turns)
  PROVE  Len(a \o b) = Len(a) + Len(b)
OBVIOUS

(* What is left of a sequence without its i-th element.                     *)
LEMMA RemovedAt ==
  ASSUME NEW q \in Seq(Turns), NEW i \in 1 .. Len(q)
  PROVE  LET r == RemoveAt(q, i)
         IN  /\ Len(r) = Len(q) - 1
             /\ \A k \in 1 .. Len(r) : r[k] = q[IF k < i THEN k ELSE k + 1]
<1> DEFINE front == SubSeq(q, 1, i - 1)
           back == SubSeq(q, i + 1, Len(q))
<1>1. Len(q) \in Nat /\ i \in Nat /\ 1 <= i /\ i <= Len(q)
  OBVIOUS
<1>2. /\ front \in Seq(Turns) /\ Len(front) = i - 1
      /\ \A k \in 1 .. i - 1 : front[k] = q[k]
  BY <1>1
<1>3. /\ back \in Seq(Turns) /\ Len(back) = Len(q) - i
      /\ \A k \in 1 .. Len(q) - i : back[k] = q[k + i]
  BY <1>1
<1>4. RemoveAt(q, i) = front \o back
  BY DEF RemoveAt
<1> HIDE DEF front, back
<1>5. Len(front \o back) = Len(q) - 1
  <2>1. Len(front \o back) = Len(front) + Len(back)
    BY <1>2, <1>3, Joined
  <2>2. i - 1 + (Len(q) - i) = Len(q) - 1
    BY <1>1
  <2> QED
    BY <1>2, <1>3, <2>1, <2>2
<1>6. ASSUME NEW k \in 1 .. Len(q) - 1
      PROVE  (front \o back)[k] = q[IF k < i THEN k ELSE k + 1]
  <2>1. CASE k < i
    BY <1>1, <1>2, <1>3, <2>1
  <2>2. CASE ~ (k < i)
    <3>1. (front \o back)[k] = back[k - (i - 1)] /\ k - (i - 1) \in 1 .. Len(q) - i
      BY <1>1, <1>2, <1>3, <2>2
    <3>2. back[k - (i - 1)] = q[k - (i - 1) + i]
      BY <1>3, <3>1
    <3>3. k - (i - 1) + i = k + 1
      BY <1>1
    <3> QED
      BY <2>2, <3>1, <3>2, <3>3
  <2> QED
    BY <2>1, <2>2
<1> QED
  BY <1>4, <1>5, <1>6

(* session_lock appends the turn that finds it taken.                       *)
LEMMA EnterQueues == ASSUME WInv, NEW t \in Turns, Enter(t) PROVE QueueWaits'
<1>1. TypeOK /\ pc[t] = "spawned" /\ queue \in Seq(Turns) /\ Len(queue) \in Nat
  BY DEF WInv, IInv, TypeOK, Enter
<1>2. CASE Goto(t, "loading") /\ UNCHANGED queue
  BY <1>1, <1>2, GoesOn, StaysKeeps
<1>3. CASE queue' = Append(queue, t) /\ Goto(t, "waiting")
  <2>1. /\ Len(queue') = Len(queue) + 1 /\ queue'[Len(queue) + 1] = t
        /\ \A i \in 1 .. Len(queue) : queue'[i] = queue[i] /\ queue[i] \in Turns
    BY <1>1, <1>3
  <2>2. pc' = [pc EXCEPT ![t] = "waiting"] /\ pc \in [Turns -> Places]
    BY <1>1, <1>3 DEF Goto, TypeOK
  <2>3. \A i \in 1 .. Len(queue) : queue[i] # t
    BY <1>1 DEF WInv, QueueWaits
  <2>4. \A i \in 1 .. Len(queue') : i \in 1 .. Len(queue) \/ i = Len(queue) + 1
    BY <1>1, <2>1
  <2>5. 1 .. Len(queue) \subseteq 1 .. Len(queue') /\ Len(queue) + 1 \in 1 .. Len(queue')
    BY <1>1, <2>1
  <2>6. \A i \in 1 .. Len(queue') : pc'[queue'[i]] = "waiting"
    BY <2>1, <2>2, <2>4 DEF WInv, QueueWaits
  <2>7. \A i, j \in 1 .. Len(queue') : queue'[i] = queue'[j] => i = j
    BY <2>1, <2>3, <2>4 DEF WInv, QueueWaits
  <2>8. \A u \in Turns : pc'[u] = "waiting" => \E i \in 1 .. Len(queue') : queue'[i] = u
    BY <2>1, <2>2, <2>5 DEF WInv, QueueWaits
  <2> QED
    BY <2>6, <2>7, <2>8 DEF QueueWaits
<1> QED
  BY <1>2, <1>3 DEF Enter

(* A turn that leaves the queue from its i-th place leaves the rest as they *)
(* were.                                                                    *)
LEMMA Leaves ==
  ASSUME WInv, NEW t \in Turns, NEW i \in 1 .. Len(queue), queue[i] = t,
         Len(queue') = Len(queue) - 1,
         \A k \in 1 .. Len(queue') : queue'[k] = queue[IF k < i THEN k ELSE k + 1],
         NEW place, place # "waiting", Goto(t, place)
  PROVE  QueueWaits'
<1> DEFINE from(k) == IF k < i THEN k ELSE k + 1
<1>1. /\ Len(queue) \in Nat /\ \A k \in 1 .. Len(queue) : queue[k] \in Turns
      /\ pc \in [Turns -> Places]
  BY DEF WInv, IInv, TypeOK
<1>2. pc' = [pc EXCEPT ![t] = place]
  BY DEF Goto
<1>3. \A k \in 1 .. Len(queue') : from(k) \in 1 .. Len(queue) /\ from(k) # i
  BY <1>1
<1>4. \A j, k \in 1 .. Len(queue') : from(j) = from(k) => j = k
  BY <1>1
<1>5. ASSUME NEW j \in 1 .. Len(queue), j # i
      PROVE  \E k \in 1 .. Len(queue') : from(k) = j
  <2>1. CASE j < i
    <3>1. j \in 1 .. Len(queue') /\ from(j) = j
      BY <1>1, <2>1
    <3> QED
      BY <3>1
  <2>2. CASE ~ (j < i)
    <3>1. j - 1 \in 1 .. Len(queue') /\ from(j - 1) = j
      BY <1>1, <1>5, <2>2
    <3> QED
      BY <3>1
  <2> QED
    BY <2>1, <2>2
<1>6. \A k \in 1 .. Len(queue') : queue'[k] = queue[from(k)]
  OBVIOUS
<1> HIDE DEF from
<1>7. /\ \A k \in 1 .. Len(queue) : pc[queue[k]] = "waiting"
      /\ \A j, k \in 1 .. Len(queue) : queue[j] = queue[k] => j = k
      /\ \A u \in Turns : pc[u] = "waiting" => \E k \in 1 .. Len(queue) : queue[k] = u
  BY DEF WInv, QueueWaits
<1>8. \A k \in 1 .. Len(queue') : pc'[queue'[k]] = "waiting"
  BY <1>1, <1>2, <1>3, <1>6, <1>7
<1>9. \A j, k \in 1 .. Len(queue') : queue'[j] = queue'[k] => j = k
  BY <1>3, <1>4, <1>6, <1>7
<1>10. ASSUME NEW u \in Turns, pc'[u] = "waiting"
       PROVE  \E k \in 1 .. Len(queue') : queue'[k] = u
  <2>1. u # t /\ pc[u] = "waiting"
    BY <1>1, <1>2, <1>10
  <2>2. PICK j \in 1 .. Len(queue) : queue[j] = u
    BY <1>7, <2>1
  <2>3. PICK k \in 1 .. Len(queue') : from(k) = j
    BY <1>5, <2>1, <2>2
  <2> QED
    BY <1>6, <2>2, <2>3
<1> QED
  BY <1>8, <1>9, <1>10 DEF QueueWaits

(* The lock is handed to the head of the queue.                             *)
LEMMA GrantedQueues == ASSUME WInv, NEW t \in Turns, Granted(t) PROVE QueueWaits'
<1>1. queue \in Seq(Turns) /\ Len(queue) \in Nat
  BY DEF WInv, IInv, TypeOK
<1>2. queue # <<>> /\ Head(queue) = t /\ queue' = Tail(queue) /\ Goto(t, "loading")
  BY DEF Granted
<1>3. 1 \in 1 .. Len(queue) /\ queue[1] = t /\ Len(queue') = Len(queue) - 1
  BY <1>1, <1>2
<1>4. \A k \in 1 .. Len(queue') : queue'[k] = queue[k + 1]
  BY <1>1, <1>2
<1>5. \A k \in 1 .. Len(queue') : (IF k < 1 THEN k ELSE k + 1) = k + 1
  BY <1>1, <1>3
<1>6. \A k \in 1 .. Len(queue') : queue'[k] = queue[IF k < 1 THEN k ELSE k + 1]
  BY <1>4, <1>5
<1> QED
  BY <1>2, <1>3, <1>6, Leaves

(* A turn that is dropped while it waits gives up its place.                *)
LEMMA DropQueues == ASSUME WInv, NEW t \in Turns, Drop(t) PROVE QueueWaits'
<1>1. queue \in Seq(Turns) /\ DOMAIN queue = 1 .. Len(queue) /\ Goto(t, "gone")
  BY DEF WInv, IInv, TypeOK, Drop
<1>2. CASE pc[t] = "waiting"
  <2>1. PICK i \in 1 .. Len(queue) : queue[i] = t /\ queue' = RemoveAt(queue, i)
    BY <1>1, <1>2 DEF Drop, Unqueue
  <2>2. /\ Len(queue') = Len(queue) - 1
        /\ \A k \in 1 .. Len(queue') : queue'[k] = queue[IF k < i THEN k ELSE k + 1]
    BY <1>1, <2>1, RemovedAt
  <2> QED
    BY <1>1, <2>1, <2>2, Leaves
<1>3. CASE pc[t] # "waiting"
  <2>1. UNCHANGED queue
    BY <1>3 DEF Drop, Unqueue
  <2> QED
    BY <1>1, <1>3, <2>1, GoesOn, StaysKeeps
<1> QED
  BY <1>2, <1>3

(* A restart leaves nobody waiting.                                         *)
LEMMA RestartQueues == ASSUME WInv, Restart PROVE QueueWaits'
<1>1. Len(queue') = 0 /\ \A t \in Turns : pc'[t] # "waiting"
  BY DEF Restart, Over
<1> QED
  BY <1>1 DEF QueueWaits

(* Every await of a turn, a note, a cancel and a restart keeps the queue.   *)
LEMMA StepQueues == WInv /\ [Next]_vars => QueueWaits'
<1> SUFFICES ASSUME WInv, [Next]_vars PROVE QueueWaits'
  OBVIOUS
<1>1. ASSUME NEW t \in Turns, Proceeds(t) PROVE QueueWaits'
  <2>1. CASE Enter(t) \/ Granted(t) \/ Drop(t)
    BY <2>1, EnterQueues, GrantedQueues, DropQueues
  <2>2. CASE Load(t) \/ Mark(t) \/ Ask(t) \/ FailureReads(t) \/ FailureLands(t) \/ Flushed(t)
    BY <2>2, GoesOn, StaysKeeps
    DEF Load, Mark, Ask, FailureReads, FailureLands, Flushed, lockVars
  <2>3. CASE Copy(t)
    BY <2>3, GoesOn, StaysKeeps DEF Copy, lockVars
  <2>4. CASE Persist(t)
    BY <2>4, GoesOn, StaysKeeps DEF Persist, lockVars
  <2>5. CASE Returns(t) \/ Retire(t)
    BY <2>5, GoesOn, StaysKeeps DEF Returns, Retire, lockVars
  <2> QED
    BY <1>1, <2>1, <2>2, <2>3, <2>4, <2>5 DEF Proceeds
<1>2. ASSUME NEW t \in Turns, Replies(t) PROVE QueueWaits'
  BY <1>2, GoesOn, StaysKeeps DEF Replies, Summarized, NoSummary, Answer, Fails, lockVars
<1>3. ASSUME NEW t \in Hosted, Host(t) \/ Arm(t) PROVE QueueWaits'
  <2>1. t \in Turns
    BY Writers
  <2>2. CASE Host(t)
    BY <2>1, <2>2, GoesOn, StaysKeeps DEF Host, lockVars
  <2>3. CASE Arm(t)
    BY <2>3, StaysKeeps DEF Arm, lockVars, QueueStays
  <2> QED
    BY <1>3, <2>2, <2>3
<1>4. ASSUME NEW t \in Direct, Post(t) \/ Disconnect(t) PROVE QueueWaits'
  <2>1. t \in Turns
    BY Writers
  <2>2. CASE Post(t)
    BY <2>1, <2>2, GoesOn, StaysKeeps DEF Post, lockVars
  <2>3. CASE Disconnect(t)
    BY <2>3, StaysKeeps DEF Disconnect, lockVars, QueueStays
  <2> QED
    BY <1>4, <2>2, <2>3
<1>5. CASE Cancel
  BY <1>5, StaysKeeps DEF Cancel, lockVars, QueueStays
<1>6. ASSUME NEW n \in Notes, NoteReads(n) \/ NoteLands(n) PROVE QueueWaits'
  BY <1>6, StaysKeeps DEF NoteReads, NoteLands, lockVars, QueueStays
<1>7. CASE Restart
  BY <1>7, RestartQueues
<1>8. CASE UNCHANGED vars
  BY <1>8, StaysKeeps DEF vars, lockVars, QueueStays
<1> QED
  BY <1>1, <1>2, <1>3, <1>4, <1>5, <1>6, <1>7, <1>8 DEF Next

(* What a turn that waits for the lock can count on: a turn in flight holds *)
(* it and will give it up, or it is free and the head of the queue, which   *)
(* waits for it and is there once, can take it or is being dropped.         *)
HandedOn ==
    \A t \in Turns : pc[t] = "waiting" =>
        \/ lock \in Turns /\ pc[lock] \in Locked
        \/ lock = NoTurn /\ queue # <<>> /\ pc[Head(queue)] = "waiting"

(* No abort at any await, no failure, no return and no restart leaves the   *)
(* lock held by a turn that is over, a place in the queue that nobody waits *)
(* in, or a turn that waits outside of the queue (session_lock and the      *)
(* guard that is dropped with the turn).                                    *)
THEOREM LockIsHandedOn == Spec => [](QueueWaits /\ HandedOn)
<1>1. Init => WInv
  <2> SUFFICES ASSUME Init PROVE WInv
    OBVIOUS
  <2>1. Len(queue) = 0 /\ \A t \in Turns : pc[t] # "waiting"
    BY DEF Init
  <2> QED
    BY <2>1, InitIInv DEF WInv, QueueWaits
<1>2. WInv /\ [Next]_vars => WInv'
  BY StepIInv, StepQueues DEF WInv
<1>3. WInv => QueueWaits /\ HandedOn
  <2> SUFFICES ASSUME WInv PROVE HandedOn
    BY DEF WInv
  <2>1. ASSUME NEW t \in Turns, pc[t] = "waiting", lock \notin Turns
        PROVE  lock = NoTurn /\ queue # <<>> /\ pc[Head(queue)] = "waiting"
    <3>1. PICK i \in 1 .. Len(queue) : queue[i] = t
      BY <2>1 DEF WInv, QueueWaits
    <3>2. queue \in Seq(Turns) /\ queue # <<>> /\ Head(queue) = queue[1]
          /\ 1 \in 1 .. Len(queue)
      BY <3>1 DEF WInv, IInv, TypeOK
    <3> QED
      BY <2>1, <3>2 DEF WInv, IInv, TypeOK, QueueWaits
  <2>2. ASSUME lock \in Turns PROVE pc[lock] \in Locked
    BY <2>2 DEF WInv, IInv, LockHeld
  <2> QED
    BY <2>1, <2>2 DEF HandedOn
<1> QED
  BY <1>1, <1>2, <1>3, PTL DEF Spec
===============================================================================
