---------------------------- MODULE ChatViewProofs ----------------------------
(* That what the model is shown never holds a tool result without its call, *)
(* for every set of turns and notes and every history: an invariant about   *)
(* the path from every node to the root, through compactions and forks.     *)
EXTENDS ChatTurnsProofs, NaturalsInduction, WellFoundedInduction

-----------------------------------------------------------------------------
(* The nodes from each node to the root.                                     *)

(* The function inside Path, of any log.                                    *)
Trail(l) ==
    LET up[i \in 0 .. Len(l)] == IF i = 0 THEN {} ELSE {i} \cup up[l[i].parent]
    IN  up

(* A log whose nodes name older parents.                                    *)
Rooted(l) == Len(l) \in Nat /\ \A i \in 1 .. Len(l) : l[i].parent \in 0 .. i - 1

(* What a trail is, up to the n-th node.                                    *)
IsTrail(f, l, n) == f = [i \in 0 .. n |-> IF i = 0 THEN {} ELSE {i} \cup f[l[i].parent]]

(* A set of naturals has a least element.                                   *)
LEMMA Least ==
  ASSUME NEW T, T \subseteq Nat, T # {}
  PROVE  \E x \in T : \A y \in T : x <= y
<1> DEFINE Below == {pair \in Nat \X Nat : pair[1] < pair[2]}
<1>1. IsWellFoundedOn(Below, Nat)
  BY NatLessThanWellFounded DEF OpToRel
<1>2. \A x, y \in Nat : y < x => <<y, x>> \in Below
  OBVIOUS
<1> HIDE DEF Below
<1>3. PICK x \in T : \A y \in T : ~ (<<y, x>> \in Below)
  BY <1>1, WFMin
<1>4. \A y \in T : ~ (y < x)
  BY <1>2, <1>3
<1> QED
  BY <1>4

(* A log whose nodes name older parents has a trail up to each of its nodes:*)
(* the first node it had none for would extend the one before it.           *)
LEMMA TrailExists ==
  ASSUME NEW l, Rooted(l), NEW n \in 0 .. Len(l)
  PROVE  \E f : IsTrail(f, l, n)
<1> DEFINE Without == {m \in 0 .. Len(l) : ~ \E f : IsTrail(f, l, m)}
<1> SUFFICES ASSUME Without # {} PROVE FALSE
  OBVIOUS
<1>1. Len(l) \in Nat /\ Without \subseteq Nat
  BY DEF Rooted
<1>2. PICK m \in Without : \A k \in Without : m <= k
  BY <1>1, Least
<1>3. m \in 0 .. Len(l) /\ ~ \E f : IsTrail(f, l, m)
  OBVIOUS
<1>4. m # 0
  <2>1. IsTrail([i \in 0 .. 0 |-> {}], l, 0)
    BY DEF IsTrail
  <2> QED
    BY <1>3, <2>1
<1>5. m - 1 \in 0 .. Len(l) /\ m - 1 \notin Without
  BY <1>1, <1>2, <1>3, <1>4
<1>6. PICK f : IsTrail(f, l, m - 1)
  BY <1>5
<1>7. \A i \in 1 .. m : l[i].parent \in 0 .. i - 1
  BY <1>1, <1>3 DEF Rooted
<1> DEFINE g == [i \in 0 .. m |-> IF i = m THEN {m} \cup f[l[m].parent] ELSE f[i]]
<1>8. \A i \in 0 .. m - 1 : g[i] = f[i]
  BY <1>1, <1>3
<1>9. \A i \in 0 .. m - 1 : f[i] = IF i = 0 THEN {} ELSE {i} \cup f[l[i].parent]
  BY <1>6, Zenon DEF IsTrail
<1>10. \A i \in 1 .. m : l[i].parent \in 0 .. m - 1
  BY <1>1, <1>3, <1>7
<1>11. ASSUME NEW i \in 0 .. m
       PROVE  g[i] = IF i = 0 THEN {} ELSE {i} \cup g[l[i].parent]
  <2>1. CASE i = m
    <3>1. g[i] = {m} \cup f[l[m].parent]
      BY <2>1
    <3>2. l[m].parent \in 0 .. m - 1
      BY <1>3, <1>4, <1>7
    <3>3. g[l[m].parent] = f[l[m].parent]
      BY <1>8, <3>2
    <3> QED
      BY <1>4, <2>1, <3>1, <3>3
  <2>2. CASE i # m
    <3>1. i \in 0 .. m - 1 /\ (i # 0 => i \in 1 .. m)
      BY <1>3, <2>2
    <3>2. i # 0 => g[l[i].parent] = f[l[i].parent]
      BY <1>8, <1>10, <3>1
    <3> QED
      BY <1>8, <1>9, <3>1, <3>2
  <2> QED
    BY <2>1, <2>2
<1>12. IsTrail(g, l, m)
  BY <1>11, Zenon DEF IsTrail
<1> QED
  BY <1>3, <1>12

(* So the definition of Trail is the recursion it abbreviates.              *)
LEMMA TrailStep ==
  ASSUME NEW l, Rooted(l)
  PROVE  /\ Trail(l)[0] = {}
         /\ \A i \in 1 .. Len(l) : Trail(l)[i] = {i} \cup Trail(l)[l[i].parent]
<1>1. Len(l) \in Nat /\ Len(l) \in 0 .. Len(l) /\ 0 \in 0 .. Len(l)
  BY DEF Rooted
<1>2. \E f : IsTrail(f, l, Len(l))
  BY <1>1, TrailExists
<1>3. IsTrail(Trail(l), l, Len(l))
  BY <1>2, Zenon DEF Trail, IsTrail
<1>4. ASSUME NEW i \in 0 .. Len(l)
      PROVE  Trail(l)[i] = IF i = 0 THEN {} ELSE {i} \cup Trail(l)[l[i].parent]
  BY <1>3, Zenon DEF IsTrail
<1>5. Trail(l)[0] = {}
  BY <1>1, <1>4
<1>6. ASSUME NEW i \in 1 .. Len(l) PROVE Trail(l)[i] = {i} \cup Trail(l)[l[i].parent]
  <2>1. i \in 0 .. Len(l) /\ i # 0
    BY <1>1
  <2> QED
    BY <1>4, <2>1
<1> QED
  BY <1>5, <1>6

(* A trail holds its own node and older ones.                               *)
LEMMA TrailBelow ==
  ASSUME NEW l, Rooted(l)
  PROVE  /\ \A i \in 0 .. Len(l) : Trail(l)[i] \subseteq 1 .. i
         /\ \A i \in 1 .. Len(l) : i \in Trail(l)[i]
<1> DEFINE Bad == {i \in 0 .. Len(l) : ~ (Trail(l)[i] \subseteq 1 .. i)}
<1>1. Len(l) \in Nat /\ Bad \subseteq Nat
  BY DEF Rooted
<1>2. Bad = {}
  <2> SUFFICES ASSUME Bad # {} PROVE FALSE
    OBVIOUS
  <2>1. PICK m \in Bad : \A k \in Bad : m <= k
    BY <1>1, Least
  <2>2. m \in 1 .. Len(l)
    BY <1>1, TrailStep
  <2>3. l[m].parent \in 0 .. m - 1
    BY <2>2 DEF Rooted
  <2>4. Trail(l)[l[m].parent] \subseteq 1 .. l[m].parent
    BY <1>1, <2>1, <2>2, <2>3
  <2>5. Trail(l)[m] = {m} \cup Trail(l)[l[m].parent]
    BY <2>2, TrailStep
  <2>6. 1 .. l[m].parent \subseteq 1 .. m /\ m \in 1 .. m
    BY <2>2, <2>3
  <2> QED
    BY <2>4, <2>5, <2>6
<1> QED
  BY <1>2, TrailStep

(* A node of a trail has the rest of that trail for its own.                *)
LEMMA TrailChain ==
  ASSUME NEW l, Rooted(l), NEW i \in 0 .. Len(l), NEW k \in Trail(l)[i]
  PROVE  Trail(l)[i] \cap 1 .. k = Trail(l)[k]
<1> DEFINE Holds(n) == \A j \in Trail(l)[n] : Trail(l)[n] \cap 1 .. j = Trail(l)[j]
           Bad == {n \in 0 .. Len(l) : ~ Holds(n)}
<1>1. Len(l) \in Nat /\ Bad \subseteq Nat
  BY DEF Rooted
<1>2. Bad = {}
  <2> SUFFICES ASSUME Bad # {} PROVE FALSE
    OBVIOUS
  <2>1. PICK m \in Bad : \A n \in Bad : m <= n
    BY <1>1, Least
  <2>2. m \in 1 .. Len(l)
    BY <1>1, TrailStep
  <2>3. l[m].parent \in 0 .. m - 1
    BY <2>2 DEF Rooted
  <2>4. l[m].parent \in 0 .. Len(l) /\ l[m].parent \notin Bad
    BY <1>1, <2>1, <2>2, <2>3
  <2>5. Holds(l[m].parent)
    BY <2>4
  <2>6. Trail(l)[m] = {m} \cup Trail(l)[l[m].parent]
    BY <2>2, TrailStep
  <2>7. Trail(l)[m] \subseteq 1 .. m /\ Trail(l)[l[m].parent] \subseteq 1 .. l[m].parent
    BY <2>2, <2>4, TrailBelow
  <2>8. ASSUME NEW j \in Trail(l)[m] PROVE Trail(l)[m] \cap 1 .. j = Trail(l)[j]
    <3>1. CASE j = m
      BY <2>7, <3>1
    <3>2. CASE j \in Trail(l)[l[m].parent]
      <4>1. j \in 1 .. m /\ m \notin 1 .. j
        BY <2>2, <2>3, <2>7, <3>2
      <4>2. Trail(l)[m] \cap 1 .. j = Trail(l)[l[m].parent] \cap 1 .. j
        BY <2>2, <2>6, <4>1
      <4> QED
        BY <2>5, <3>2, <4>2
    <3> QED
      BY <2>6, <3>1, <3>2
  <2> QED
    BY <2>8
<1>3. Holds(i)
  BY <1>2
<1> QED
  BY <1>3

(* A log that only grows leaves the trails of its nodes as they were.       *)
LEMMA TrailGrows ==
  ASSUME NEW l, NEW m, Rooted(l), Rooted(m), Len(l) <= Len(m),
         \A i \in 1 .. Len(l) : m[i] = l[i]
  PROVE  \A i \in 0 .. Len(l) : Trail(m)[i] = Trail(l)[i]
<1> DEFINE Bad == {i \in 0 .. Len(l) : Trail(m)[i] # Trail(l)[i]}
<1>1. Len(l) \in Nat /\ Len(m) \in Nat /\ Bad \subseteq Nat
  BY DEF Rooted
<1> SUFFICES ASSUME Bad # {} PROVE FALSE
  OBVIOUS
<1>2. PICK i \in Bad : \A k \in Bad : i <= k
  BY <1>1, Least
<1>3. i \in 1 .. Len(l) /\ i \in 1 .. Len(m)
  <2>1. Trail(m)[0] = {} /\ Trail(l)[0] = {}
    BY TrailStep
  <2>2. i \in 0 .. Len(l) /\ i # 0
    BY <1>2, <2>1
  <2>3. Len(l) \in Nat /\ Len(m) \in Nat /\ Len(l) <= Len(m)
    BY <1>1
  <2> HIDE DEF Bad
  <2> QED
    BY <2>2, <2>3
<1>4. m[i].parent = l[i].parent /\ l[i].parent \in 0 .. i - 1
  BY <1>3 DEF Rooted
<1>5. Trail(m)[l[i].parent] = Trail(l)[l[i].parent]
  BY <1>1, <1>2, <1>3, <1>4
<1>6. Trail(m)[i] = {i} \cup Trail(m)[m[i].parent]
  BY <1>3, TrailStep
<1>7. Trail(l)[i] = {i} \cup Trail(l)[l[i].parent]
  BY <1>3, TrailStep
<1> QED
  BY <1>4, <1>5, <1>6, <1>7

-----------------------------------------------------------------------------
(* The inductive invariant.                                                 *)

Up(k) == Trail(log)[k]
IsResult(k) == log[Message(k)].kind = "result"
IsCallOf(c, k) == log[Message(c)].kind = "call" /\ log[Message(c)].of = log[Message(k)].of

(* Neither a question, at which a kept tail may begin, nor a marker.        *)
Plain(m) == ~ IsUser(m) /\ log[m].kind # "marker"

(* A copy is a copy of a message.                                           *)
Sourced == \A i \in 1 .. Len(log) : log[i].kind = "copy" => log[i].source \in 1 .. Len(log)

(* A result has its call on its trail, and nothing between them where a     *)
(* reader could start.                                                      *)
CalledAt(k) ==
    IsResult(k) =>
        \E c \in Up(k) : c < k /\ IsCallOf(c, k) /\ \A m \in Up(k) : c < m => Plain(m)

Called == \A k \in 1 .. Len(log) : CalledAt(k)

Compacting == {"summarizing", "marking", "copying"}

(* The call of a result that is still to copy is still to copy too, or the  *)
(* copy of it is on the trail the turn is writing.                          *)
ToCopy(t, k) == \E c \in keep[t] : c < k /\ IsCallOf(c, k)
Copied(t, k) ==
    /\ pc[t] = "copying" /\ \A u \in keep[t] : ~ IsUser(u)
    /\ \E c \in Up(parent[t]) : IsCallOf(c, k) /\ \A m \in Up(parent[t]) : c < m => Plain(m)

(* What a compaction has still to copy begins at a question or past it, and *)
(* holds no result that would be left without its call.                     *)
KeptBy(t) ==
    /\ pc[t] \notin Compacting => keep[t] = {}
    /\ \A u \in keep[t] : IsUser(u) => \A i \in keep[t] : u <= i
    /\ \A k \in keep[t] : IsResult(k) => ToCopy(t, k) \/ Copied(t, k)

KeptWhole == \A t \in Turns : KeptBy(t)

VInv == IInv /\ Sourced /\ Called /\ KeptWhole

-----------------------------------------------------------------------------
(* The log as it grows.                                                      *)

(* The log's nodes name older parents.                                      *)
LEMMA LogRooted == TypeOK => Rooted(log)
<1> SUFFICES ASSUME TypeOK PROVE Rooted(log)
  OBVIOUS
<1>1. log \in Seq(Node) /\ Len(log) \in Nat
  BY DEF TypeOK
<1>2. ASSUME NEW i \in 1 .. Len(log) PROVE log[i].parent \in 0 .. i - 1
  <2>1. log[i] \in Node
    BY <1>1
  <2>2. log[i].parent < i
    BY DEF TypeOK
  <2> QED
    BY <2>1, <2>2 DEF Node
<1> QED
  BY <1>1, <1>2 DEF Rooted

(* The log of the next state has all the nodes of this one.                 *)
Grows == Len(log) <= Len(log') /\ \A i \in 1 .. Len(log) : log'[i] = log[i]

(* A message is a node of the log.                                          *)
LEMMA Messages ==
  ASSUME TypeOK, Sourced, NEW k \in 1 .. Len(log)
  PROVE  Message(k) \in 1 .. Len(log)
BY DEF Sourced, Message

(* What is known of a node stays as it was.                                 *)
LEMMA OldNodes ==
  ASSUME TypeOK, TypeOK', Sourced, Grows
  PROVE  /\ \A k \in 0 .. Len(log) : Up(k)' = Up(k) /\ Up(k) \subseteq 1 .. k
         /\ \A k \in 1 .. Len(log) :
               /\ IsResult(k)' = IsResult(k) /\ IsUser(k)' = IsUser(k)
               /\ Plain(k)' = Plain(k) /\ Message(k)' = Message(k)
               /\ log'[k] = log[k] /\ log'[Message(k)] = log[Message(k)]
         /\ \A c, k \in 1 .. Len(log) : IsCallOf(c, k)' = IsCallOf(c, k)
<1>1. Rooted(log) /\ Rooted(log')
  <2>1. Rooted(log)
    BY LogRooted
  <2>2. Rooted(log)'
    BY LogRooted, PTL
  <2> QED
    BY <2>1, <2>2
<1>2. \A k \in 0 .. Len(log) : Up(k)' = Up(k) /\ Up(k) \subseteq 1 .. k
  BY <1>1, TrailGrows, TrailBelow DEF Up, Grows
<1>3. ASSUME NEW k \in 1 .. Len(log)
      PROVE  Message(k)' = Message(k) /\ log'[Message(k)] = log[Message(k)] /\ log'[k] = log[k]
  BY Messages DEF Grows, Message
<1> QED
  BY <1>2, <1>3 DEF IsResult, IsUser, Plain, IsCallOf

(* A result that has its call keeps it.                                     *)
LEMMA OldCalled ==
  ASSUME VInv, TypeOK', Grows, NEW k \in 1 .. Len(log)
  PROVE  CalledAt(k)'
<1>1. TypeOK /\ Sourced /\ CalledAt(k)
  BY DEF VInv, IInv, Called
<1>2. Len(log) \in Nat
  BY <1>1 DEF TypeOK
<1>3. k \in 0 .. Len(log) /\ Up(k) \subseteq 1 .. k /\ 1 .. k \subseteq 1 .. Len(log)
  BY <1>1, <1>2, OldNodes
<1>4. Up(k)' = Up(k) /\ IsResult(k)' = IsResult(k)
  BY <1>1, <1>3, OldNodes
<1>5. \A m \in Up(k) : Plain(m)' = Plain(m) /\ IsCallOf(m, k)' = IsCallOf(m, k)
  BY <1>1, <1>3, OldNodes
<1> QED
  BY <1>1, <1>4, <1>5 DEF CalledAt

(* A turn whose compaction neither moves nor copies keeps what it had.      *)
LEMMA OldKept ==
  ASSUME VInv, TypeOK', Grows, NEW t \in Turns, keep'[t] = keep[t],
         pc'[t] \in Compacting <=> pc[t] \in Compacting,
         pc[t] = "copying" => pc'[t] = "copying" /\ parent'[t] = parent[t]
  PROVE  KeptBy(t)'
<1>1. TypeOK /\ Sourced /\ KeptBy(t)
  BY DEF VInv, IInv, KeptWhole
<1>2. Len(log) \in Nat /\ keep[t] \subseteq 1 .. Len(log) /\ parent[t] \in 0 .. Len(log)
  BY <1>1 DEF TypeOK
<1>3. Up(parent[t]) \subseteq 1 .. Len(log) /\ Up(parent[t])' = Trail(log')[parent'[t]]
  <2>1. Up(parent[t]) \subseteq 1 .. parent[t]
    BY <1>1, <1>2, OldNodes
  <2> QED
    BY <1>2, <2>1 DEF Up
<1>4. \A i \in keep[t] : IsUser(i)' = IsUser(i) /\ IsResult(i)' = IsResult(i)
  BY <1>1, <1>2, OldNodes
<1>5. \A c \in keep[t] \cup Up(parent[t]), k \in keep[t] : IsCallOf(c, k)' = IsCallOf(c, k)
  BY <1>1, <1>2, <1>3, OldNodes
<1>6. \A m \in Up(parent[t]) : Plain(m)' = Plain(m)
  BY <1>1, <1>3, OldNodes
<1>7. \A k \in keep[t] : ToCopy(t, k) => ToCopy(t, k)'
  BY <1>5 DEF ToCopy
<1>8. ASSUME NEW k \in keep[t], Copied(t, k) PROVE Copied(t, k)'
  <2>1. parent'[t] = parent[t] /\ pc'[t] = "copying"
    BY <1>8 DEF Copied
  <2>2. Up(parent[t])' = Up(parent[t])
    BY <1>1, <1>2, <2>1, OldNodes DEF Up
  <2>3. PICK c \in Up(parent[t]) :
            IsCallOf(c, k) /\ \A m \in Up(parent[t]) : c < m => Plain(m)
    BY <1>8 DEF Copied
  <2>4. IsCallOf(c, k)' /\ \A m \in Up(parent[t]) : c < m => Plain(m)'
    BY <1>5, <1>6, <2>3
  <2>5. \A u \in keep'[t] : ~ IsUser(u)'
    BY <1>4, <1>8 DEF Copied
  <2> QED
    BY <2>1, <2>2, <2>4, <2>5 DEF Copied
<1> QED
  BY <1>1, <1>4, <1>7, <1>8 DEF KeptBy

(* A turn with nothing to copy leaves no result without its call.           *)
LEMMA NothingKept ==
  ASSUME NEW t \in Turns, keep'[t] = {}
  PROVE  KeptBy(t)'
BY DEF KeptBy

(* A step that writes nothing has only its compactions to account for.      *)
LEMMA Unwritten ==
  ASSUME VInv, IInv', UNCHANGED log, \A u \in Turns : KeptBy(u)'
  PROVE  VInv'
<1>0. TypeOK /\ TypeOK' /\ Sourced
  BY DEF VInv, IInv
<1>1. TypeOK /\ TypeOK' /\ Sourced /\ Len(log) \in Nat
  <2>1. Len(log) \in Nat
    BY <1>0 DEF TypeOK
  <2> QED
    BY <1>0, <2>1
<1>2. Grows
  BY <1>1 DEF Grows
<1>3. Called'
  BY <1>1, <1>2, OldCalled DEF Called
<1>4. Sourced'
  BY <1>1 DEF Sourced
<1> QED
  BY <1>3, <1>4 DEF VInv, KeptWhole

(* A step that writes one node has that node to account for as well.        *)
LEMMA Written ==
  ASSUME VInv, IInv', NEW node \in Node, NEW n, n = Len(log) + 1, log' = Append(log, node),
         node.kind = "copy" => node.source \in 1 .. Len(log),
         CalledAt(n)', \A u \in Turns : KeptBy(u)'
  PROVE  VInv'
<1>0. TypeOK /\ TypeOK' /\ Sourced
  BY DEF VInv, IInv
<1>1. log \in Seq(Node) /\ Len(log) \in Nat
  BY <1>0 DEF TypeOK
<1>2. /\ Len(log') = Len(log) + 1 /\ log'[Len(log) + 1] = node
      /\ \A i \in 1 .. Len(log) : log'[i] = log[i]
  BY <1>1
<1>3. Grows
  BY <1>1, <1>2 DEF Grows
<1>4. \A k \in 1 .. Len(log) : CalledAt(k)'
  BY <1>0, <1>3, OldCalled
<1>5. 1 .. Len(log') = 1 .. Len(log) \cup {n}
  BY <1>1, <1>2
<1>6. Called'
  BY <1>4, <1>5 DEF Called
<1>7. Sourced'
  BY <1>0, <1>1, <1>2, <1>5 DEF Sourced
<1> QED
  BY <1>6, <1>7 DEF VInv, KeptWhole

(* What is known of the node that was written last.                         *)
LEMMA NewNode ==
  ASSUME VInv, TypeOK', NEW node \in Node, NEW n, n = Len(log) + 1, log' = Append(log, node)
  PROVE  /\ Grows /\ Len(log) \in Nat /\ Len(log') = Len(log) + 1
         /\ node.parent \in 0 .. Len(log) /\ log'[n] = node
         /\ Up(n)' = {n} \cup Up(node.parent)
         /\ Up(node.parent) \subseteq 1 .. node.parent
<1>0. TypeOK /\ Sourced
  BY DEF VInv, IInv
<1>1. TypeOK /\ Sourced /\ log \in Seq(Node) /\ Len(log) \in Nat
  <2>1. log \in Seq(Node) /\ Len(log) \in Nat
    BY <1>0 DEF TypeOK
  <2> QED
    BY <1>0, <2>1
<1>2. /\ Len(log') = Len(log) + 1 /\ log'[Len(log) + 1] = node
      /\ \A i \in 1 .. Len(log) : log'[i] = log[i]
  BY <1>1
<1>3. Grows
  BY <1>1, <1>2 DEF Grows
<1>4. Rooted(log)'
  BY LogRooted, PTL
<1>5. Len(log) + 1 \in 1 .. Len(log')
  BY <1>1, <1>2
<1>6. node.parent \in 0 .. Len(log)
  BY <1>1, <1>2, <1>4, <1>5 DEF Rooted
<1>7. Rooted(log) /\ Rooted(log')
  BY <1>1, <1>4, LogRooted
<1>8. Up(n)' = {n} \cup Trail(log')[node.parent]
  <2>1. \A i \in 1 .. Len(log') : Trail(log')[i] = {i} \cup Trail(log')[log'[i].parent]
    BY <1>7, TrailStep
  <2>2. n \in 1 .. Len(log') /\ log'[n] = node
    BY <1>2, <1>5
  <2> QED
    BY <2>1, <2>2 DEF Up
<1>9. Up(node.parent) \subseteq 1 .. node.parent
  BY <1>1, <1>3, <1>6, OldNodes
<1>10. Trail(log')[node.parent] = Trail(log)[node.parent]
  BY <1>3, <1>6, <1>7, TrailGrows DEF Grows
<1> QED
  BY <1>1, <1>2, <1>3, <1>6, <1>8, <1>9, <1>10 DEF Up

(* Where one turn alone moves, its compaction alone is to be looked at.     *)
LEMMA Aside ==
  ASSUME VInv, TypeOK', Grows, NEW t \in Turns, KeptBy(t)',
         \A u \in Turns \ {t} : pc'[u] = pc[u] /\ keep'[u] = keep[u] /\ parent'[u] = parent[u]
  PROVE  \A u \in Turns : KeptBy(u)'
<1>1. ASSUME NEW u \in Turns, u # t PROVE KeptBy(u)'
  BY <1>1, OldKept
<1> QED
  BY <1>1

(* The log that is not written is a log that grows by nothing.              *)
LEMMA SameGrows == ASSUME TypeOK, UNCHANGED log PROVE Grows
BY DEF Grows, TypeOK

(* A step that writes nothing and neither begins nor ends a compaction.     *)
LEMMA Quiet ==
  ASSUME VInv, IInv', UNCHANGED <<log, keep>>,
         \A u \in Turns :
             /\ pc'[u] \in Compacting <=> pc[u] \in Compacting
             /\ pc[u] = "copying" => pc'[u] = "copying" /\ parent'[u] = parent[u]
  PROVE  VInv'
<1>1. TypeOK /\ TypeOK' /\ Grows
  BY SameGrows DEF VInv, IInv
<1>2. ASSUME NEW u \in Turns PROVE KeptBy(u)'
  BY <1>1, OldKept
<1> QED
  BY <1>2, Unwritten

(* A step that writes nothing and ends what a turn was compacting, if it    *)
(* was.                                                                     *)
LEMMA LetsGo ==
  ASSUME VInv, IInv', UNCHANGED log, NEW t \in Turns, keep'[t] = {},
         \A u \in Turns \ {t} : pc'[u] = pc[u] /\ keep'[u] = keep[u] /\ parent'[u] = parent[u]
  PROVE  VInv'
<1>1. TypeOK /\ TypeOK' /\ Grows
  BY SameGrows DEF VInv, IInv
<1>2. \A u \in Turns : KeptBy(u)'
  BY <1>1, NothingKept, Aside
<1> QED
  BY <1>2, Unwritten

(* A node that is neither a result nor a copy has no call to show for.      *)
LEMMA SaysOther ==
  ASSUME VInv, IInv', NEW node \in Node, log' = Append(log, node),
         node.kind \notin {"result", "copy"}, \A u \in Turns : KeptBy(u)'
  PROVE  VInv'
<1>1. TypeOK /\ Len(log) \in Nat
  BY DEF VInv, IInv, TypeOK
<1>2. PICK n : n = Len(log) + 1
  OBVIOUS
<1>3. log'[n] = node
  BY <1>2, NewNode DEF IInv
<1>4. CalledAt(n)'
  BY <1>3 DEF CalledAt, IsResult, Message
<1> QED
  BY <1>2, <1>4, Written

(* What a turn says is a node.                                              *)
LEMMA SaysNode ==
  ASSUME TypeOK, NEW t \in Turns, NEW kind \in Kinds, NEW source \in 0 .. Len(log),
         Says(t, kind, source)
  PROVE  \E node \in Node :
             /\ node = [kind |-> kind, of |-> t, parent |-> parent[t], source |-> source]
             /\ log' = Append(log, node)
<1>1. parent[t] \in Nat /\ source \in Nat
  BY DEF TypeOK
<1> QED
  BY <1>1 DEF Says, Node

-----------------------------------------------------------------------------
(* What each action keeps.                                                   *)

(* A result in the view has its call in the view: no marker lies between    *)
(* them at which elide_before_latest_marker could start.                    *)
LEMMA ShownWithCall ==
  ASSUME VInv, NEW k \in View, IsResult(k)
  PROVE  /\ Path \subseteq 1 .. Len(log) /\ k \in Path
         /\ \E c \in View : /\ c < k /\ IsCallOf(c, k)
                           /\ \A m \in Path : c < m /\ m <= k => Plain(m)
<1>1. TypeOK /\ Rooted(log) /\ Leaf = Len(log) /\ Len(log) \in 0 .. Len(log)
  BY LogRooted DEF VInv, IInv, Leaf, Rooted
<1>2. Path = Up(Leaf) \cap 1 .. Leaf
  BY <1>1 DEF Path, Up, Trail
<1>3. Path = Up(Leaf) /\ Path \subseteq 1 .. Len(log)
  BY <1>1, <1>2, TrailBelow DEF Up
<1>4. k \in Path /\ k \in 1 .. Len(log)
  BY <1>3 DEF View
<1>5. Path \cap 1 .. k = Up(k)
  BY <1>1, <1>3, <1>4, TrailChain DEF Up
<1>6. PICK c \in Up(k) : c < k /\ IsCallOf(c, k) /\ \A m \in Up(k) : c < m => Plain(m)
  BY <1>4 DEF VInv, Called, CalledAt
<1>7. c \in Path /\ c \in 1 .. k
  BY <1>5, <1>6
<1>8. \A m \in Path : log[m].kind = "marker" => m <= k
  BY <1>6, <1>7 DEF View
<1>9. \A m \in Path : c < m /\ m <= k => Plain(m)
  BY <1>3, <1>4, <1>5, <1>6
<1>10. \A m \in Path : log[m].kind = "marker" => m <= c
  BY <1>3, <1>7, <1>8, <1>9 DEF Plain
<1>11. c \in View
  BY <1>7, <1>10 DEF View
<1> QED
  BY <1>3, <1>4, <1>6, <1>9, <1>11

(* The kept tail of the view begins at its last question: a result in it    *)
(* has its call in it too, for no question lies between them.               *)
LEMMA KeptIsWhole ==
  ASSUME VInv, NEW k \in Kept, IsResult(k)
  PROVE  \E c \in Kept : c < k /\ IsCallOf(c, k)
<1>1. k \in View /\ View \subseteq Path
  BY DEF Kept, View
<1>2. Path \subseteq 1 .. Len(log) /\ k \in Path
  BY <1>1, ShownWithCall
<1>3. PICK c \in View : c < k /\ IsCallOf(c, k) /\ \A m \in Path : c < m /\ m <= k => Plain(m)
  BY <1>1, ShownWithCall
<1>4. ASSUME NEW u \in View, IsUser(u) PROVE u <= c
  <2>1. u \in Path /\ u <= k
    BY <1>1, <1>4 DEF Kept
  <2> QED
    BY <1>1, <1>2, <1>3, <1>4, <2>1 DEF Plain
<1>5. c \in Kept
  BY <1>3, <1>4 DEF Kept
<1> QED
  BY <1>3, <1>5

(* maybe_compact keeps a tail that is whole.                                *)
LEMMA LoadViews ==
  ASSUME VInv, IInv', NEW t \in Turns, Load(t)
  PROVE  VInv'
<1>1. TypeOK /\ TypeOK' /\ Grows /\ KeptBy(t) /\ Sourced /\ UNCHANGED log
  BY SameGrows DEF VInv, IInv, KeptWhole, Load
<1>2. \A u \in Turns \ {t} : pc'[u] = pc[u] /\ keep'[u] = keep[u] /\ parent'[u] = parent[u]
  BY <1>1 DEF Load, Goto, TypeOK
<1>3. keep[t] = {}
  BY <1>1 DEF KeptBy, Load, Compacting
<1>4. CASE UNCHANGED keep
  BY <1>1, <1>2, <1>3, <1>4, LetsGo
<1>5. CASE pc'[t] = "summarizing" /\ keep'[t] = Kept
  <2>1. \A u \in Kept : IsUser(u) => \A i \in Kept : u <= i
    BY DEF Kept
  <2>2. \A k : IsResult(k)' = IsResult(k) /\ IsUser(k)' = IsUser(k)
    BY <1>1 DEF IsResult, IsUser, Message
  <2>3. \A c, k : IsCallOf(c, k)' = IsCallOf(c, k)
    BY <1>1 DEF IsCallOf, Message
  <2>4. \A k \in Kept : IsResult(k) => ToCopy(t, k)'
    BY <1>5, <2>3, KeptIsWhole DEF ToCopy
  <2>5. KeptBy(t)'
    BY <1>5, <2>1, <2>2, <2>4 DEF KeptBy, Compacting
  <2> QED
    BY <1>1, <1>2, <2>5, Aside, Unwritten
<1> QED
  BY <1>1, <1>4, <1>5 DEF Load, Goto, TypeOK

(* What a turn says beside its compaction and its answer.                   *)
LEMMA SpeechViews ==
  ASSUME VInv, IInv', NEW t \in Turns, Mark(t) \/ Ask(t) \/ FailureLands(t)
  PROVE  VInv'
<1>0. TypeOK /\ TypeOK' /\ KeptBy(t)
  BY DEF VInv, IInv, KeptWhole
<1>1. TypeOK /\ TypeOK' /\ KeptBy(t) /\ 0 \in 0 .. Len(log)
  <2>1. 0 \in 0 .. Len(log)
    BY <1>0 DEF TypeOK
  <2> QED
    BY <1>0, <2>1
<1>2. PICK kind \in {"marker", "user", "error"} : Says(t, kind, 0)
  BY DEF Mark, Ask, FailureLands
<1>3. kind \in Kinds
  BY DEF Kinds
<1>4. PICK node \in Node : node.kind = kind /\ log' = Append(log, node)
  BY <1>1, <1>2, <1>3, SaysNode
<1>5. Grows
  BY <1>1, <1>4, NewNode
<1>6. /\ keep' = keep /\ (pc'[t] \in Compacting <=> pc[t] \in Compacting) /\ pc[t] # "copying"
      /\ \A u \in Turns \ {t} : pc'[u] = pc[u] /\ parent'[u] = parent[u]
  BY <1>1 DEF Mark, Ask, FailureLands, Goto, Says, Compacting, TypeOK
<1>7. KeptBy(t)'
  BY <1>1, <1>5, <1>6, OldKept
<1>8. \A u \in Turns : KeptBy(u)'
  BY <1>1, <1>5, <1>6, <1>7, Aside
<1> QED
  BY <1>4, <1>8, SaysOther

(* A note has no call to show for, wherever it lands.                       *)
LEMMA NoteLandsViews ==
  ASSUME VInv, IInv', NEW n \in Notes, NoteLands(n)
  PROVE  VInv'
<1> DEFINE node == [kind |-> "note", of |-> n, parent |-> noteParent[n], source |-> 0]
<1>0. TypeOK /\ TypeOK'
  BY DEF VInv, IInv
<1>1. node \in Node /\ log' = Append(log, node)
  BY <1>0 DEF TypeOK, Node, Kinds, NoteLands
<1>2. Grows
  BY <1>0, <1>1, NewNode
<1>3. pc' = pc /\ keep' = keep /\ parent' = parent
  BY DEF NoteLands, turnVars
<1>4. ASSUME NEW u \in Turns PROVE KeptBy(u)'
  BY <1>0, <1>1, <1>2, <1>3, OldKept
<1> QED
  BY <1>1, <1>4, SaysOther

(* persist_tail writes a result under the call of the same turn.            *)
LEMMA PersistViews ==
  ASSUME VInv, IInv', NEW t \in Turns, Persist(t)
  PROVE  VInv'
<1>0. TypeOK /\ TypeOK' /\ IInv /\ Sourced
  BY DEF VInv, IInv
<1>1. pc[t] = "writing" /\ AnsweredBy(t) /\ 0 \in 0 .. Len(log) /\ Len(log) \in Nat
  BY <1>0 DEF IInv, Answered, Persist, TypeOK
<1>2. PICK kind \in Parts : kind = Head(tail[t])
  BY <1>0 DEF IInv, Persist, Tailed, TypeOK, Answers, Parts
<1>3. kind \in Kinds /\ Says(t, kind, 0)
  BY <1>2 DEF Kinds, Parts, Persist
<1>4. PICK node \in Node :
          /\ node = [kind |-> kind, of |-> t, parent |-> parent[t], source |-> 0]
          /\ log' = Append(log, node)
  BY <1>0, <1>1, <1>3, SaysNode
<1>5. PICK n : n = Len(log) + 1
  OBVIOUS
<1>6. /\ Grows /\ parent[t] \in 0 .. Len(log) /\ log'[n] = node
      /\ Up(n)' = {n} \cup Up(parent[t]) /\ Up(parent[t]) \subseteq 1 .. parent[t]
  BY <1>0, <1>4, <1>5, NewNode
<1>7. /\ keep' = keep /\ pc[t] \notin Compacting /\ pc'[t] \notin Compacting
      /\ \A u \in Turns \ {t} : pc'[u] = pc[u] /\ parent'[u] = parent[u]
  BY <1>0 DEF Persist, Goto, Says, Compacting, TypeOK
<1>8. KeptBy(t)'
  BY <1>0, <1>6, <1>7, OldKept DEF Compacting
<1>9. \A u \in Turns : KeptBy(u)'
  BY <1>0, <1>6, <1>7, <1>8, Aside
<1>10. CASE kind # "result"
  BY <1>4, <1>9, <1>10, SaysOther DEF Parts
<1>11. CASE kind = "result"
  <2>1. parent[t] \in Own(t) /\ log[parent[t]].kind = "call"
    BY <1>1, <1>2, <1>11 DEF AnsweredBy, Before
  <2>2. parent[t] \in 1 .. Len(log) /\ log[parent[t]].of = t
    BY <2>1 DEF Own
  <2>3. PICK c \in 1 .. Len(log) : c = parent[t]
    BY <2>2
  <2>4. c \in Up(n)' /\ c < n /\ \A m \in Up(n)' : c < m => m = n
    BY <1>0, <1>1, <1>5, <1>6, <2>3, TrailBelow, LogRooted DEF Up
  <2>5. /\ log'[n].kind = "result" /\ log'[n].of = t
        /\ log'[c].kind = "call" /\ log'[c].of = t
    <3>1. node.kind = kind /\ node.of = t
      BY <1>4
    <3>2. log'[n] = node /\ log'[c] = log[c]
      BY <1>6 DEF Grows
    <3> QED
      BY <1>11, <2>1, <2>2, <2>3, <3>1, <3>2
  <2>a. Message(c)' = c /\ Message(n)' = n
    BY <2>5 DEF Message
  <2>6. IsCallOf(c, n)'
    BY <2>5, <2>a DEF IsCallOf
  <2>7. Plain(n)'
    BY <2>5, <2>a DEF Plain, IsUser
  <2>8. CalledAt(n)'
    BY <2>4, <2>6, <2>7 DEF CalledAt
  <2> QED
    BY <1>0, <1>4, <1>5, <1>9, <1>11, <2>8, Written DEF VInv
<1> QED
  BY <1>10, <1>11

(* A compaction copies the call of a result before the result, and nothing  *)
(* between them at which a reader could start.                              *)
LEMMA CopyViews ==
  ASSUME VInv, IInv', NEW t \in Turns, Copy(t)
  PROVE  VInv'
<1>0. TypeOK /\ TypeOK' /\ Sourced /\ KeptBy(t) /\ Len(log) \in Nat
  <2>1. TypeOK /\ TypeOK' /\ Sourced /\ KeptBy(t)
    BY DEF VInv, IInv, KeptWhole
  <2>2. Len(log) \in Nat
    BY <2>1 DEF TypeOK
  <2> QED
    BY <2>1, <2>2
<1>1. PICK i \in keep[t] :
          /\ \A j \in keep[t] : i <= j
          /\ Says(t, "copy", Message(i))
          /\ keep' = [keep EXCEPT ![t] = @ \ {i}]
          /\ Goto(t, IF keep[t] = {i} THEN "asking" ELSE "copying")
  BY DEF Copy
<1>2. /\ keep[t] \subseteq 1 .. Len(log) /\ i \in 1 .. Len(log) /\ pc[t] = "copying"
      /\ keep'[t] = keep[t] \ {i}
      /\ pc'[t] = IF keep[t] = {i} THEN "asking" ELSE "copying"
  BY <1>0, <1>1 DEF TypeOK, Copy, Goto
<1>3. PICK source \in 1 .. Len(log) : source = Message(i)
  BY <1>0, <1>2, Messages
<1>4. "copy" \in Kinds /\ source \in 0 .. Len(log) /\ Says(t, "copy", source)
  BY <1>0, <1>1, <1>3 DEF Kinds
<1>5. PICK node \in Node :
          /\ node = [kind |-> "copy", of |-> t, parent |-> parent[t], source |-> source]
          /\ log' = Append(log, node)
  BY <1>0, <1>4, SaysNode
<1>6. PICK n : n = Len(log) + 1
  OBVIOUS
<1>7. /\ Grows /\ parent[t] \in 0 .. Len(log) /\ log'[n] = node
      /\ Up(n)' = {n} \cup Up(parent[t]) /\ Up(parent[t]) \subseteq 1 .. parent[t]
  BY <1>0, <1>5, <1>6, NewNode
<1>8. parent'[t] = n /\ \A u \in Turns \ {t} :
          pc'[u] = pc[u] /\ keep'[u] = keep[u] /\ parent'[u] = parent[u]
  BY <1>0, <1>1, <1>6 DEF Says, Leaf, Goto, TypeOK
<1>9. \A k \in 1 .. Len(log) :
          /\ IsResult(k)' = IsResult(k) /\ IsUser(k)' = IsUser(k) /\ Plain(k)' = Plain(k)
          /\ Message(k)' = Message(k) /\ log'[Message(k)] = log[Message(k)]
  BY <1>0, <1>7, OldNodes
<1>10. \A c, k \in 1 .. Len(log) : IsCallOf(c, k)' = IsCallOf(c, k)
  BY <1>0, <1>7, OldNodes
<1>a. log'[n].kind = "copy" /\ log'[n].source = Message(i)
  <2>1. node.kind = "copy" /\ node.source = source
    BY <1>5
  <2>2. log'[n] = node
    BY <1>7
  <2> QED
    BY <1>3, <2>1, <2>2
<1>11. Message(n)' = Message(i) /\ log'[Message(i)] = log[Message(i)]
  BY <1>2, <1>9, <1>a DEF Message
<1>12. /\ IsResult(n)' = IsResult(i) /\ Plain(n)' = ~ IsUser(i)
       /\ \A k \in 1 .. Len(log) : /\ IsCallOf(k, n)' = IsCallOf(k, i)
                                    /\ IsCallOf(n, k)' = IsCallOf(i, k)
  BY <1>9, <1>11, <1>a DEF IsResult, Plain, IsUser, IsCallOf
<1>13. Up(parent[t]) \subseteq 1 .. Len(log)
  BY <1>0, <1>7
<1>14. CalledAt(n)'
  <2> SUFFICES ASSUME IsResult(i)
               PROVE  \E c \in Up(n)' : c < n /\ IsCallOf(c, n)'
                                      /\ \A m \in Up(n)' : c < m => Plain(m)'
    BY <1>12 DEF CalledAt
  <2>1. ~ ToCopy(t, i)
    BY <1>0, <1>1, <1>2 DEF ToCopy
  <2>2. PICK c \in Up(parent[t]) :
            IsCallOf(c, i) /\ \A m \in Up(parent[t]) : c < m => Plain(m)
    BY <1>0, <2>1 DEF KeptBy, Copied
  <2>3. c < n /\ c \in Up(n)' /\ IsCallOf(c, n)'
    BY <1>0, <1>6, <1>7, <1>12, <1>13, <2>2
  <2>4. ~ IsUser(i)
    BY DEF IsResult, IsUser
  <2>5. \A m \in Up(n)' : c < m => Plain(m)'
    BY <1>7, <1>9, <1>12, <1>13, <2>2, <2>4
  <2> QED
    BY <2>3, <2>5
<1>15. ASSUME NEW k \in keep[t] \ {i}, IsResult(k)
       PROVE  ToCopy(t, k)' \/ Copied(t, k)'
  <2>1. k \in 1 .. Len(log) /\ pc'[t] = "copying"
    BY <1>2
  <2>2. CASE Copied(t, k)
    <3>1. PICK c \in Up(parent[t]) :
              IsCallOf(c, k) /\ \A m \in Up(parent[t]) : c < m => Plain(m)
      BY <2>2 DEF Copied
    <3>2. c \in Up(n)' /\ IsCallOf(c, k)'
      BY <1>7, <1>10, <1>13, <2>1, <3>1
    <3>3. \A m \in Up(n)' : c < m => Plain(m)'
      BY <1>7, <1>9, <1>12, <1>13, <2>2, <3>1 DEF Copied
    <3>4. \A u \in keep'[t] : ~ IsUser(u)'
      BY <1>2, <1>9, <2>2 DEF Copied
    <3> QED
      BY <1>8, <2>1, <3>2, <3>3, <3>4 DEF Copied, Up
  <2>3. CASE ToCopy(t, k)
    <3>1. PICK c \in keep[t] : c < k /\ IsCallOf(c, k)
      BY <2>3 DEF ToCopy
    <3>2. CASE c # i
      BY <1>2, <1>10, <2>1, <3>1, <3>2 DEF ToCopy
    <3>3. CASE c = i
      <4>1. IsCallOf(n, k)' /\ n \in Up(n)'
        BY <1>7, <1>12, <2>1, <3>1, <3>3
      <4>2. \A m \in Up(n)' : ~ (n < m)
        BY <1>0, <1>6, <1>7, <1>13
      <4>3. ~ IsUser(i)
        BY <3>1, <3>3 DEF IsCallOf, IsUser
      <4>4. ASSUME NEW u \in keep'[t] PROVE ~ IsUser(u)'
        <5>1. u \in keep[t] /\ u # i /\ u \in 1 .. Len(log)
          BY <1>2
        <5>2. IsUser(u) => u <= i
          BY <1>0, <1>1, <5>1 DEF KeptBy
        <5> QED
          BY <1>1, <1>2, <1>9, <5>1, <5>2
      <4> QED
        BY <1>8, <2>1, <4>1, <4>2, <4>4 DEF Copied, Up
    <3> QED
      BY <3>2, <3>3
  <2> QED
    BY <1>0, <1>15, <2>2, <2>3 DEF KeptBy
<1>16. KeptBy(t)'
  <2>1. pc'[t] \notin Compacting => keep'[t] = {}
    BY <1>2 DEF Compacting
  <2>2. \A u \in keep'[t] : IsUser(u)' => \A k \in keep'[t] : u <= k
    BY <1>0, <1>2, <1>9 DEF KeptBy
  <2>3. \A k \in keep'[t] : IsResult(k)' => ToCopy(t, k)' \/ Copied(t, k)'
    BY <1>2, <1>9, <1>15
  <2> QED
    BY <2>1, <2>2, <2>3 DEF KeptBy
<1>17. \A u \in Turns : KeptBy(u)'
  BY <1>0, <1>7, <1>8, <1>16, Aside
<1> QED
  BY <1>5, <1>6, <1>14, <1>17, Written

(* A step of a turn that writes nothing and is not Load.                    *)
LEMMA SilentViews ==
  ASSUME VInv, IInv', NEW t \in Turns,
         \/ Enter(t) \/ Granted(t) \/ FailureReads(t) \/ Returns(t) \/ Flushed(t)
         \/ Retire(t) \/ Drop(t) \/ Replies(t)
  PROVE  VInv'
<1>1. TypeOK
  BY DEF VInv, IInv
<1>2. CASE Enter(t) \/ Granted(t) \/ FailureReads(t) \/ Flushed(t) \/ Retire(t)
  <2>1. UNCHANGED <<log, keep>>
    BY <1>2 DEF Enter, Granted, FailureReads, Flushed, Retire, turnVars
  <2>2. /\ pc[t] \notin Compacting /\ pc'[t] \notin Compacting
        /\ \A u \in Turns \ {t} : pc'[u] = pc[u] /\ parent'[u] = parent[u]
    BY <1>1, <1>2 DEF Enter, Granted, FailureReads, Flushed, Retire, turnVars, Goto,
        Compacting, TypeOK
  <2> QED
    BY <2>1, <2>2, Quiet DEF Compacting
<1>3. CASE Summarized(t) \/ Answer(t) \/ Fails(t)
  <2>1. UNCHANGED <<log, keep, parent>>
    BY <1>3 DEF Summarized, Answer, Fails, turnVars
  <2>2. /\ pc'[t] \in Compacting <=> pc[t] \in Compacting
        /\ pc[t] # "copying" /\ \A u \in Turns \ {t} : pc'[u] = pc[u]
    BY <1>1, <1>3 DEF Summarized, Answer, Fails, Goto, Compacting, TypeOK
  <2> QED
    BY <2>1, <2>2, Quiet
<1>4. CASE Returns(t) \/ Drop(t) \/ NoSummary(t)
  <2>1. UNCHANGED log /\ keep'[t] = {}
    BY <1>1, <1>4 DEF Returns, Drop, NoSummary, Forget, TypeOK
  <2>2. \A u \in Turns \ {t} : pc'[u] = pc[u] /\ keep'[u] = keep[u] /\ parent'[u] = parent[u]
    BY <1>1, <1>4 DEF Returns, Drop, NoSummary, Forget, Goto, TypeOK
  <2> QED
    BY <2>1, <2>2, LetsGo
<1> QED
  BY <1>2, <1>3, <1>4 DEF Replies

(* A step beside the turns: the running map, a note that is read, a restart.*)
LEMMA BesideViews ==
  ASSUME VInv, IInv',
         \/ \E t \in Hosted : Host(t) \/ Arm(t)
         \/ \E t \in Direct : Post(t) \/ Disconnect(t)
         \/ Cancel \/ Restart \/ (\E n \in Notes : NoteReads(n)) \/ UNCHANGED vars
  PROVE  VInv'
<1>1. TypeOK
  BY DEF VInv, IInv
<1>2. ASSUME NEW t \in Turns, Host(t) \/ Post(t) PROVE VInv'
  <2>1. UNCHANGED <<log, keep, parent>>
    BY <1>2 DEF Host, Post, turnVars
  <2>2. /\ pc[t] \notin Compacting /\ pc'[t] \notin Compacting
        /\ \A u \in Turns \ {t} : pc'[u] = pc[u]
    BY <1>1, <1>2 DEF Host, Post, Goto, Compacting, TypeOK
  <2> QED
    BY <2>1, <2>2, Quiet DEF Compacting
<1>3. CASE \/ (\E t \in Hosted : Arm(t)) \/ (\E t \in Direct : Disconnect(t)) \/ Cancel
           \/ (\E n \in Notes : NoteReads(n)) \/ UNCHANGED vars
  <2>1. UNCHANGED <<log, keep, parent, pc>>
    BY <1>3 DEF Arm, Disconnect, Cancel, NoteReads, turnVars, vars
  <2> QED
    BY <2>1, Quiet
<1>4. CASE Restart
  <2>1. UNCHANGED log /\ \A u \in Turns : keep'[u] = {}
    BY <1>4 DEF Restart
  <2>2. \A u \in Turns : KeptBy(u)'
    BY <2>1, NothingKept
  <2> QED
    BY <2>1, <2>2, Unwritten
<1> QED
  BY <1>2, <1>3, <1>4, Writers

-----------------------------------------------------------------------------
(* The invariant holds.                                                      *)

(* The history has a call for each of its results, on its one path.         *)
LEMMA InitVInv == Init => VInv
<1> SUFFICES ASSUME Init PROVE VInv
  OBVIOUS
<1>1. IInv /\ TypeOK
  BY InitIInv DEF IInv
<1>2. Rooted(log) /\ Len(log) \in Nat
  BY <1>1, LogRooted DEF Rooted
<1>3. /\ Len(History) \in Nat /\ Len(log) = Len(History) /\ DOMAIN History = 1 .. Len(History)
      /\ \A i \in 1 .. Len(log) : log[i].kind = History[i] /\ log[i].of = NoTurn
      /\ \A i \in 1 .. Len(log) : History[i] \in Kinds \ {"marker", "copy"}
  BY HistoryAssumption DEF Init
<1>4. \A i \in 1 .. Len(log) : Message(i) = i
  BY <1>3 DEF Message
<1>5. \A i \in 1 .. Len(log) : log[i].parent = i - 1
  BY <1>3 DEF Init
<1>6. \A i \in 0 .. Len(log) : Up(i) = 1 .. i
  <2> DEFINE Bad == {i \in 0 .. Len(log) : Up(i) # 1 .. i}
  <2> SUFFICES ASSUME Bad # {} PROVE FALSE
    OBVIOUS
  <2>0. Bad \subseteq Nat
    BY <1>2
  <2>1. PICK i \in Bad : \A k \in Bad : i <= k
    BY <2>0, Least
  <2>2. i \in 0 .. Len(log) /\ Up(i) # 1 .. i
    OBVIOUS
  <2>3. i # 0
    <3>1. Up(0) = {} /\ 1 .. 0 = {}
      BY <1>2, TrailStep DEF Up
    <3> QED
      BY <2>2, <3>1
  <2>4. i \in 1 .. Len(log) /\ i - 1 \in 0 .. Len(log) /\ i - 1 \notin Bad
    BY <1>2, <2>1, <2>2, <2>3
  <2>5. Up(i - 1) = 1 .. i - 1
    BY <2>4
  <2>6. Up(i) = {i} \cup Up(i - 1)
    BY <1>2, <1>5, <2>4, TrailStep DEF Up
  <2> QED
    BY <1>2, <2>2, <2>4, <2>5, <2>6
<1>7. Called
  <2> SUFFICES ASSUME NEW k \in 1 .. Len(log), IsResult(k)
               PROVE  \E c \in Up(k) : c < k /\ IsCallOf(c, k)
                                      /\ \A m \in Up(k) : c < m => Plain(m)
    BY DEF Called, CalledAt
  <2>1. History[k] = "result"
    BY <1>3, <1>4 DEF IsResult
  <2>2. PICK c \in 1 .. k - 1 : /\ History[c] = "call"
                                /\ \A m \in c + 1 .. k : History[m] # "user"
    BY <1>3, <2>1, HistoryAssumption
  <2>3. c \in 1 .. Len(log) /\ c < k /\ Up(k) = 1 .. k
    BY <1>2, <1>6
  <2>4. IsCallOf(c, k)
    BY <1>3, <1>4, <2>2, <2>3 DEF IsCallOf
  <2>5. ASSUME NEW m \in Up(k), c < m PROVE Plain(m)
    <3>1. m \in 1 .. Len(log) /\ m \in c + 1 .. k
      BY <1>2, <2>3, <2>5
    <3> QED
      BY <1>3, <1>4, <2>2, <3>1 DEF Plain, IsUser
  <2> QED
    BY <1>2, <2>3, <2>4, <2>5
<1>8. Sourced
  BY <1>3 DEF Sourced
<1>9. KeptWhole
  BY DEF KeptWhole, KeptBy, Init
<1> QED
  BY <1>1, <1>7, <1>8, <1>9 DEF VInv

(* Every step keeps it.                                                     *)
LEMMA StepVInv == VInv /\ [Next]_vars => VInv'
<1> SUFFICES ASSUME VInv, [Next]_vars PROVE VInv'
  OBVIOUS
<1>1. IInv'
  BY StepIInv DEF VInv
<1>2. ASSUME NEW t \in Turns, Proceeds(t) \/ Replies(t) PROVE VInv'
  BY <1>1, <1>2, SilentViews, LoadViews, SpeechViews, CopyViews, PersistViews DEF Proceeds
<1>3. ASSUME NEW n \in Notes, NoteLands(n) PROVE VInv'
  BY <1>1, <1>3, NoteLandsViews
<1> QED
  BY <1>1, <1>2, <1>3, BesideViews DEF Next

(* What the model is shown holds no tool result without the call it answers,*)
(* whatever compactions, aborts, restarts and notes made of the path        *)
(* (active_path, elide_before_latest_marker, maybe_compact, persist_tail).  *)
THEOREM ShownResultsHaveCalls == Spec => []ResultsHaveCalls
<1>1. ASSUME VInv PROVE ResultsHaveCalls
  BY <1>1, ShownWithCall DEF ResultsHaveCalls, IsResult, IsCallOf
<1>2. VInv => ResultsHaveCalls
  BY <1>1
<1> QED
  BY <1>2, InitVInv, StepVInv, PTL DEF Spec
===============================================================================
