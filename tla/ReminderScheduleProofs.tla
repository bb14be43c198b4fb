------------------------- MODULE ReminderScheduleProofs -------------------------
(* Theorems about ReminderSchedule for every set of schedules, every window *)
(* and scan, and every bound on the clock and on the faults.                *)
EXTENDS ReminderSchedule, FiniteSetTheorems, WellFoundedInduction, TLAPS

-----------------------------------------------------------------------------
(* The inductive invariant.                                                 *)

(* Every instant the parts remember is past.                                *)
Past ==
    /\ \A n \in Schedules : cursor[n] <= now /\ \A e \in sent[n] : 0 < e /\ e <= now
    /\ \A i \in 1 .. Len(events) : events[i].at \in sent[events[i].of]
    /\ owed # Nothing =>
          /\ owed.of \in Reminding /\ owed.at \in sent[owed.of]
          /\ owed.at <= owed.stamp /\ owed.stamp <= now

(* The heap is ahead of all that was sent, and a stop forgets both.         *)
Ahead ==
    /\ up => \A n \in Schedules : next[n] \in Fires[n] /\ \A e \in sent[n] : e < next[n]
    /\ ~up => \A n \in Schedules : sent[n] = {}
    /\ \A n \in Schedules : floor[n] # Never => floor[n] \in sent[n]
    /\ \A n \in Schedules, t \in Time : enqueued[n][t] > 0 =>
          t <= now /\ (up => t < next[n])

(* The fault counters agree.                                                *)
Counted == faults.cuts <= MaxCuts + faults.stops

(* The floor is the newest instant sent.                                    *)
Newest == \A n \in Schedules : \A e \in sent[n] : e <= floor[n]

(* No scan finds anything it may send that is older than the floor.         *)
Covered ==
    \A n \in Reminding :
        \/ floor[n] <= cursor[n]
        \/ floor[n] \in Scan(n, cursor[n])
        \/ \A f \in Scan(n, cursor[n]) : f + Window < now

(* Events are of different instants.                                        *)
Distinct ==
    \A i, j \in 1 .. Len(events) :
        events[i].of = events[j].of /\ events[i].at = events[j].at => i = j

(* An instant whose event waits, or which a scan may still find, was        *)
(* enqueued before only when its cursor was cut off.                        *)
Accounted ==
    /\ \A i \in 1 .. Len(events) : enqueued[events[i].of][events[i].at] <= faults.cuts
    /\ \A n \in Schedules, t \in Time :
          /\ enqueued[n][t] <= 1 + faults.cuts
          /\ t > cursor[n] /\ ~(owed.of = n /\ owed.at = t) => enqueued[n][t] <= faults.cuts

Recorded == Newest /\ Covered /\ Distinct /\ Accounted

IInv == TypeOK /\ Past /\ Ahead /\ Counted /\ (~overtaken => Recorded)

-----------------------------------------------------------------------------
(* Fires, scans and what is picked from them.                               *)

(* Every set of naturals has a least element.                               *)
LEMMA SmallestNat ==
  ASSUME NEW T, T \subseteq Nat, T # {}
  PROVE  \E x \in T : \A y \in T : x <= y
<1> DEFINE R == {ss \in Nat \X Nat : ss[1] < ss[2]}
<1>1. IsWellFoundedOn(R, Nat)
  BY NatLessThanWellFounded DEF OpToRel
<1>2. \A x, y \in Nat : y < x => <<y, x>> \in R
  OBVIOUS
<1> HIDE DEF R
<1>3. PICK x \in T : \A y \in T : ~ (<<y, x>> \in R)
  BY <1>1, WFMin
<1>4. \A y \in T : ~ (y < x)
  BY <1>2, <1>3
<1> QED
  BY <1>4

(* A set of naturals below a bound has a greatest element.                  *)
LEMMA LargestNat ==
  ASSUME NEW b \in Nat, NEW T, T \subseteq 0 .. b, T # {}
  PROVE  \E x \in T : \A y \in T : y <= x
<1> DEFINE M == {b - y : y \in T}
<1>0. \A y \in T : y \in 0 .. b /\ b - y \in Nat
  OBVIOUS
<1>1. M \subseteq Nat /\ M # {}
  BY <1>0
<1> HIDE DEF M
<1>2. PICK m \in M : \A k \in M : m <= k
  BY <1>1, SmallestNat
<1> USE DEF M
<1>3. PICK x \in T : m = b - x
  OBVIOUS
<1>4. ASSUME NEW y \in T PROVE y <= x
  <2>1. b - y \in M
    OBVIOUS
  <2>2. b - x <= b - y /\ x \in 0 .. b /\ y \in 0 .. b
    BY <1>2, <1>3, <2>1
  <2> QED
    BY <2>2
<1> QED
  BY <1>4

(* Instants are positive numbers.                                           *)
LEMMA FireFacts ==
  /\ \A n \in Schedules : Fires[n] \subseteq Nat \ {0}
  /\ Time = 0 .. MaxTime /\ MaxTime \in Nat /\ Window \in Nat /\ Never = 0
  /\ Reminding \subseteq Schedules
BY ScheduleAssumption DEF Time, Never

(* What is an instant is a number.                                          *)
LEMMA Numbers ==
  ASSUME TypeOK
  PROVE  /\ now \in Nat /\ now \in Time /\ \A t \in Time : t \in Nat
         /\ \A m \in Schedules : /\ next[m] \in Nat /\ cursor[m] \in Nat /\ floor[m] \in Nat
                                 /\ sent[m] \subseteq Nat
<1>1. /\ now \in Time /\ next \in [Schedules -> Nat] /\ cursor \in [Schedules -> Time]
      /\ floor \in [Schedules -> Time] /\ sent \in [Schedules -> SUBSET Time]
  BY DEF TypeOK
<1>2. \A t \in Time : t \in Nat
  BY FireFacts
<1> QED
  BY <1>1, <1>2

(* The heap is armed with a fire that is still to come.                     *)
LEMMA NextFireComes ==
  ASSUME NEW n \in Schedules, NEW t \in Time
  PROVE  NextFire(n, t) \in Fires[n] /\ NextFire(n, t) > t
<1> DEFINE Later == {f \in Fires[n] : f > t}
<1>1. Later \subseteq Nat /\ Later # {}
  BY FireFacts, ScheduleAssumption
<1> HIDE DEF Later
<1>2. PICK x \in Later : \A y \in Later : x <= y
  BY <1>1, SmallestNat
<1> USE DEF Later
<1>3. \E f \in Fires[n] : f > t /\ \A g \in Fires[n] : g > t => f <= g
  BY <1>2
<1> QED
  BY <1>3 DEF NextFire

(* What a catch-up picks is the newest of the fires it may send.            *)
LEMMA LatestPicked ==
  ASSUME TypeOK, NEW n \in Schedules, Missed(n) # {}
  PROVE  Latest(n) \in Missed(n) /\ \A f \in Missed(n) : f <= Latest(n)
<1>1. now \in Nat /\ Missed(n) \subseteq 0 .. now
  <2>1. now \in Nat
    BY FireFacts DEF TypeOK
  <2>2. \A f \in Missed(n) : f \in Fires[n] /\ f <= now
    BY DEF Missed, Scan
  <2> QED
    BY <2>1, <2>2, FireFacts
<1>2. \E x \in Missed(n) : \A y \in Missed(n) : y <= x
  BY <1>1, LargestNat
<1> QED
  BY <1>2 DEF Latest

(* A scan passes over nothing: with a fire it holds every earlier one since *)
(* the cursor.                                                              *)
LEMMA ScanIsPrefix ==
  ASSUME NEW n \in Schedules, NEW c \in Nat, NEW x \in Scan(n, c), NEW y \in Fires[n],
         c < y, y <= x
  PROVE  y \in Scan(n, c)
<1> DEFINE Upto(z) == {g \in Fires[n] : c < g /\ g <= z}
<1>1. x \in Fires[n] /\ x \in Nat /\ y \in Nat /\ Cardinality(Upto(x)) <= MaxScan
  BY FireFacts DEF Scan
<1>2. Upto(x) \subseteq 0 .. x /\ Upto(y) \subseteq Upto(x)
  BY <1>1, FireFacts
<1>3. IsFiniteSet(0 .. x)
  BY <1>1, FS_Interval
<1>4. IsFiniteSet(Upto(x))
  BY <1>2, <1>3, FS_Subset
<1>5. IsFiniteSet(Upto(y)) /\ Cardinality(Upto(y)) <= Cardinality(Upto(x))
  BY <1>2, <1>4, FS_Subset
<1>6. Cardinality(Upto(x)) \in Nat /\ Cardinality(Upto(y)) \in Nat /\ MaxScan \in Nat
  BY <1>4, <1>5, FS_CardinalityType, ScheduleAssumption
<1>7. Cardinality(Upto(y)) <= MaxScan
  BY <1>1, <1>5, <1>6
<1> QED
  BY <1>7 DEF Scan

(* What a due schedule would send is a fire of its own, in the past, and    *)
(* the heap then moves beyond it.                                           *)
LEMMA EmitAtIs ==
  ASSUME TypeOK, Ahead, NEW n \in Schedules, Due(n)
  PROVE  /\ EmitAt(n) \in Fires[n] /\ EmitAt(n) \in Time /\ 0 < EmitAt(n) /\ EmitAt(n) <= now
         /\ NextFire(n, now) \in Fires[n] /\ EmitAt(n) < NextFire(n, now)
         /\ next[n] < NextFire(n, now)
         /\ CatchesUp(n) => EmitAt(n) = Latest(n) /\ Latest(n) \in Missed(n)
<1>1. now \in Time /\ NextFire(n, now) \in Fires[n] /\ NextFire(n, now) > now
  BY NextFireComes DEF TypeOK
<1>2. next[n] \in Fires[n] /\ next[n] <= now
  BY DEF Ahead, Due
<1>3. CASE CatchesUp(n)
  <2>1. EmitAt(n) = Latest(n) /\ Latest(n) \in Missed(n)
    BY <1>3, LatestPicked DEF EmitAt, CatchesUp
  <2>2. EmitAt(n) \in Fires[n] /\ EmitAt(n) <= now
    BY <2>1 DEF Missed, Scan
  <2> QED
    BY <1>1, <1>2, <2>1, <2>2, FireFacts
<1>4. CASE ~CatchesUp(n)
  BY <1>1, <1>2, <1>4, FireFacts DEF EmitAt
<1> QED
  BY <1>3, <1>4

(* While no cursor was overtaken, it is newer than all the schedule sent.   *)
LEMMA EmissionIsNew ==
  ASSUME IInv, NEW n \in Schedules, Due(n), ~Blocked(n), ~overtaken
  PROVE  \A e \in sent[n] : e < EmitAt(n)
<1>1. TypeOK /\ Past /\ Ahead /\ Recorded
  BY DEF IInv
<1>2. SUFFICES ASSUME NEW e \in sent[n] PROVE e < EmitAt(n)
  OBVIOUS
<1>3. /\ e \in Nat /\ floor[n] \in Nat /\ cursor[n] \in Nat /\ now \in Nat
      /\ EmitAt(n) \in Nat /\ e <= floor[n]
  <2>1. /\ e \in Time /\ floor[n] \in Time /\ cursor[n] \in Time /\ now \in Time
        /\ EmitAt(n) \in Time
    BY <1>1, EmitAtIs DEF TypeOK
  <2> QED
    BY <1>1, <2>1, FireFacts DEF Recorded, Newest
<1>4. CASE CatchesUp(n)
  <2>1. n \in Reminding /\ EmitAt(n) # floor[n]
    BY <1>4 DEF CatchesUp, Blocked
  <2>2. EmitAt(n) = Latest(n) /\ Latest(n) \in Missed(n)
    BY <1>1, <1>4, EmitAtIs
  <2>3. EmitAt(n) \in Scan(n, cursor[n]) /\ EmitAt(n) + Window >= now /\ cursor[n] < EmitAt(n)
    BY <2>2 DEF Missed, Scan
  <2>4. CASE floor[n] <= cursor[n]
    BY <1>3, <2>3, <2>4
  <2>5. CASE floor[n] \in Scan(n, cursor[n])
    <3>1. ASSUME EmitAt(n) < floor[n] PROVE FALSE
      <4>1. floor[n] \in Missed(n)
        BY <1>1, <1>3, <2>3, <2>5, <3>1, FireFacts DEF Missed, Ahead, Past, Never
      <4>2. floor[n] <= EmitAt(n)
        BY <1>1, <2>2, <4>1, LatestPicked
      <4> QED
        BY <1>3, <3>1, <4>2
    <3> QED
      BY <1>3, <2>1, <3>1
  <2>6. CASE \A f \in Scan(n, cursor[n]) : f + Window < now
    BY <1>3, <2>3, <2>6, FireFacts
  <2> QED
    BY <1>1, <2>1, <2>4, <2>5, <2>6 DEF Recorded, Covered
<1>5. CASE ~CatchesUp(n)
  BY <1>1, <1>5 DEF EmitAt, Ahead, Due
<1> QED
  BY <1>4, <1>5

-----------------------------------------------------------------------------
(* What each action keeps.                                                  *)

(* The heap moves on, over an instant that is sent or blocked.              *)
LEMMA HeapMoves ==
  ASSUME IInv, NEW n \in Schedules, Fire(n)
  PROVE  /\ next' \in [Schedules -> Nat] /\ next'[n] = NextFire(n, now)
         /\ \A m \in Schedules : next'[m] \in Fires[m] /\ next[m] <= next'[m]
         /\ \A m \in Schedules : m # n => next'[m] = next[m]
         /\ \A m \in Schedules : \A t \in Nat : t < next[m] => t < next'[m]
<1>1. TypeOK /\ Ahead /\ Due(n) /\ up
  BY DEF IInv, Fire, Due
<1>2. NextFire(n, now) \in Fires[n] /\ next[n] < NextFire(n, now)
  BY <1>1, EmitAtIs
<1>3. next' = [next EXCEPT ![n] = NextFire(n, now)] /\ next \in [Schedules -> Nat]
  BY <1>1 DEF Fire, TypeOK
<1>4. \A m \in Schedules : next[m] \in Fires[m]
  BY <1>1 DEF Ahead
<1> QED
  BY <1>2, <1>3, <1>4, FireFacts

(* A blocked instant changes the heap only.                                 *)
LEMMA BlockedKeeps ==
  ASSUME IInv, NEW n \in Schedules, Fire(n), Blocked(n)
  PROVE  IInv'
<1> USE DEF IInv
<1>1. UNCHANGED <<now, up, cursor, floor, sent, events, owed, enqueued, history>>
  BY DEF Fire, clock
<1>2. TypeOK'
  BY <1>1, HeapMoves DEF TypeOK, history
<1>3. Past' /\ Counted' /\ (~overtaken => Recorded)'
  BY <1>1 DEF Past, Counted, Recorded, Newest, Covered, Distinct, Accounted, Scan, history
<1>4. Ahead'
  <2>1. up
    BY DEF Fire, Due
  <2>2. \A m \in Schedules : \A e \in sent[m] : e < next'[m]
    BY <2>1, HeapMoves, Numbers DEF Ahead
  <2>3. \A m \in Schedules, t \in Time : enqueued[m][t] > 0 => t < next'[m]
    BY <2>1, HeapMoves, Numbers DEF Ahead
  <2> QED
    BY <1>1, <2>2, <2>3, HeapMoves DEF Ahead
<1> QED
  BY <1>2, <1>3, <1>4

(* What an emission leaves behind.                                          *)
LEMMA Emitted ==
  ASSUME IInv, NEW n \in Schedules, Fire(n), ~Blocked(n)
  PROVE  /\ floor' = [floor EXCEPT ![n] = EmitAt(n)]
         /\ sent' = [sent EXCEPT ![n] = @ \cup {EmitAt(n)}]
         /\ floor' \in [Schedules -> Time] /\ sent' \in [Schedules -> SUBSET Time]
         /\ floor'[n] = EmitAt(n) /\ sent'[n] = sent[n] \cup {EmitAt(n)}
         /\ \A m \in Schedules : m # n => floor'[m] = floor[m] /\ sent'[m] = sent[m]
         /\ events' \in Seq(Event) /\ Len(events') = Len(events) + 1 /\ Len(events) \in Nat
         /\ \A i \in 1 .. Len(events) : events'[i] = events[i] /\ events[i] \in Event
         /\ events'[Len(events) + 1].of = n /\ events'[Len(events) + 1].at = EmitAt(n)
         /\ EmitAt(n) \in Time
         /\ UNCHANGED <<now, up, cursor, owed, enqueued, overtaken, faults>>
<1> DEFINE ev == [of |-> n, at |-> EmitAt(n), catchUp |-> CatchesUp(n)]
<1>1. TypeOK /\ Ahead /\ Due(n)
  BY DEF IInv, Fire
<1>2. EmitAt(n) \in Time
  BY <1>1, EmitAtIs
<1>3. CatchesUp(n) \in BOOLEAN
  BY DEF CatchesUp
<1>4. ev \in Event
  BY <1>2, <1>3 DEF Event
<1>5. events \in Seq(Event) /\ events' = Append(events, ev)
  BY <1>1 DEF Fire, Emit, TypeOK
<1>6. /\ events' \in Seq(Event) /\ Len(events') = Len(events) + 1 /\ Len(events) \in Nat
      /\ \A i \in 1 .. Len(events) : events'[i] = events[i] /\ events[i] \in Event
      /\ events'[Len(events) + 1] = ev
  <2> HIDE DEF ev
  <2> QED
    BY <1>4, <1>5
<1>7. /\ floor' = [floor EXCEPT ![n] = EmitAt(n)] /\ sent' = [sent EXCEPT ![n] = @ \cup {EmitAt(n)}]
      /\ floor \in [Schedules -> Time] /\ sent \in [Schedules -> SUBSET Time]
  BY <1>1 DEF Fire, Emit, TypeOK
<1>8. UNCHANGED <<now, up, cursor, owed, enqueued, overtaken, faults>>
  BY DEF Fire, clock, history
<1> QED
  BY <1>2, <1>6, <1>7, <1>8

(* An emission is past, is behind the heap, and is the new floor.           *)
LEMMA EmitKeepsOrder ==
  ASSUME IInv, NEW n \in Schedules, Fire(n), ~Blocked(n)
  PROVE  TypeOK' /\ Past' /\ Ahead' /\ Counted'
<1> USE DEF IInv
<1>1. /\ Due(n) /\ up /\ EmitAt(n) \in Time /\ 0 < EmitAt(n) /\ EmitAt(n) <= now
      /\ EmitAt(n) < next'[n]
  BY EmitAtIs, HeapMoves DEF Fire, Due
<1>2. TypeOK'
  BY Emitted, HeapMoves DEF TypeOK
<1>3. Past'
  <2>1. \A m \in Schedules : cursor'[m] <= now' /\ \A e \in sent'[m] : 0 < e /\ e <= now'
    <3>1. ASSUME NEW m \in Schedules, NEW e \in sent'[m] PROVE 0 < e /\ e <= now
      <4>1. CASE e \in sent[m]
        BY <4>1 DEF Past
      <4>2. CASE e \notin sent[m]
        <5>1. m = n /\ e = EmitAt(n)
          BY <3>1, <4>2, Emitted
        <5> QED
          BY <1>1, <5>1
      <4> QED
        BY <4>1, <4>2
    <3> QED
      BY <3>1, Emitted DEF Past
  <2>2. ASSUME NEW i \in 1 .. Len(events') PROVE events'[i].at \in sent'[events'[i].of]
    <3>1. CASE i \in 1 .. Len(events)
      BY <3>1, Emitted DEF Past, Event
    <3>2. CASE i = Len(events) + 1
      BY <3>2, Emitted
    <3> QED
      BY <3>1, <3>2, Emitted
  <2>3. owed' # Nothing =>
           /\ owed'.of \in Reminding /\ owed'.at \in sent'[owed'.of]
           /\ owed'.at <= owed'.stamp /\ owed'.stamp <= now'
    BY Emitted, FireFacts DEF Past
  <2> QED
    BY <2>1, <2>2, <2>3 DEF Past
<1>4. Ahead'
  <2>2. ASSUME NEW m \in Schedules, NEW e \in sent'[m] PROVE e < next'[m]
    <3>1. CASE e \in sent[m]
      BY <1>1, <3>1, HeapMoves, Numbers DEF Ahead
    <3>2. CASE e \notin sent[m]
      <4>1. m = n /\ e = EmitAt(n)
        BY <2>2, <3>2, Emitted
      <4> QED
        BY <1>1, <4>1
    <3> QED
      BY <3>1, <3>2
  <2>3. \A m \in Schedules, t \in Time : enqueued[m][t] > 0 => t <= now /\ t < next'[m]
    BY <1>1, HeapMoves, Numbers DEF Ahead
  <2>4. \A m \in Schedules : floor'[m] # Never => floor'[m] \in sent'[m]
    BY Emitted DEF Ahead
  <2>5. /\ up' /\ now' = now /\ enqueued' = enqueued
        /\ \A m \in Schedules : next'[m] \in Fires[m]
    BY <1>1, HeapMoves, Emitted
  <2> QED
    BY <2>2, <2>3, <2>4, <2>5 DEF Ahead
<1>5. Counted'
  BY Emitted DEF Counted
<1> QED
  BY <1>2, <1>3, <1>4, <1>5

(* An emission is newer than all before it, and no later scan under the     *)
(* same cursor finds one that is older.                                     *)
LEMMA EmitKeepsRecord ==
  ASSUME IInv, NEW n \in Schedules, Fire(n), ~Blocked(n), ~overtaken
  PROVE  Recorded'
<1> USE DEF IInv
<1>1. /\ Due(n) /\ EmitAt(n) \in Fires[n] /\ EmitAt(n) \in Time /\ EmitAt(n) \in Nat
      /\ now \in Nat /\ cursor[n] \in Nat /\ next[n] <= now /\ next[n] \in Fires[n]
      /\ EmitAt(n) <= now
  <2>1. now \in Time /\ cursor[n] \in Time
    BY DEF TypeOK
  <2> QED
    BY <2>1, EmitAtIs, FireFacts DEF Fire, Due, Ahead
<1>2. \A e \in sent[n] : e < EmitAt(n)
  BY <1>1, EmissionIsNew
<1>3. Newest'
  <2>1. ASSUME NEW m \in Schedules, NEW e \in sent'[m] PROVE e <= floor'[m]
    <3>1. CASE m = n
      BY <1>1, <1>2, <2>1, <3>1, Emitted, Numbers
    <3>2. CASE m # n
      BY <2>1, <3>2, Emitted DEF Recorded, Newest
    <3> QED
      BY <3>1, <3>2
  <2> QED
    BY <2>1 DEF Newest
<1>4. ASSUME n \in Reminding
      PROVE  \/ EmitAt(n) <= cursor[n]
             \/ EmitAt(n) \in Scan(n, cursor[n])
             \/ \A f \in Scan(n, cursor[n]) : f + Window < now
  <2>1. CASE CatchesUp(n)
    BY <1>1, <2>1, EmitAtIs DEF Missed
  <2>2. CASE ~CatchesUp(n)
    <3>1. Missed(n) = {} /\ EmitAt(n) = next[n]
      BY <1>4, <2>2 DEF CatchesUp, EmitAt
    <3>2. SUFFICES ASSUME cursor[n] < next[n], NEW f \in Scan(n, cursor[n]),
                          ~(f + Window < now)
                   PROVE  next[n] \in Scan(n, cursor[n])
      BY <1>1, <3>1
    <3>3. f \in Nat /\ Window \in Nat /\ next[n] \in Nat
      BY <1>1, <3>1, FireFacts DEF Scan
    <3>4. f > now
      BY <1>1, <3>1, <3>2, <3>3 DEF Missed
    <3>5. next[n] <= f
      BY <1>1, <3>3, <3>4
    <3> QED
      BY <1>1, <3>2, <3>5, ScanIsPrefix
  <2> QED
    BY <2>1, <2>2
<1>5. Covered'
  <2>1. \A m \in Reminding : Scan(m, cursor[m])' = Scan(m, cursor[m])
    BY Emitted DEF Scan
  <2>2. ASSUME NEW m \in Reminding
        PROVE  (\/ floor[m] <= cursor[m]
                \/ floor[m] \in Scan(m, cursor[m])
                \/ \A f \in Scan(m, cursor[m]) : f + Window < now)'
    <3>1. CASE m = n
      BY <1>4, <2>1, <3>1, Emitted
    <3>2. CASE m # n
      BY <2>1, <3>2, Emitted, FireFacts DEF Recorded, Covered
    <3> QED
      BY <3>1, <3>2
  <2> QED
    BY <2>2 DEF Covered
<1>6. Distinct'
  <2>1. ASSUME NEW i \in 1 .. Len(events), events[i].of = n, events[i].at = EmitAt(n)
        PROVE  FALSE
    <3>1. EmitAt(n) \in sent[n]
      BY <2>1 DEF Past
    <3> QED
      BY <1>1, <1>2, <3>1
  <2>2. ASSUME NEW i \in 1 .. Len(events'), NEW j \in 1 .. Len(events'),
               events'[i].of = events'[j].of, events'[i].at = events'[j].at
        PROVE  i = j
    <3>1. CASE i \in 1 .. Len(events) /\ j \in 1 .. Len(events)
      BY <2>2, <3>1, Emitted DEF Recorded, Distinct
    <3>2. CASE i \in 1 .. Len(events) /\ j = Len(events) + 1
      BY <2>1, <2>2, <3>2, Emitted
    <3>3. CASE i = Len(events) + 1 /\ j \in 1 .. Len(events)
      BY <2>1, <2>2, <3>3, Emitted
    <3> QED
      BY <2>2, <3>1, <3>2, <3>3, Emitted
  <2> QED
    BY <2>2 DEF Distinct
<1>7. Accounted'
  <2>1. enqueued[n][EmitAt(n)] \in Nat /\ faults.cuts \in Nat
    BY <1>1, ScheduleAssumption DEF TypeOK
  <2>2. ~(owed.of = n /\ owed.at = EmitAt(n))
    <3>1. ASSUME owed.of = n, owed.at = EmitAt(n) PROVE FALSE
      <4>1. owed # Nothing
        BY <3>1, ScheduleAssumption DEF Nothing
      <4>2. EmitAt(n) \in sent[n]
        BY <3>1, <4>1 DEF Past
      <4> QED
        BY <1>1, <1>2, <4>2
    <3> QED
      BY <3>1
  <2>3. enqueued[n][EmitAt(n)] <= faults.cuts
    <3>1. CASE CatchesUp(n)
      <4>1. EmitAt(n) > cursor[n]
        BY <1>1, <3>1, EmitAtIs DEF Missed, Scan
      <4> QED
        BY <1>1, <2>2, <4>1 DEF Recorded, Accounted
    <3>2. CASE ~CatchesUp(n)
      <4>1. EmitAt(n) = next[n] /\ up
        BY <1>1, <3>2 DEF EmitAt, Due
      <4>2. ~(enqueued[n][EmitAt(n)] > 0)
        BY <1>1, <4>1 DEF Ahead
      <4> QED
        BY <2>1, <4>2
    <3> QED
      BY <3>1, <3>2
  <2>4. ASSUME NEW i \in 1 .. Len(events')
        PROVE  enqueued'[events'[i].of][events'[i].at] <= faults'.cuts
    <3>1. CASE i \in 1 .. Len(events)
      BY <3>1, Emitted DEF Recorded, Accounted
    <3>2. CASE i = Len(events) + 1
      BY <2>3, <3>2, Emitted
    <3> QED
      BY <3>1, <3>2, Emitted
  <2> QED
    BY <2>4, Emitted DEF Recorded, Accounted
<1> QED
  BY <1>3, <1>5, <1>6, <1>7 DEF Recorded

LEMMA FireKeeps ==
  ASSUME IInv, NEW n \in Schedules, Fire(n)
  PROVE  IInv'
<1>1. CASE ~Blocked(n)
  BY <1>1, EmitKeepsOrder, EmitKeepsRecord, Emitted DEF IInv
<1> QED
  BY <1>1, BlockedKeeps

(* Taking the head moves every other event one place forward.               *)
LEMMA TailShifts ==
  ASSUME TypeOK, events # <<>>, events' = Tail(events)
  PROVE  /\ events' \in Seq(Event) /\ 1 \in 1 .. Len(events) /\ Head(events) = events[1]
         /\ events[1] \in Event
         /\ \A i \in 1 .. Len(events') :
               /\ i + 1 \in 1 .. Len(events) /\ i + 1 # 1
               /\ events'[i] = events[i + 1] /\ events[i + 1] \in Event
<1>1. events \in Seq(Event)
  BY DEF TypeOK
<1>2. Len(events') = Len(events) - 1 /\ Len(events) \in Nat \ {0}
  BY <1>1
<1> QED
  BY <1>1, <1>2

(* An event that is dropped changes nothing else.                           *)
LEMMA QuietKeeps ==
  ASSUME IInv, ReactQuiet
  PROVE  IInv'
<1> USE DEF IInv
<1>1. events # <<>> /\ events' = Tail(events) /\ TypeOK
  BY DEF ReactQuiet, Serving
<1>2. UNCHANGED <<now, up, next, cursor, floor, sent, owed, enqueued, overtaken, faults>>
  BY DEF ReactQuiet, clock, source, history
<1>3. TypeOK'
  BY <1>1, <1>2, TailShifts DEF TypeOK
<1>4. Past'
  <2>1. \A i \in 1 .. Len(events') : events'[i].at \in sent'[events'[i].of]
    BY <1>1, <1>2, TailShifts DEF Past
  <2> QED
    BY <1>2, <2>1 DEF Past
<1>5. Ahead' /\ Counted'
  BY <1>2 DEF Ahead, Counted
<1>6. ASSUME ~overtaken' PROVE Recorded'
  <2>1. Recorded
    BY <1>2, <1>6
  <2>2. Distinct'
    <3>1. ASSUME NEW i \in 1 .. Len(events'), NEW j \in 1 .. Len(events'),
                 events'[i].of = events'[j].of, events'[i].at = events'[j].at
          PROVE  i = j
      <4>1. i + 1 = j + 1
        BY <1>1, <2>1, <3>1, TailShifts DEF Recorded, Distinct
      <4> QED
        BY <4>1
    <3> QED
      BY <3>1 DEF Distinct
  <2>3. Accounted'
    <3>1. \A i \in 1 .. Len(events') : enqueued[events'[i].of][events'[i].at] <= faults.cuts
      BY <1>1, <2>1, TailShifts DEF Recorded, Accounted
    <3> QED
      BY <1>2, <2>1, <3>1 DEF Recorded, Accounted
  <2>4. Newest' /\ Covered'
    BY <1>2, <2>1 DEF Recorded, Newest, Covered, Scan
  <2> QED
    BY <2>2, <2>3, <2>4 DEF Recorded
<1> QED
  BY <1>3, <1>4, <1>5, <1>6

(* What an enqueue does to the counts.                                      *)
LEMMA Enqueued ==
  ASSUME IInv, ReactEnqueue, NEW e, e = events[1]
  PROVE  /\ events # <<>> /\ events' = Tail(events) /\ e \in Event /\ owed = Nothing
         /\ e.of \in Reminding /\ e.of \in Schedules /\ e.at \in Time
         /\ e.at \in sent[e.of] /\ e.at <= now /\ up
         /\ enqueued' \in [Schedules -> [Time -> Nat]]
         /\ enqueued'[e.of][e.at] = enqueued[e.of][e.at] + 1
         /\ \A n \in Schedules, t \in Time :
               ~(n = e.of /\ t = e.at) => enqueued'[n][t] = enqueued[n][t]
         /\ owed' = [of |-> e.of, at |-> e.at, stamp |-> now]
         /\ UNCHANGED <<now, up, next, cursor, floor, sent, overtaken, faults>>
<1> USE DEF IInv
<1>1. events # <<>> /\ events' = Tail(events) /\ TypeOK /\ owed = Nothing /\ up
  BY DEF ReactEnqueue, Serving
<1>2. e \in Event /\ Head(events) = e /\ 1 \in 1 .. Len(events)
  BY <1>1, TailShifts
<1>3. e.of \in Reminding /\ e.of \in Schedules /\ e.at \in Time
  BY <1>2, FireFacts DEF ReactEnqueue, Event
<1>4. enqueued' = [enqueued EXCEPT ![e.of][e.at] = @ + 1]
      /\ owed' = [of |-> e.of, at |-> e.at, stamp |-> now]
  BY <1>2 DEF ReactEnqueue
<1>5. e.at \in sent[e.of] /\ e.at <= now
  BY <1>2, <1>3 DEF Past
<1>6. UNCHANGED <<now, up, next, cursor, floor, sent, overtaken, faults>>
  BY DEF ReactEnqueue, clock, source, history
<1>7. /\ enqueued' \in [Schedules -> [Time -> Nat]]
      /\ enqueued'[e.of][e.at] = enqueued[e.of][e.at] + 1
      /\ \A n \in Schedules, t \in Time :
            ~(n = e.of /\ t = e.at) => enqueued'[n][t] = enqueued[n][t]
  <2>1. enqueued \in [Schedules -> [Time -> Nat]]
    BY DEF TypeOK
  <2>2. enqueued[e.of] \in [Time -> Nat] /\ enqueued[e.of][e.at] \in Nat
    BY <2>1, <1>3
  <2>3. enqueued' = [enqueued EXCEPT ![e.of] = [enqueued[e.of] EXCEPT ![e.at] = @ + 1]]
    BY <1>4
  <2>4. [enqueued[e.of] EXCEPT ![e.at] = @ + 1] \in [Time -> Nat]
    BY <2>2, <1>3
  <2>5. enqueued'[e.of] = [enqueued[e.of] EXCEPT ![e.at] = @ + 1]
    BY <2>1, <2>3, <1>3
  <2>6. \A n \in Schedules : n # e.of => enqueued'[n] = enqueued[n]
    BY <2>1, <2>3
  <2>7. enqueued' \in [Schedules -> [Time -> Nat]]
    BY <2>1, <2>3, <2>4
  <2>8. enqueued'[e.of][e.at] = enqueued[e.of][e.at] + 1
    BY <2>2, <2>5, <1>3
  <2>9. \A t \in Time : t # e.at => enqueued'[e.of][t] = enqueued[e.of][t]
    BY <2>2, <2>5
  <2> QED
    BY <2>6, <2>7, <2>8, <2>9
<1> QED
  BY <1>1, <1>2, <1>3, <1>4, <1>5, <1>6, <1>7

(* The rows of an event are enqueued: no other event is of its instant.     *)
LEMMA EnqueueKeeps ==
  ASSUME IInv, ReactEnqueue
  PROVE  IInv'
<1> USE DEF IInv
<1> DEFINE e == events[1]
<1>1. /\ events # <<>> /\ events' = Tail(events) /\ e \in Event /\ owed = Nothing
      /\ e.of \in Reminding /\ e.of \in Schedules /\ e.at \in Time
      /\ e.at \in sent[e.of] /\ e.at <= now /\ up
      /\ enqueued' \in [Schedules -> [Time -> Nat]]
      /\ enqueued'[e.of][e.at] = enqueued[e.of][e.at] + 1
      /\ \A n \in Schedules, t \in Time :
            ~(n = e.of /\ t = e.at) => enqueued'[n][t] = enqueued[n][t]
      /\ owed' = [of |-> e.of, at |-> e.at, stamp |-> now]
      /\ UNCHANGED <<now, up, next, cursor, floor, sent, overtaken, faults>>
  BY Enqueued
<1>2. /\ events' \in Seq(Event) /\ 1 \in 1 .. Len(events)
      /\ \A i \in 1 .. Len(events') :
            /\ i + 1 \in 1 .. Len(events) /\ i + 1 # 1
            /\ events'[i] = events[i + 1] /\ events[i + 1] \in Event
  BY <1>1, TailShifts
<1> HIDE DEF e
<1>3. TypeOK'
  <2>1. now \in Time
    BY DEF TypeOK
  <2>2. owed' \in [of : Schedules \cup {NoSchedule}, at : Time, stamp : Time]
    BY <1>1, <2>1
  <2> QED
    BY <1>1, <1>2, <2>2 DEF TypeOK
<1>4. Past'
  <2>1. \A i \in 1 .. Len(events') : events'[i].at \in sent'[events'[i].of]
    BY <1>1, <1>2 DEF Past
  <2>2. owed'.of = e.of /\ owed'.at = e.at /\ owed'.stamp = now
    BY <1>1
  <2>3. owed'.stamp <= now'
    BY <1>1, <2>2, Numbers
  <2> QED
    BY <1>1, <2>1, <2>2, <2>3 DEF Past
<1>5. Ahead'
  <2>1. e.at <= now /\ e.at < next[e.of]
    BY <1>1 DEF Ahead
  <2>2. \A n \in Schedules, t \in Time : enqueued'[n][t] > 0 => t <= now /\ t < next[n]
    BY <1>1, <2>1 DEF Ahead
  <2> QED
    BY <1>1, <2>2 DEF Ahead
<1>6. Counted'
  BY <1>1 DEF Counted
<1>7. ASSUME ~overtaken' PROVE Recorded'
  <2>1. Recorded /\ faults.cuts \in Nat /\ enqueued[e.of][e.at] \in Nat
    <3>1. enqueued \in [Schedules -> [Time -> Nat]] /\ faults.cuts \in 0 .. MaxCuts + MaxStops
      BY DEF TypeOK
    <3> QED
      BY <1>1, <1>7, <3>1, ScheduleAssumption
  <2>2. Distinct'
    <3>1. ASSUME NEW i \in 1 .. Len(events'), NEW j \in 1 .. Len(events'),
                 events'[i].of = events'[j].of, events'[i].at = events'[j].at
          PROVE  i = j
      <4>1. /\ i + 1 \in 1 .. Len(events) /\ events'[i] = events[i + 1]
            /\ j + 1 \in 1 .. Len(events) /\ events'[j] = events[j + 1]
        BY <1>2
      <4>2. i + 1 = j + 1
        BY <2>1, <3>1, <4>1 DEF Recorded, Distinct
      <4> QED
        BY <4>2
    <3> QED
      BY <3>1 DEF Distinct
  <2>3. enqueued[e.of][e.at] <= faults.cuts
    BY <1>2, <2>1 DEF Recorded, Accounted, e
  <2>4. ASSUME NEW i \in 1 .. Len(events')
        PROVE  enqueued'[events'[i].of][events'[i].at] <= faults'.cuts
    <3>1. /\ i + 1 \in 1 .. Len(events) /\ i + 1 # 1
          /\ events'[i] = events[i + 1] /\ events[i + 1] \in Event
      BY <1>2
    <3>2. ~(events[i + 1].of = e.of /\ events[i + 1].at = e.at)
      BY <1>2, <2>1, <3>1 DEF Recorded, Distinct, e
    <3>3. enqueued[events[i + 1].of][events[i + 1].at] <= faults.cuts
      BY <2>1, <3>1 DEF Recorded, Accounted
    <3>4. events[i + 1].of \in Schedules /\ events[i + 1].at \in Time
      BY <3>1 DEF Event
    <3> QED
      BY <1>1, <3>1, <3>2, <3>3, <3>4
  <2>5. ASSUME NEW n \in Schedules, NEW t \in Time
        PROVE  /\ enqueued'[n][t] <= 1 + faults'.cuts
               /\ t > cursor'[n] /\ ~(owed'.of = n /\ owed'.at = t) =>
                     enqueued'[n][t] <= faults'.cuts
    <3>1. CASE n = e.of /\ t = e.at
      BY <1>1, <2>1, <2>3, <3>1
    <3>2. CASE ~(n = e.of /\ t = e.at)
      <4>1. owed.of # n
        BY <1>1, ScheduleAssumption DEF Nothing
      <4> QED
        BY <1>1, <2>1, <3>2, <4>1 DEF Recorded, Accounted
    <3> QED
      BY <3>1, <3>2
  <2>6. Accounted'
    BY <2>4, <2>5 DEF Accounted
  <2>7. Newest' /\ Covered'
    BY <1>1, <2>1 DEF Recorded, Newest, Covered, Scan
  <2> QED
    BY <2>2, <2>6, <2>7 DEF Recorded
<1> QED
  BY <1>3, <1>4, <1>5, <1>6, <1>7

(* What is owed is of an instant that was sent.                             *)
LEMMA OwedFacts ==
  ASSUME IInv, owed # Nothing
  PROVE  /\ owed.of \in Reminding /\ owed.of \in Schedules /\ owed.at \in Time
         /\ owed.stamp \in Time /\ owed.at <= owed.stamp /\ owed.stamp <= now
         /\ owed.at \in Nat /\ owed.stamp \in Nat
BY Numbers, FireFacts DEF IInv, TypeOK, Past

(* With nothing owed, no instant is exempt.                                 *)
LEMMA NothingOwed ==
  ASSUME TypeOK
  PROVE  /\ Nothing \in [of : Schedules \cup {NoSchedule}, at : Time, stamp : Time]
         /\ Nothing.of \notin Schedules
<1>1. Never \in Time
  BY FireFacts
<1> QED
  BY <1>1, ScheduleAssumption DEF Nothing

(* The cursor reaches the stamp; unless its schedule has sent since, it     *)
(* reaches the floor with it.                                               *)
LEMMA RecordKeeps ==
  ASSUME IInv, Record
  PROVE  IInv'
<1> USE DEF IInv
<1> DEFINE d == owed.of
<1>1. /\ owed # Nothing /\ owed' = Nothing
      /\ UNCHANGED <<now, up, next, floor, sent, events, enqueued, faults>>
      /\ overtaken' = (overtaken \/ owed.stamp < floor[d])
      /\ cursor' = [cursor EXCEPT ![d] = IF owed.stamp > @ THEN owed.stamp ELSE @]
  BY DEF Record, clock, source
<1>2. /\ d \in Reminding /\ d \in Schedules /\ owed.stamp \in Time /\ owed.stamp <= now
      /\ owed.stamp \in Nat /\ owed.at \in Nat /\ owed.at <= owed.stamp
  BY <1>1, OwedFacts
<1> HIDE DEF d
<1>3. /\ cursor' \in [Schedules -> Time] /\ cursor[d] \in Nat
      /\ cursor'[d] = IF owed.stamp > cursor[d] THEN owed.stamp ELSE cursor[d]
      /\ \A n \in Schedules : n # d => cursor'[n] = cursor[n]
      /\ \A n \in Schedules : cursor[n] <= cursor'[n] /\ cursor[n] \in Nat /\ cursor'[n] \in Nat
  <2>1. cursor \in [Schedules -> Time]
    BY DEF TypeOK
  <2>2. \A n \in Schedules : cursor[n] \in Nat
    BY Numbers
  <2>3. /\ cursor' \in [Schedules -> Time]
        /\ cursor'[d] = IF owed.stamp > cursor[d] THEN owed.stamp ELSE cursor[d]
        /\ \A n \in Schedules : n # d => cursor'[n] = cursor[n]
    BY <1>1, <1>2, <2>1
  <2> QED
    BY <1>2, <2>2, <2>3
<1>4. TypeOK'
  BY <1>1, <1>3, NothingOwed DEF TypeOK
<1>5. Past'
  <2>1. \A n \in Schedules : cursor'[n] <= now
    BY <1>2, <1>3 DEF Past
  <2> QED
    BY <1>1, <2>1 DEF Past
<1>6. Ahead' /\ Counted'
  BY <1>1 DEF Ahead, Counted
<1>7. ASSUME ~overtaken' PROVE Recorded'
  <2>1. Recorded /\ ~(owed.stamp < floor[d])
    BY <1>1, <1>7
  <2>2. Covered'
    <3>1. ASSUME NEW n \in Reminding, n = d PROVE floor[n] <= cursor'[n]
      BY <1>2, <1>3, <2>1, <3>1, Numbers
    <3>2. ASSUME NEW n \in Reminding, n # d
          PROVE  /\ floor'[n] = floor[n] /\ cursor'[n] = cursor[n] /\ now' = now
                 /\ Scan(n, cursor[n])' = Scan(n, cursor[n])
      BY <1>1, <1>3, <3>2, FireFacts DEF Scan
    <3>3. ASSUME NEW n \in Reminding
          PROVE  (\/ floor[n] <= cursor[n]
                  \/ floor[n] \in Scan(n, cursor[n])
                  \/ \A f \in Scan(n, cursor[n]) : f + Window < now)'
      <4>1. CASE n = d
        BY <1>1, <3>1, <4>1
      <4>2. CASE n # d
        BY <2>1, <3>2, <4>2 DEF Recorded, Covered
      <4> QED
        BY <4>1, <4>2
    <3> QED
      BY <3>3 DEF Covered
  <2>3. Accounted'
    <3>1. ASSUME NEW n \in Schedules, NEW t \in Time, t > cursor'[n]
          PROVE  enqueued[n][t] <= faults.cuts
      <4>1. t > cursor[n] /\ t \in Nat
        BY <1>3, <3>1, Numbers
      <4>2. ~(owed.of = n /\ owed.at = t)
        BY <1>2, <1>3, <3>1, <4>1 DEF d
      <4> QED
        BY <2>1, <4>1, <4>2 DEF Recorded, Accounted
    <3> QED
      BY <1>1, <2>1, <3>1 DEF Recorded, Accounted
  <2>4. Newest' /\ Distinct'
    BY <1>1, <2>1 DEF Recorded, Newest, Distinct
  <2> QED
    BY <2>2, <2>3, <2>4 DEF Recorded
<1> QED
  BY <1>4, <1>5, <1>6, <1>7

(* A failed write is counted as the enqueue it cuts from its cursor.        *)
LEMMA RecordFailsKeeps ==
  ASSUME IInv, RecordFails
  PROVE  IInv'
<1> USE DEF IInv
<1>1. /\ owed # Nothing /\ owed' = Nothing
      /\ UNCHANGED <<now, up, next, cursor, floor, sent, events, enqueued, overtaken>>
      /\ faults' = [faults EXCEPT !.cuts = @ + 1] /\ faults.cuts < MaxCuts
  BY DEF RecordFails, Fault, clock, source
<1>2. /\ faults.cuts \in Nat /\ faults.stops \in Nat /\ MaxCuts \in Nat /\ MaxStops \in Nat
      /\ faults \in [sleeps : 0 .. MaxSleeps, stops : 0 .. MaxStops, cuts : 0 .. MaxCuts + MaxStops]
  BY ScheduleAssumption DEF TypeOK
<1>3. /\ faults' \in [sleeps : 0 .. MaxSleeps, stops : 0 .. MaxStops, cuts : 0 .. MaxCuts + MaxStops]
      /\ faults'.cuts = faults.cuts + 1 /\ faults'.stops = faults.stops
  BY <1>1, <1>2
<1>4. TypeOK'
  BY <1>1, <1>3, NothingOwed DEF TypeOK
<1>5. Past' /\ Ahead'
  BY <1>1 DEF Past, Ahead
<1>6. Counted'
  BY <1>1, <1>2, <1>3 DEF Counted
<1>7. ASSUME ~overtaken' PROVE Recorded'
  <2>1. Recorded
    BY <1>1, <1>7
  <2>2. \A n \in Schedules, t \in Time : enqueued[n][t] <= faults'.cuts /\ enqueued[n][t] \in Nat
    BY <1>2, <1>3, <2>1 DEF Recorded, Accounted, TypeOK
  <2>3. \A i \in 1 .. Len(events) : enqueued[events[i].of][events[i].at] <= faults'.cuts
    <3>1. \A i \in 1 .. Len(events) : events[i].of \in Schedules /\ events[i].at \in Time
      <4>1. events \in Seq(Event)
        BY DEF TypeOK
      <4>2. \A i \in 1 .. Len(events) : events[i] \in Event
        BY <4>1
      <4> QED
        BY <4>2 DEF Event
    <3> QED
      BY <2>2, <3>1
  <2>4. Accounted'
    BY <1>1, <1>2, <1>3, <2>2, <2>3 DEF Accounted
  <2>5. Newest' /\ Covered' /\ Distinct'
    BY <1>1, <2>1 DEF Recorded, Newest, Covered, Distinct, Scan
  <2> QED
    BY <2>4, <2>5 DEF Recorded
<1> QED
  BY <1>4, <1>5, <1>6, <1>7

(* Time passes.                                                             *)
LEMMA ClockKeeps ==
  ASSUME IInv, now' \in now .. MaxTime,
         UNCHANGED <<up, next, cursor, floor, sent, events, owed, enqueued, overtaken>>,
         faults' \in [sleeps : 0 .. MaxSleeps, stops : 0 .. MaxStops, cuts : 0 .. MaxCuts + MaxStops],
         faults'.cuts = faults.cuts, faults'.stops = faults.stops
  PROVE  IInv'
<1> USE DEF IInv
<1>1. now \in Nat /\ now' \in Nat /\ now <= now' /\ now' \in Time \ {Never}
  BY Numbers, FireFacts DEF TypeOK
<1>2. TypeOK'
  BY <1>1 DEF TypeOK
<1>3. Past'
  <2>1. \A n \in Schedules : cursor[n] <= now' /\ \A e \in sent[n] : 0 < e /\ e <= now'
    BY <1>1, Numbers DEF Past
  <2>2. owed # Nothing => owed.stamp <= now'
    BY <1>1, OwedFacts
  <2> QED
    BY <2>1, <2>2 DEF Past
<1>4. Ahead'
  <2>1. \A n \in Schedules, t \in Time : enqueued[n][t] > 0 => t <= now'
    BY <1>1, Numbers DEF Ahead
  <2> QED
    BY <2>1 DEF Ahead
<1>5. Counted'
  BY DEF Counted
<1>6. ASSUME ~overtaken' PROVE Recorded'
  <2>1. Recorded
    BY <1>6
  <2>2. Covered'
    <3>1. \A n \in Reminding : \A f \in Scan(n, cursor[n]) : f + Window < now => f + Window < now'
      BY <1>1, FireFacts DEF Scan
    <3>2. \A n \in Reminding : Scan(n, cursor[n])' = Scan(n, cursor[n])
      BY DEF Scan
    <3> QED
      BY <2>1, <3>1, <3>2 DEF Recorded, Covered
  <2>3. Newest' /\ Distinct' /\ Accounted'
    BY <2>1 DEF Recorded, Newest, Distinct, Accounted
  <2> QED
    BY <2>2, <2>3 DEF Recorded
<1> QED
  BY <1>2, <1>3, <1>4, <1>5, <1>6

(* A start seeds the cursors to the clock and arms the heap beyond it.      *)
LEMMA StartKeeps ==
  ASSUME IInv, Start
  PROVE  IInv'
<1> USE DEF IInv
<1>1. /\ ~up /\ up' /\ up' \in BOOLEAN
      /\ UNCHANGED <<now, floor, sent, events, owed, enqueued, overtaken, faults>>
      /\ next' = [n \in Schedules |-> NextFire(n, now)]
      /\ cursor' = [n \in Schedules |->
                       IF n \in Reminding /\ cursor[n] = Never THEN now ELSE cursor[n]]
  BY DEF Start, daemon, history
<1>2. /\ now \in Time /\ now \in Nat /\ cursor \in [Schedules -> Time]
      /\ \A n \in Schedules : cursor[n] \in Nat /\ cursor[n] <= now
  BY Numbers DEF TypeOK, Past
<1>3. /\ \A n \in Schedules : next'[n] \in Fires[n] /\ next'[n] \in Nat /\ now < next'[n]
      /\ next' \in [Schedules -> Nat]
  <2>1. \A n \in Schedules : NextFire(n, now) \in Fires[n] /\ now < NextFire(n, now)
    BY <1>2, NextFireComes
  <2> QED
    BY <1>1, <2>1, FireFacts
<1>4. /\ cursor' \in [Schedules -> Time]
      /\ \A n \in Schedules : cursor'[n] <= now /\ cursor[n] <= cursor'[n] /\ cursor'[n] \in Nat
  <2>1. \A n \in Schedules : cursor'[n] = now \/ cursor'[n] = cursor[n]
    BY <1>1
  <2>2. \A n \in Schedules : (cursor[n] = Never /\ cursor'[n] = now) \/ cursor'[n] = cursor[n]
    BY <1>1
  <2> QED
    BY <1>1, <1>2, <2>2, FireFacts
<1>5. \A n \in Schedules : sent[n] = {} /\ floor[n] = Never
  BY <1>1 DEF Ahead
<1>6. TypeOK'
  BY <1>1, <1>3, <1>4 DEF TypeOK
<1>7. Past'
  BY <1>1, <1>4 DEF Past
<1>8. Ahead'
  <2>1. \A n \in Schedules, t \in Time : enqueued[n][t] > 0 => t <= now /\ t < next'[n]
    BY <1>2, <1>3, Numbers DEF Ahead
  <2> QED
    BY <1>1, <1>3, <1>5, <2>1 DEF Ahead
<1>9. Counted'
  BY <1>1 DEF Counted
<1>10. ASSUME ~overtaken' PROVE Recorded'
  <2>1. Recorded
    BY <1>1, <1>10
  <2>2. Covered'
    <3>1. \A n \in Reminding : floor'[n] <= cursor'[n]
      BY <1>1, <1>4, <1>5, FireFacts
    <3> QED
      BY <3>1 DEF Covered
  <2>3. Accounted'
    <3>1. ASSUME NEW n \in Schedules, NEW t \in Time, t > cursor'[n]
          PROVE  t > cursor[n]
      <4>1. t \in Nat
        BY Numbers
      <4> QED
        BY <1>2, <1>4, <3>1, <4>1
    <3> QED
      BY <1>1, <2>1, <3>1 DEF Recorded, Accounted
  <2>4. Newest' /\ Distinct'
    BY <1>1, <2>1 DEF Recorded, Newest, Distinct
  <2> QED
    BY <2>2, <2>3, <2>4 DEF Recorded
<1> QED
  BY <1>6, <1>7, <1>8, <1>9, <1>10

(* A stop forgets all but the cursors and the counts; an enqueue it cuts    *)
(* from its cursor is counted.                                              *)
LEMMA StopKeeps ==
  ASSUME IInv, Stop
  PROVE  IInv'
<1> USE DEF IInv
<1>1. /\ up /\ ~up' /\ up' \in BOOLEAN /\ faults.stops < MaxStops
      /\ UNCHANGED <<now, cursor, enqueued, overtaken>>
      /\ faults' = [faults EXCEPT !.stops = @ + 1,
                                  !.cuts = IF owed = Nothing THEN @ ELSE @ + 1]
      /\ next' = [n \in Schedules |-> Never] /\ floor' = next'
      /\ sent' = [n \in Schedules |-> {}]
      /\ events' = <<>> /\ owed' = Nothing
  BY DEF Stop
<1>2. /\ faults.cuts \in Nat /\ faults.stops \in Nat /\ MaxCuts \in Nat /\ MaxStops \in Nat
      /\ faults \in [sleeps : 0 .. MaxSleeps, stops : 0 .. MaxStops, cuts : 0 .. MaxCuts + MaxStops]
  BY ScheduleAssumption DEF TypeOK
<1>3. /\ faults.cuts <= faults'.cuts
      /\ faults'.cuts <= faults.cuts + 1
      /\ faults'.stops = faults.stops + 1
      /\ owed # Nothing => faults'.cuts = faults.cuts + 1
      /\ faults'.cuts \in Nat
  BY <1>1, <1>2
<1>4. Counted'
  BY <1>2, <1>3 DEF Counted
<1>5. faults' \in [sleeps : 0 .. MaxSleeps, stops : 0 .. MaxStops, cuts : 0 .. MaxCuts + MaxStops]
  <2>1. faults'.cuts \in 0 .. MaxCuts + MaxStops /\ faults'.stops \in 0 .. MaxStops
    BY <1>1, <1>2, <1>3, <1>4 DEF Counted
  <2> QED
    BY <1>1, <1>2, <2>1
<1>6. TypeOK'
  <2>1. Never \in Time /\ Never \in Nat
    BY FireFacts
  <2>2. /\ next' \in [Schedules -> Nat] /\ floor' \in [Schedules -> Time]
        /\ sent' \in [Schedules -> SUBSET Time] /\ events' \in Seq(Event)
    BY <1>1, <2>1
  <2> QED
    BY <1>1, <1>5, <2>2, NothingOwed DEF TypeOK
<1>7. events' = <<>> /\ Len(events') = 0 /\ 1 .. Len(events') = {}
  BY <1>1
<1>8. Past'
  BY <1>1, <1>7 DEF Past
<1>9. Ahead'
  BY <1>1 DEF Ahead
<1>10. ASSUME ~overtaken' PROVE Recorded'
  <2>1. Recorded
    BY <1>1, <1>10
  <2>2. Newest' /\ Distinct'
    BY <1>1, <1>7 DEF Newest, Distinct
  <2>3. Covered'
    <3>1. \A n \in Reminding : floor'[n] <= cursor'[n]
      BY <1>1, FireFacts, Numbers
    <3> QED
      BY <3>1 DEF Covered
  <2>4. Accounted'
    <3>1. ASSUME NEW n \in Schedules, NEW t \in Time
          PROVE  /\ enqueued[n][t] <= 1 + faults'.cuts
                 /\ t > cursor[n] => enqueued[n][t] <= faults'.cuts
      <4>1. enqueued[n][t] \in Nat /\ enqueued[n][t] <= 1 + faults.cuts
        BY <2>1 DEF Recorded, Accounted, TypeOK
      <4>2. CASE owed # Nothing
        BY <1>2, <1>3, <4>1, <4>2
      <4>3. CASE owed = Nothing
        <5>1. owed.of # n
          BY <4>3, NothingOwed
        <5>2. t > cursor[n] => enqueued[n][t] <= faults.cuts
          BY <2>1, <5>1 DEF Recorded, Accounted
        <5> QED
          BY <1>2, <1>3, <4>1, <5>2
      <4> QED
        BY <4>2, <4>3
    <3> QED
      BY <1>1, <1>7, <3>1 DEF Accounted
  <2> QED
    BY <2>2, <2>3, <2>4 DEF Recorded
<1> QED
  BY <1>4, <1>6, <1>8, <1>9, <1>10

(* A tick and a suspension only move the clock.                             *)
LEMMA TimePasses ==
  ASSUME IInv, Tick \/ Suspend
  PROVE  IInv'
<1>1. /\ now \in Nat /\ MaxTime \in Nat
      /\ faults \in [sleeps : 0 .. MaxSleeps, stops : 0 .. MaxStops, cuts : 0 .. MaxCuts + MaxStops]
  BY Numbers, FireFacts DEF IInv, TypeOK
<1>2. UNCHANGED <<up, next, cursor, floor, sent, events, owed, enqueued, overtaken>>
  BY DEF Tick, Suspend, Fault, source, daemon, history
<1>3. now' \in now .. MaxTime
  BY <1>1 DEF Tick, Suspend
<1>4. CASE Tick
  BY <1>1, <1>2, <1>3, <1>4, ClockKeeps DEF Tick, history
<1>5. CASE Suspend
  <2>1. faults' = [faults EXCEPT !.sleeps = @ + 1] /\ faults.sleeps < MaxSleeps
    BY <1>5 DEF Suspend, Fault
  <2>2. /\ faults'.cuts = faults.cuts /\ faults'.stops = faults.stops
        /\ faults' \in [sleeps : 0 .. MaxSleeps, stops : 0 .. MaxStops, cuts : 0 .. MaxCuts + MaxStops]
    BY <1>1, <2>1, ScheduleAssumption
  <2> QED
    BY <1>2, <1>3, <2>2, ClockKeeps
<1> QED
  BY <1>4, <1>5

-----------------------------------------------------------------------------
(* The theorems.                                                            *)

(* The first state, in which nothing has fired.                             *)
LEMMA InitHolds == Init => IInv
<1> SUFFICES ASSUME Init PROVE IInv
  OBVIOUS
<1>1. Never \in Time /\ 1 \in Time \ {Never} /\ Never = 0
  BY ScheduleAssumption DEF Time, Never
<1>2. /\ now = 1 /\ up = FALSE /\ overtaken = FALSE /\ owed = Nothing
      /\ next = [n \in Schedules |-> Never] /\ cursor = next /\ floor = next
      /\ sent = [n \in Schedules |-> {}]
      /\ enqueued = [n \in Schedules |-> [t \in Time |-> 0]]
      /\ faults = [sleeps |-> 0, stops |-> 0, cuts |-> 0]
      /\ events = <<>> /\ Len(events) = 0 /\ 1 .. Len(events) = {}
  BY DEF Init
<1>3. TypeOK
  <2>1. faults \in [sleeps : 0 .. MaxSleeps, stops : 0 .. MaxStops, cuts : 0 .. MaxCuts + MaxStops]
    BY <1>2, ScheduleAssumption
  <2>2. events \in Seq(Event)
    BY <1>2
  <2>3. /\ next \in [Schedules -> Nat] /\ cursor \in [Schedules -> Time]
        /\ floor \in [Schedules -> Time] /\ sent \in [Schedules -> SUBSET Time]
        /\ enqueued \in [Schedules -> [Time -> Nat]]
    BY <1>1, <1>2
  <2>4. owed \in [of : Schedules \cup {NoSchedule}, at : Time, stamp : Time]
    BY <1>1, <1>2 DEF Nothing
  <2> QED
    BY <1>1, <1>2, <2>1, <2>2, <2>3, <2>4 DEF TypeOK
<1>4. Past /\ Ahead
  BY <1>1, <1>2 DEF Past, Ahead
<1>5. Counted
  BY <1>2, ScheduleAssumption DEF Counted
<1>6. Recorded
  <2>1. Newest /\ Distinct
    BY <1>2 DEF Newest, Distinct
  <2>2. Covered
    BY <1>1, <1>2, FireFacts DEF Covered
  <2>3. Accounted
    BY <1>2 DEF Accounted
  <2> QED
    BY <2>1, <2>2, <2>3 DEF Recorded
<1> QED
  BY <1>3, <1>4, <1>5, <1>6 DEF IInv

(* Every step keeps the invariant.                                          *)
LEMMA StepKeeps == IInv /\ [Next]_vars => IInv'
<1> SUFFICES ASSUME IInv, [Next]_vars PROVE IInv'
  OBVIOUS
<1>1. CASE \E n \in Schedules : Fire(n)
  BY <1>1, FireKeeps
<1>2. CASE ReactQuiet
  BY <1>2, QuietKeeps
<1>3. CASE ReactEnqueue
  BY <1>3, EnqueueKeeps
<1>4. CASE Record
  BY <1>4, RecordKeeps
<1>5. CASE RecordFails
  BY <1>5, RecordFailsKeeps
<1>6. CASE Tick \/ Suspend
  BY <1>6, TimePasses
<1>7. CASE Start
  BY <1>7, StartKeeps
<1>8. CASE Stop
  BY <1>8, StopKeeps
<1>9. CASE UNCHANGED vars
  <2>1. UNCHANGED <<now, up, next, cursor, floor, sent, events, owed, enqueued, overtaken, faults>>
    BY <1>9 DEF vars, clock, source, daemon, history
  <2>2. TypeOK' /\ Past' /\ Ahead' /\ Counted'
    BY <2>1 DEF IInv, TypeOK, Past, Ahead, Counted
  <2>3. Newest' = Newest /\ Covered' = Covered /\ Distinct' = Distinct /\ Accounted' = Accounted
    BY <2>1 DEF Newest, Covered, Distinct, Accounted, Scan
  <2>4. (~overtaken => Recorded)'
    BY <2>1, <2>3 DEF IInv, Recorded
  <2> QED
    BY <2>2, <2>4 DEF IInv
<1> QED
  BY <1>1, <1>2, <1>3, <1>4, <1>5, <1>6, <1>7, <1>8, <1>9 DEF Next

(* The cursor, the floor, the heap, the waiting events and the counts stay  *)
(* in step: however fires, reactions, sleeps and stops interleave.          *)
THEOREM Invariant == Spec => []IInv
BY InitHolds, StepKeeps, PTL DEF Spec

(* Every variable keeps its type.                                           *)
THEOREM Typed == Spec => []TypeOK
<1>1. IInv => TypeOK
  BY DEF IInv
<1> QED
  BY <1>1, Invariant, PTL

(* cron.rs's loop sends no instant of a schedule twice in a process's life, *)
(* until a cursor is recorded after its schedule sent again.                *)
THEOREM NeverSentTwice == Spec => SentOnce
<1>1. IInv /\ [Next]_vars => [Sends /\ ~overtaken => New.at \notin sent[New.of]]_vars
  <2> SUFFICES ASSUME IInv, Next, Sends, ~overtaken PROVE New.at \notin sent[New.of]
    OBVIOUS
  <2>1. TypeOK /\ events \in Seq(Event)
    BY DEF IInv, TypeOK
  <2>2. PICK n \in Schedules : Fire(n) /\ ~Blocked(n)
    <3>1. UNCHANGED events => ~Sends
      BY <2>1 DEF Sends
    <3>2. events # <<>> /\ events' = Tail(events) => ~Sends
      BY <2>1 DEF Sends
    <3>3. events' = <<>> => ~Sends
      BY <2>1 DEF Sends
    <3>4. \E n \in Schedules : Fire(n)
      BY <3>1, <3>2, <3>3 DEF Next, ReactQuiet, ReactEnqueue, Serving, Record, RecordFails, Tick,
          Suspend, Start, Stop, daemon
    <3>5. \A n \in Schedules : Fire(n) /\ Blocked(n) => UNCHANGED events
      BY DEF Fire
    <3> QED
      BY <3>1, <3>4, <3>5
  <2>3. New.of = n /\ New.at = EmitAt(n) /\ EmitAt(n) \in Time
    BY <2>2, Emitted DEF New
  <2>4. \A e \in sent[n] : e < EmitAt(n)
    BY <2>2, EmissionIsNew DEF Fire
  <2>5. EmitAt(n) \notin sent[n]
    BY <2>1, <2>3, <2>4, Numbers
  <2> QED
    BY <2>3, <2>5
<1> QED
  BY <1>1, Invariant, PTL DEF Spec, SentOnce

(* The rows of an instant are enqueued once, plus once per enqueue a fault  *)
(* cut from its cursor.                                                     *)
THEOREM EnqueuedAtMostOnce == Spec => []EnqueuedOnce
<1>1. IInv => EnqueuedOnce
  BY DEF IInv, Recorded, Accounted, EnqueuedOnce
<1> QED
  BY <1>1, Invariant, PTL

(* A due fire is sent, or a later one; nothing newer that may be sent is    *)
(* passed over by a catch-up that sees all of them.                         *)
LEMMA DueIsServed ==
  ASSUME IInv, NEW n \in Reminding, Fire(n), ~Truncated(n)
  PROVE  \E e \in sent'[n] :
            /\ e >= next[n]
            /\ \A f \in Fires[n] :
                  (f > e /\ f > cursor[n]) => (f > now \/ f + Window < now)
<1> DEFINE x == EmitAt(n)
<1>1. TypeOK /\ Ahead /\ Due(n) /\ n \in Schedules
  BY FireFacts DEF IInv, Fire
<1>2. /\ now \in Nat /\ cursor[n] \in Nat /\ Window \in Nat /\ next[n] \in Nat
      /\ \A f \in Fires[n] : f \in Nat
      /\ next[n] \in Fires[n] /\ next[n] <= now /\ x \in Nat /\ x <= now
  BY <1>1, Numbers, FireFacts, EmitAtIs DEF Ahead, Due
<1>3. x \in sent'[n]
  <2>1. CASE Blocked(n)
    <3>1. floor[n] = x /\ UNCHANGED sent
      BY <2>1 DEF Blocked, Fire
    <3>2. floor[n] # Never
      BY <1>1, <3>1, EmitAtIs DEF Never
    <3> QED
      BY <1>1, <3>1, <3>2 DEF Ahead
  <2>2. CASE ~Blocked(n)
    BY <1>1, <2>2, Emitted
  <2> QED
    BY <2>1, <2>2
<1>4. \A f \in Fires[n] : cursor[n] < f /\ f <= now => f \in Scan(n, cursor[n])
  BY <1>1 DEF Truncated
<1>5. \A f \in Fires[n] : f > cursor[n] /\ f <= now /\ f + Window >= now => f \in Missed(n)
  BY <1>4 DEF Missed
<1>6. CASE CatchesUp(n)
  <2>1. x = Latest(n) /\ Latest(n) \in Missed(n) /\ \A f \in Missed(n) : f <= x
    BY <1>1, <1>6, EmitAtIs, LatestPicked DEF CatchesUp
  <2>2. x > cursor[n] /\ x + Window >= now
    BY <2>1 DEF Missed, Scan
  <2>3. \A f \in Fires[n] : (f > x /\ f > cursor[n]) => (f > now \/ f + Window < now)
    <3>1. ASSUME NEW f \in Fires[n], f > x, f > cursor[n], ~(f > now), ~(f + Window < now)
          PROVE  FALSE
      <4>1. f \in Missed(n)
        BY <1>2, <1>5, <3>1
      <4> QED
        BY <1>2, <2>1, <3>1, <4>1
    <3> QED
      BY <3>1
  <2>4. x >= next[n]
    <3>1. ASSUME x < next[n] PROVE FALSE
      <4>1. next[n] \in Missed(n)
        BY <1>2, <1>5, <2>2, <3>1
      <4> QED
        BY <1>2, <2>1, <3>1, <4>1
    <3> QED
      BY <1>2, <3>1
  <2> QED
    BY <1>3, <2>3, <2>4
<1>7. CASE ~CatchesUp(n)
  <2>1. x = next[n] /\ Missed(n) = {}
    BY <1>7 DEF EmitAt, CatchesUp
  <2>2. \A f \in Fires[n] : f > cursor[n] => (f > now \/ f + Window < now)
    <3>1. ASSUME NEW f \in Fires[n], f > cursor[n], ~(f > now), ~(f + Window < now)
          PROVE  FALSE
      <4>1. f \in Missed(n)
        BY <1>2, <1>5, <3>1
      <4> QED
        BY <2>1, <4>1
    <3> QED
      BY <3>1
  <2> QED
    BY <1>2, <1>3, <2>1, <2>2
<1> QED
  BY <1>6, <1>7

(* However long the computer slept, a due fire is served by itself or by a  *)
(* later one, unless the scan is cut short.                                 *)
THEOREM FiresAreServed == Spec => FireServed
<1> DEFINE Served == \A n \in Reminding : Pops(n) /\ ~Truncated(n) =>
                        \E e \in sent'[n] :
                           /\ e >= next[n]
                           /\ \A f \in Fires[n] :
                                 (f > e /\ f > cursor[n]) => (f > now \/ f + Window < now)
<1>1. IInv /\ [Next]_vars => [Served]_vars
  <2> SUFFICES ASSUME IInv, Next, NEW n \in Reminding, Pops(n), ~Truncated(n)
               PROVE  \E e \in sent'[n] :
                         /\ e >= next[n]
                         /\ \A f \in Fires[n] :
                               (f > e /\ f > cursor[n]) => (f > now \/ f + Window < now)
    OBVIOUS
  <2>1. up /\ up' /\ next' # next /\ next'[n] # next[n]
    BY DEF Pops
  <2>2. PICK m \in Schedules : Fire(m)
    BY <2>1 DEF Next, ReactQuiet, ReactEnqueue, Record, RecordFails, Tick, Suspend, Start, Stop,
        source
  <2>3. m = n
    BY <2>1, <2>2, HeapMoves, FireFacts
  <2> QED
    BY <2>2, <2>3, DueIsServed
<1>2. Spec => [][Served]_vars
  <2> HIDE DEF Served
  <2> QED
    BY <1>1, Invariant, PTL DEF Spec
<1> QED
  BY <1>2 DEF FireServed
================================================================================
