-------------------------- MODULE SessionHubLifeProofs --------------------------
(***************************************************************************)
(* That the session hub keeps what SessionLife promises, for any number of *)
(* sessions, runs, callers and stops, as long as nobody parks a background *)
(* session and every line reaches its log: a park is what leaves such a    *)
(* session to be cancelled by whoever comes next, and a lost line is what  *)
(* a start would forget.                                                   *)
(***************************************************************************)
EXTENDS SessionHubProofs

(* A background session: its grant omits AskHuman, so nobody resumes it.    *)
Lone(s) == ~ mem[s].ask

(* Nobody has left a park intent for a background session, the drain forces *)
(* none to be parked, and no line was lost.                                 *)
Undisturbed ==
    /\ \A s \in parkReq : ~ Lone(s)
    /\ call[Main].at = "force" => ~ Lone(call[Main].s)
    /\ faults.lost = 0

(* Memory and log agree on which sessions there are and what they may ask.  *)
SameSessions ==
    \A s \in Sessions : mem[s].ask = disk[s].ask /\ (Known(mem[s]) <=> Known(disk[s]))

(* What a run is at says what is recorded of its session.                   *)
Recorded(r) ==
    LET st == mem[run[r].of].status
    IN  /\ run[r].pc \in {"made", "spawned"} => st = "Pending"
        /\ run[r].pc \in {"running", "asked", "decided"} => st = "Running"
        /\ run[r].pc = "decided" => run[r].out \in Ended
        /\ run[r].pc \in {"recorded", "closing", "unhandled"} =>
              st = run[r].out /\ run[r].out \in Ended

Hosts(r, s) == run[r].of = s /\ run[r].pc # "free"

OneRun ==
    \A r \in Runs : run[r].pc # "free" /\ Lone(run[r].of) =>
        /\ Recorded(r)
        /\ \A q \in Runs : Hosts(q, run[r].of) => q = r

(* A start that has not made its run is the only one, and there is none.    *)
Starting(c, s) == call[c].at = "handle" /\ call[c].s = s
OneStart ==
    \A c \in Callers, s \in Sessions : Starting(c, s) /\ Lone(s) =>
        /\ mem[s].status = "Pending"
        /\ \A r \in Runs : ~ Hosts(r, s)
        /\ \A d \in Callers : Starting(d, s) => d = c

(* Only a start finds a background session parked, and gives it up.         *)
GivesUp ==
    /\ \A c \in Callers : call[c].s \in Sessions /\ Lone(call[c].s) =>
          /\ call[c].at = "finish" =>
                c = Main /\ mem[call[c].s].status = "Parked" /\ call[c].s \notin todo
          /\ call[c].at = "publish" => c = Main /\ mem[call[c].s].status = "Cancelled"
    /\ \A s \in Sessions : Lone(s) =>
          /\ mem[s].status = "Parked" =>
                phase = "boot" /\ (s \in todo \/ (call[Main].at = "finish" /\ call[Main].s = s))
          /\ phase = "boot" /\ s \in todo => mem[s].status = "Parked"

(* A pending line says what memory says.                                    *)
LinesAgree ==
    \A p \in pen : Lone(p.s) =>
        /\ p.line.kind = "finish" => p.line.to = mem[p.s].status /\ p.line.to \in Ended
        /\ p.line.kind = "status" =>
              /\ p.line.to = "Running"
              /\ \E r \in Runs : p.by = Host(r) /\ run[r].of = p.s /\ run[r].pc = "running"

(* The log never says that a background session is parked, and how it says  *)
(* that one ended is how it ended.                                          *)
LogAgrees ==
    \A s \in Sessions : Lone(s) =>
        /\ disk[s].status # "Parked"
        /\ disk[s].status \in Ended => mem[s].status = disk[s].status

(* The outcome is in the log, or its line is about to be.                   *)
Logged(s, out, a) ==
    \/ disk[s].status = out
    \/ \E p \in pen : p.by = a /\ p.s = s /\ p.line = FinishLine(out)

(* What is announced next is in the log before.                             *)
LoggedFirst ==
    /\ \A r \in Runs : run[r].pc # "free" /\ Lone(run[r].of) =>
          /\ run[r].pc = "recorded" => Logged(run[r].of, run[r].out, Host(r))
          /\ run[r].pc \in {"closing", "unhandled"} => disk[run[r].of].status = run[r].out
    /\ \A c \in Callers : call[c].at = "publish" /\ Lone(call[c].s) =>
          Logged(call[c].s, "Cancelled", Caller(c))

(* The pump holds the end of a run only while the run waits for it.         *)
QueueEnds ==
    \A r \in Runs : \A i \in 1 .. Len(run[r].queue) :
        run[r].queue[i] = "finished" => run[r].pc = "closing"

(* What was announced is what memory and log say.                           *)
ToldAgrees ==
    \A s \in Sessions : Lone(s) /\ told[s] # "Absent" =>
        /\ told[s] \in Ended /\ mem[s].status = told[s] /\ disk[s].status = told[s]

RInv ==
    /\ SameSessions /\ OneRun /\ OneStart /\ GivesUp /\ LinesAgree /\ LogAgrees
    /\ LoggedFirst /\ QueueEnds /\ ToldAgrees

-----------------------------------------------------------------------------
(* Steps that record nothing.                                               *)

(* No status changes, in memory, in the log or on the bus; only questions   *)
(* and answers are written.                                                 *)
StoreStill ==
    /\ \A s \in Sessions : mem'[s].status = mem[s].status /\ mem'[s].ask = mem[s].ask
    /\ disk' = disk /\ told' = told
    /\ pen \subseteq pen' /\ \A p \in pen' \ pen : p.line.kind \in {"asked", "answered"}

(* How far a run gets without recording anything.                           *)
Advances(r) ==
    \/ run'[r].pc = "free"
    \/ /\ run'[r].of = run[r].of
       /\ \/ run'[r].pc = run[r].pc /\ run'[r].out = run[r].out
          \/ run[r].pc = "made" /\ run'[r].pc = "spawned"
          \/ /\ run[r].pc \in {"running", "asked"} /\ ~ Busy(Host(r))
             /\ \/ run'[r].pc \in {"running", "asked"}
                \/ run'[r].pc = "decided" /\ (Lone(run[r].of) => run'[r].out \in Ended)
          \/ /\ run[r].pc = "recorded" /\ ~ Busy(Host(r)) /\ run'[r].out = run[r].out
             /\ run'[r].pc = "closing"
          \/ /\ run[r].pc = "closing" /\ run'[r].out = run[r].out
             /\ run'[r].pc = "unhandled"

(* A running run goes on, unless its line is in the log.                    *)
RunsStill ==
    \A r \in Runs : Advances(r) /\ (run'[r].pc = "free" => run[r].pc # "running")

(* No call about a background session begins a run or gives one up.         *)
CallsStill ==
    /\ \A c \in Callers : call'[c].at \in {"handle", "finish", "publish"} =>
          call'[c] = call[c] \/ (call'[c].s \in Sessions /\ ~ Lone(call'[c].s))
    /\ call[Main].at = "finish" => call'[Main] = call[Main]

(* The start goes on, or is over with nothing left to visit.                *)
MainStill ==
    \/ UNCHANGED main
    \/ phase # "boot" /\ phase' # "boot"
    \/ phase' # "boot" /\ todo = {} /\ call[Main].at = "idle"

(* What an actor has not appended yet is about a session.                   *)
LEMMA PenTyped ==
  ASSUME IInv, NEW p \in pen
  PROVE  p.s \in Sessions /\ p.line \in Line /\ p.by \in Actors
BY DEF IInv, TypeOK, StoreOK

(* A run or a call that is under way is about a session.                    *)
LEMMA Subjects ==
  ASSUME IInv
  PROVE  /\ \A r \in Runs : run[r].pc # "free" => run[r].of \in Sessions
         /\ \A r \in Runs : run[r].pc = "free" => run[r] = FreeRun
         /\ \A c \in Callers : call[c].at # "idle" => call[c].s \in Sessions
         /\ \A c \in Callers : call[c].at = "idle" => call[c] = IdleCall
         /\ NoSession \notin Sessions /\ Main \in Callers
BY HubAssumption DEF IInv, RunsHold, CallsHold, Callers

(* A step that records nothing keeps what was recorded.                     *)
LEMMA Hops ==
  ASSUME RInv, IInv, IInv', StoreStill, RunsStill, CallsStill, MainStill, QueueEnds'
  PROVE  RInv'
<1>1. \A s \in Sessions : Lone(s)' = Lone(s) /\ mem'[s].status = mem[s].status
  BY DEF StoreStill, Lone
<1>2. SameSessions' /\ LogAgrees' /\ ToldAgrees'
  BY <1>1 DEF RInv, SameSessions, LogAgrees, ToldAgrees, StoreStill, Known, Lone
<1>3. \A r \in Runs : run'[r].pc # "free" =>
          run'[r].of = run[r].of /\ run[r].pc # "free" /\ run'[r].of \in Sessions
  BY Subjects DEF RunsStill, Advances
<1>4. OneRun'
  <2> SUFFICES ASSUME NEW r \in Runs, run'[r].pc # "free", Lone(run[r].of)'
               PROVE  Recorded(r)' /\ \A q \in Runs : Hosts(q, run[r].of)' => q = r
    BY DEF OneRun
  <2>1. /\ run'[r].of = run[r].of /\ run[r].pc # "free" /\ run[r].of \in Sessions
        /\ Lone(run[r].of)
    BY <1>1, <1>3 DEF Lone
  <2>2. Recorded(r) /\ \A q \in Runs : Hosts(q, run[r].of) => q = r
    BY <2>1 DEF RInv, OneRun
  <2>3. Recorded(r)'
    BY <1>1, <2>1, <2>2 DEF Recorded, RunsStill, Advances
  <2>4. ASSUME NEW q \in Runs, Hosts(q, run[r].of)' PROVE q = r
    BY <1>3, <2>1, <2>2, <2>4 DEF Hosts
  <2> QED
    BY <2>3, <2>4
<1>5. OneStart'
  <2> SUFFICES ASSUME NEW c \in Callers, NEW s \in Sessions, Starting(c, s)', Lone(s)'
               PROVE  /\ mem'[s].status = "Pending"
                      /\ \A r \in Runs : ~ Hosts(r, s)'
                      /\ \A d \in Callers : Starting(d, s)' => d = c
    BY DEF OneStart
  <2>1. \A d \in Callers : Starting(d, s)' => Starting(d, s)
    BY <1>1 DEF CallsStill, Starting, Lone
  <2>2. /\ mem[s].status = "Pending" /\ \A r \in Runs : ~ Hosts(r, s)
        /\ \A d \in Callers : Starting(d, s) => d = c
    BY <1>1, <2>1 DEF RInv, OneStart
  <2>3. \A r \in Runs : Hosts(r, s)' => Hosts(r, s)
    BY <1>3 DEF Hosts
  <2> QED
    BY <1>1, <2>1, <2>2, <2>3
<1>6. GivesUp'
  <2>1. ASSUME NEW c \in Callers, call'[c].s \in Sessions, Lone(call[c].s)',
               call'[c].at \in {"finish", "publish"}
        PROVE  call'[c] = call[c] /\ Lone(call[c].s)
    BY <1>1, <2>1 DEF CallsStill, Lone
  <2>2. \A c \in Callers : call'[c].s \in Sessions /\ Lone(call[c].s)' =>
          /\ call'[c].at = "finish" =>
                c = Main /\ mem'[call'[c].s].status = "Parked" /\ call'[c].s \notin todo'
          /\ call'[c].at = "publish" => c = Main /\ mem'[call'[c].s].status = "Cancelled"
    BY <1>1, <2>1 DEF RInv, GivesUp, MainStill, main
  <2>3. ASSUME NEW s \in Sessions, Lone(s)', mem'[s].status = "Parked"
        PROVE  phase' = "boot" /\ (s \in todo' \/ (call'[Main].at = "finish" /\ call'[Main].s = s))
    <3>1. phase = "boot" /\ (s \in todo \/ (call[Main].at = "finish" /\ call[Main].s = s))
      BY <1>1, <2>3 DEF RInv, GivesUp
    <3> QED
      BY <3>1 DEF MainStill, CallsStill, main
  <2>4. ASSUME NEW s \in Sessions, Lone(s)', phase' = "boot", s \in todo'
        PROVE  mem'[s].status = "Parked"
    BY <1>1, <2>4 DEF RInv, GivesUp, MainStill, main
  <2> QED
    BY <2>2, <2>3, <2>4 DEF GivesUp
<1>7. LinesAgree'
  <2> SUFFICES ASSUME NEW p \in pen', Lone(p.s)', p.line.kind \in {"finish", "status"}
               PROVE  /\ p.line.kind = "finish" =>
                            p.line.to = mem'[p.s].status /\ p.line.to \in Ended
                      /\ p.line.kind = "status" =>
                            /\ p.line.to = "Running"
                            /\ \E r \in Runs : p.by = Host(r) /\ run'[r].of = p.s
                                              /\ run'[r].pc = "running"
    BY DEF LinesAgree
  <2>1. p \in pen /\ p.s \in Sessions /\ Lone(p.s)
    BY <1>1, PenTyped DEF StoreStill
  <2>2. CASE p.line.kind = "finish"
    BY <1>1, <2>1, <2>2 DEF RInv, LinesAgree
  <2>3. CASE p.line.kind = "status"
    <3>1. p.line.to = "Running"
      BY <2>1, <2>3 DEF RInv, LinesAgree
    <3>2. PICK r \in Runs : p.by = Host(r) /\ run[r].of = p.s /\ run[r].pc = "running"
      BY <2>1, <2>3 DEF RInv, LinesAgree
    <3>3. Busy(Host(r))
      BY <2>1, <3>2 DEF Busy
    <3>4. run'[r].of = p.s /\ run'[r].pc = "running"
      BY <3>2, <3>3 DEF RunsStill, Advances
    <3> QED
      BY <2>3, <3>1, <3>2, <3>4
  <2> QED
    BY <2>2, <2>3
<1>8. \A s, out, a : Logged(s, out, a) => Logged(s, out, a)'
  BY DEF Logged, StoreStill
<1>9. LoggedFirst'
  <2>1. ASSUME NEW r \in Runs, run'[r].pc \in {"recorded", "closing", "unhandled"},
               Lone(run[r].of)'
        PROVE  /\ run'[r].pc = "recorded" => Logged(run[r].of, run[r].out, Host(r))'
               /\ run'[r].pc \in {"closing", "unhandled"} => disk'[run'[r].of].status = run'[r].out
    <3>1. run'[r].of = run[r].of /\ run[r].pc # "free" /\ Lone(run[r].of)
      BY <1>1, <1>3, <2>1 DEF Lone
    <3>2. run'[r].out = run[r].out /\ run[r].pc \in {"recorded", "closing", "unhandled"}
      BY <2>1, <3>1 DEF RunsStill, Advances
    <3>3. CASE run[r].pc = "recorded"
      <4>1. Logged(run[r].of, run[r].out, Host(r))
        BY <3>1, <3>3 DEF RInv, LoggedFirst
      <4>2. CASE run'[r].pc = "recorded"
        BY <1>8, <3>1, <3>2, <4>1, <4>2 DEF Logged, StoreStill
      <4>3. CASE run'[r].pc # "recorded"
        <5>1. ~ Busy(Host(r)) /\ run'[r].pc = "closing"
          BY <2>1, <3>3, <4>3 DEF RunsStill, Advances
        <5> QED
          BY <3>1, <3>2, <4>1, <5>1 DEF Logged, Busy, StoreStill
      <4> QED
        BY <4>2, <4>3
    <3>4. CASE run[r].pc \in {"closing", "unhandled"}
      <4>1. disk[run[r].of].status = run[r].out /\ disk' = disk
        BY <3>1, <3>4 DEF RInv, LoggedFirst, StoreStill
      <4>2. run'[r].pc # "recorded"
        BY <2>1, <3>4 DEF RunsStill, Advances
      <4> QED
        BY <3>1, <3>2, <4>1, <4>2
    <3> QED
      BY <3>2, <3>3, <3>4
  <2>2. ASSUME NEW c \in Callers, call'[c].at = "publish", Lone(call[c].s)'
        PROVE  Logged(call[c].s, "Cancelled", Caller(c))'
    <3>1. call'[c] = call[c] /\ call[c].s \in Sessions
      BY <1>1, <2>2, Subjects DEF CallsStill, Lone
    <3>2. Logged(call[c].s, "Cancelled", Caller(c))
      BY <1>1, <2>2, <3>1 DEF RInv, LoggedFirst, Lone
    <3> QED
      BY <1>8, <3>1, <3>2 DEF Logged, StoreStill
  <2> QED
    BY <2>1, <2>2 DEF LoggedFirst
<1> QED
  BY <1>2, <1>4, <1>5, <1>6, <1>7, <1>9 DEF RInv

(* The queue of a run that neither gains an event nor stops waiting.        *)
LEMMA QueuesKept ==
  ASSUME QueueEnds, NEW r, \A q \in Runs \ {r} : run'[q] = run[q],
         r \in Runs => \A i \in 1 .. Len(run'[r].queue) :
                           run'[r].queue[i] = "finished" => run'[r].pc = "closing"
  PROVE  QueueEnds'
BY DEF QueueEnds

(* The pack asks, hears and returns; its host waits, announces and leaves.  *)
LEMMA HostHops ==
  ASSUME RInv, IInv, Undisturbed, NEW r \in Runs,
         \/ HostAsk(r) \/ HostHear(r) \/ HostAnnounce(r) \/ HostUnhandle(r) \/ HostEnd(r)
         \/ \E out \in Outcomes \cup {"Parked", "Cancelled"} : HostReturn(r, out)
  PROVE  StoreStill /\ RunsStill /\ CallsStill /\ MainStill /\ QueueEnds'
<1>1. UNCHANGED <<store, call, main>>
  BY DEF HostAsk, HostHear, HostReturn, HostAnnounce, HostUnhandle, HostEnd
<1>2. StoreStill /\ CallsStill /\ MainStill
  BY <1>1 DEF StoreStill, CallsStill, MainStill, store
<1>3. run \in [Runs -> Run] /\ run[r] \in Run /\ run[r].queue \in Seq({"asked", "finished"})
  BY DEF IInv, TypeOK, RunOK, Run
<1>4. \A q \in Runs \ {r} : run'[q] = run[q]
  BY <1>3 DEF HostAsk, HostHear, HostReturn, HostAnnounce, HostUnhandle, HostEnd, Step
<1>5. \A i \in 1 .. Len(run[r].queue) : run[r].queue[i] = "finished" => run[r].pc = "closing"
  BY DEF RInv, QueueEnds
<1>6. \A q \in Runs \ {r} : Advances(q) /\ (run'[q].pc = "free" => run[q].pc # "running")
  BY <1>4 DEF Advances
<1>7. CASE HostAsk(r)
  <2>1. run'[r] = [run[r] EXCEPT !.pc = "asked", !.queue = Append(@, "asked")]
    BY <1>3, <1>7 DEF HostAsk
  <2>2. /\ run'[r].pc = "asked" /\ run'[r].of = run[r].of
        /\ run'[r].queue = Append(run[r].queue, "asked")
    BY <1>3, <2>1 DEF Run
  <2>3. run[r].pc = "running" /\ ~ Busy(Host(r))
    BY <1>7 DEF HostAsk, HostAt
  <2>4. \A i \in 1 .. Len(run'[r].queue) : run'[r].queue[i] # "finished"
    BY <1>3, <1>5, <2>2, <2>3
  <2> QED
    BY <1>2, <1>4, <1>6, <2>2, <2>3, <2>4, QueuesKept DEF RInv, RunsStill, Advances
<1>8. CASE HostHear(r)
  <2>1. run'[r] = [run[r] EXCEPT !.pc = "running", !.inbox = @ - 1]
    BY <1>3, <1>8 DEF HostHear
  <2>2. run'[r].pc = "running" /\ run'[r].of = run[r].of /\ run'[r].queue = run[r].queue
    BY <1>3, <2>1 DEF Run
  <2>3. run[r].pc = "asked" /\ ~ Busy(Host(r))
    BY <1>8 DEF HostHear, HostAt
  <2>4. \A i \in 1 .. Len(run'[r].queue) : run'[r].queue[i] # "finished"
    BY <1>5, <2>2, <2>3
  <2> QED
    BY <1>2, <1>4, <1>6, <2>2, <2>3, <2>4, QueuesKept DEF RInv, RunsStill, Advances
<1>9. ASSUME NEW out \in Outcomes \cup {"Parked", "Cancelled"}, HostReturn(r, out)
      PROVE  RunsStill /\ QueueEnds'
  <2>1. run'[r] = [run[r] EXCEPT !.pc = "decided", !.out = out, !.inbox = 0]
    BY <1>3, <1>9 DEF HostReturn
  <2>2. /\ run'[r].pc = "decided" /\ run'[r].of = run[r].of /\ run'[r].out = out
        /\ run'[r].queue = run[r].queue
    BY <1>3, <2>1 DEF Run
  <2>3. run[r].pc \in {"running", "asked"} /\ ~ Busy(Host(r))
    BY <1>9 DEF HostReturn, HostAt
  <2>4. Lone(run[r].of) => out \in Ended
    BY <1>9, HubAssumption DEF HostReturn, Disposition, Undisturbed, Ended
  <2>5. \A i \in 1 .. Len(run'[r].queue) : run'[r].queue[i] # "finished"
    BY <1>5, <2>2, <2>3
  <2> QED
    BY <1>2, <1>4, <1>6, <2>2, <2>3, <2>4, <2>5, QueuesKept DEF RInv, RunsStill, Advances
<1>10. CASE HostAnnounce(r)
  <2>1. run'[r] = [run[r] EXCEPT !.pc = "closing", !.queue = Append(@, "finished")]
    BY <1>3, <1>10 DEF HostAnnounce
  <2>2. run'[r].pc = "closing" /\ run'[r].of = run[r].of /\ run'[r].out = run[r].out
    BY <1>3, <2>1 DEF Run
  <2>3. run[r].pc = "recorded" /\ ~ Busy(Host(r))
    BY <1>10 DEF HostAnnounce, HostAt
  <2> QED
    BY <1>2, <1>4, <1>6, <2>2, <2>3, QueuesKept DEF RInv, RunsStill, Advances
<1>11. CASE HostUnhandle(r)
  <2>1. run'[r] = [run[r] EXCEPT !.pc = "unhandled"]
    BY <1>3, <1>11 DEF HostUnhandle, Step
  <2>2. /\ run'[r].pc = "unhandled" /\ run'[r].of = run[r].of /\ run'[r].out = run[r].out
        /\ run'[r].queue = run[r].queue
    BY <1>3, <2>1 DEF Run
  <2>3. run[r].pc = "closing" /\ run[r].queue = <<>>
    BY <1>11 DEF HostUnhandle, HostAt
  <2>4. \A i \in 1 .. Len(run'[r].queue) : FALSE
    BY <2>2, <2>3
  <2> QED
    BY <1>2, <1>4, <1>6, <2>2, <2>3, <2>4, QueuesKept DEF RInv, RunsStill, Advances
<1>12. CASE HostEnd(r)
  <2>1. run'[r] = FreeRun /\ run[r].pc = "unhandled"
    BY <1>3, <1>12 DEF HostEnd, HostAt
  <2>2. run'[r].pc = "free" /\ run'[r].queue = <<>>
    BY <2>1 DEF FreeRun
  <2>3. \A i \in 1 .. Len(run'[r].queue) : FALSE
    BY <2>2
  <2> QED
    BY <1>2, <1>4, <1>6, <2>1, <2>2, <2>3, QueuesKept DEF RInv, RunsStill, Advances
<1> QED
  BY <1>2, <1>7, <1>8, <1>9, <1>10, <1>11, <1>12

(* The pump takes the next event out of its queue.                          *)
LEMMA PumpQueue ==
  ASSUME RInv, IInv, NEW r \in Runs, PumpPush(r)
  PROVE  QueueEnds'
<1>1. /\ run \in [Runs -> Run] /\ run[r].queue \in Seq({"asked", "finished"})
      /\ run[r].queue # <<>>
  BY DEF IInv, TypeOK, RunOK, Run, PumpPush
<1>2. run' = [run EXCEPT ![r] = [run[r] EXCEPT !.queue = Tail(run[r].queue)]]
  BY DEF PumpPush
<1>3. run'[r].queue = Tail(run[r].queue) /\ run'[r].pc = run[r].pc
  BY <1>1, <1>2 DEF Run
<1>4. \A q \in Runs \ {r} : run'[q] = run[q]
  BY <1>1, <1>2
<1>5. ASSUME NEW i \in 1 .. Len(run'[r].queue), run'[r].queue[i] = "finished"
      PROVE  run[r].pc = "closing"
  <2>1. i + 1 \in 1 .. Len(run[r].queue) /\ run'[r].queue[i] = run[r].queue[i + 1]
    BY <1>1, <1>3, <1>5
  <2> QED
    BY <1>5, <2>1 DEF RInv, QueueEnds
<1> QED
  BY <1>3, <1>4, <1>5, QueuesKept DEF RInv

(* A question reaches the log of its session, late or not.                  *)
LEMMA PumpHops ==
  ASSUME RInv, IInv, NEW r \in Runs, PumpPush(r), Head(run[r].queue) = "asked"
  PROVE  StoreStill /\ RunsStill /\ CallsStill /\ MainStill /\ QueueEnds'
<1>1. /\ \A q \in Runs :
            run'[q].pc = run[q].pc /\ run'[q].of = run[q].of /\ run'[q].out = run[q].out
      /\ \A s \in Sessions : mem'[s].status = mem[s].status /\ mem'[s].ask = mem[s].ask
      /\ UNCHANGED main
  BY PumpKeeps DEF IInv, TypeOK
<1>2. Write(Pump(r), run[r].of, Asked) /\ UNCHANGED call
  BY DEF PumpPush
<1>3. StoreStill
  BY <1>1, <1>2 DEF Write, StoreStill, Asked
<1>4. RunsStill
  BY <1>1 DEF RunsStill, Advances
<1>5. CallsStill /\ MainStill
  BY <1>1, <1>2 DEF CallsStill, MainStill
<1> QED
  BY <1>3, <1>4, <1>5, PumpQueue

(* An answer is written without a change of status.                         *)
LEMMA AnswerStill ==
  ASSUME IInv, NEW c \in Callers, NEW s \in Sessions, Write(Caller(c), s, Answered)
  PROVE  StoreStill
<1>1. Answered \in Line /\ Answered.kind = "answered"
  BY DEF Answered, Line
<1>2. \A t \in Sessions : mem'[t].status = mem[t].status /\ mem'[t].ask = mem[t].ask
  BY <1>1, WriteKeeps DEF IInv, TypeOK
<1> QED
  BY <1>1, <1>2 DEF StoreStill, Write

(* The calls that record nothing: all but a start and the end of a cancel.  *)
LEMMA CallHops ==
  ASSUME RInv, IInv, NEW c \in Callers,
         \/ \E s \in Sessions :
               \/ MessageLive(c, s) \/ MessageParked(c, s) \/ CancelLive(c, s)
               \/ CancelStored(c, s) \/ Park(c, s) \/ Await(c, s)
         \/ Launch(c) \/ Echo(c) \/ Resume(c) \/ Answer(c) \/ Cancel(c)
         \/ Intend(c) \/ Signal(c) \/ AwaitReturn(c)
  PROVE  StoreStill /\ RunsStill /\ CallsStill /\ MainStill /\ QueueEnds'
<1>1. /\ run \in [Runs -> Run] /\ call \in [Callers -> Call] /\ QueueEnds
      /\ cancels \in [Sessions -> Runs \cup {NoRun}] /\ inputs \in [Sessions -> Runs \cup {NoRun}]
  BY DEF IInv, TypeOK, RunOK, CallOK, HandlesOK, RInv
<1>2. UNCHANGED main /\ MainStill
  BY DEF MainStill, MessageLive, MessageParked, CancelLive, CancelStored, Park, Await, Launch,
      Echo, Resume, Answer, Cancel, Intend, Signal, AwaitReturn
<1>3. /\ \A q \in Runs : /\ run'[q].of = run[q].of /\ run'[q].queue = run[q].queue
                         /\ run'[q].out = run[q].out
                         /\ \/ run'[q].pc = run[q].pc
                            \/ run[q].pc = "made" /\ run'[q].pc = "spawned"
  <2>1. CASE Launch(c)
    <3>1. call[c].r \in Runs /\ run[call[c].r].pc = "made"
      BY <2>1 DEF IInv, CallsHold, LaunchOwns, Launching, Launch, At
    <3>2. run' = [run EXCEPT ![call[c].r] = [run[call[c].r] EXCEPT !.pc = "spawned"]]
      BY <2>1 DEF Launch, Step
    <3> QED
      BY <1>1, <3>1, <3>2 DEF Run
  <2>2. CASE \E s \in Sessions : MessageLive(c, s)
    <3>1. PICK s \in Sessions : MessageLive(c, s)
      BY <2>2
    <3>2. PICK q \in Runs : q = inputs[s]
      BY <1>1, <3>1 DEF MessageLive
    <3>3. run' = [run EXCEPT ![q] = [run[q] EXCEPT !.inbox = @ + 1]]
      BY <3>1, <3>2 DEF MessageLive
    <3> QED
      BY <1>1, <3>3 DEF Run
  <2>3. CASE \E s \in Sessions : CancelLive(c, s)
    <3>1. PICK s \in Sessions : CancelLive(c, s)
      BY <2>3
    <3>2. PICK q \in Runs : q = cancels[s]
      BY <1>1, <3>1 DEF CancelLive
    <3>3. run' = [run EXCEPT ![q] = [run[q] EXCEPT !.stop = TRUE]]
      BY <3>1, <3>2 DEF CancelLive
    <3> QED
      BY <1>1, <3>3 DEF Run
  <2>4. CASE Signal(c)
    <3>1. PICK q \in Runs : q = call[c].r
      BY <2>4 DEF IInv, CallsHold, Signal, At
    <3>2. \/ run' = run
          \/ run' = [run EXCEPT ![q] = [run[q] EXCEPT !.stop = TRUE]]
      BY <2>4, <3>1 DEF Signal
    <3> QED
      BY <1>1, <3>2, SMTT(60) DEF Run
  <2>5. CASE UNCHANGED run
    BY <2>5
  <2> QED
    BY <2>1, <2>2, <2>3, <2>4, <2>5 DEF MessageParked, CancelStored, Park, Await, Echo, Resume,
        Answer, Cancel, Intend, AwaitReturn
<1>4. RunsStill
  BY <1>3 DEF RunsStill, Advances
<1>5. QueueEnds'
  <2>1. ASSUME NEW q \in Runs, NEW i \in 1 .. Len(run'[q].queue), run'[q].queue[i] = "finished"
        PROVE  run'[q].pc = "closing"
    <3>1. run[q].pc = "closing"
      BY <1>1, <1>3, <2>1 DEF QueueEnds
    <3> QED
      BY <1>3, <3>1
  <2> QED
    BY <2>1 DEF QueueEnds
<1>6. StoreStill
  <2>1. CASE Echo(c) \/ Answer(c)
    <3>1. call[c].s \in Sessions /\ Write(Caller(c), call[c].s, Answered)
      BY <2>1, Subjects DEF Echo, Answer, At
    <3> QED
      BY <3>1, AnswerStill
  <2>2. CASE ~ (Echo(c) \/ Answer(c))
    <3>1. UNCHANGED store
      BY <2>2 DEF MessageLive, MessageParked, CancelLive, CancelStored, Park, Await, Launch,
          Resume, Cancel, Intend, Signal, AwaitReturn
    <3> QED
      BY <3>1 DEF StoreStill, store
  <2> QED
    BY <2>1, <2>2
<1>7. \A d \in Callers \ {c} : call'[d] = call[d]
  BY <1>1 DEF MessageLive, MessageParked, CancelLive, CancelStored, Park, Await, Launch, Echo,
      Resume, Answer, Cancel, Intend, Signal, AwaitReturn, Begin, Go, End
<1>8. call[c].at # "finish"
  BY DEF MessageLive, MessageParked, CancelLive, CancelStored, Park, Await, Launch, Echo,
      Resume, Answer, Cancel, Intend, Signal, AwaitReturn, Asks, Ready, At
<1>9. ASSUME call'[c].at \in {"handle", "finish", "publish"}
      PROVE  call'[c].s \in Sessions /\ ~ Lone(call'[c].s)
  <2>1. CASE Answer(c)
    <3>1. call[c].at = "answer" /\ call' = [call EXCEPT ![c] = [call[c] EXCEPT !.at = "handle"]]
      BY <2>1 DEF Answer, At, Go
    <3>2. call'[c].s = call[c].s /\ call[c].s \in Sessions
      BY <1>1, <3>1, Subjects DEF Call
    <3> QED
      BY <3>1, <3>2 DEF IInv, NeverUnasked, Lone
  <2>2. CASE Cancel(c)
    <3>1. call[c].at = "cancel" /\ call[c].s \in Sessions
      BY <2>2, Subjects DEF Cancel, At
    <3>2. /\ mem[call[c].s].status = "Parked"
          /\ call' = [call EXCEPT ![c] = [call[c] EXCEPT !.at = "finish"]]
      BY <1>1, <1>9, <2>2 DEF Cancel, Go, End, IdleCall
    <3>3. call'[c].s = call[c].s
      BY <1>1, <3>2 DEF Call
    <3>4. phase # "boot"
      BY <3>1 DEF IInv, BootQuiet, IdleCall, Callers
    <3> QED
      BY <3>1, <3>2, <3>3, <3>4 DEF RInv, GivesUp
  <2>3. CASE Resume(c)
    BY <1>1, <1>9, <2>3 DEF Resume, Go, End, IdleCall, Call
  <2>4. CASE \E s \in Sessions : CancelLive(c, s)
    BY <1>9, <2>4 DEF CancelLive, Asks, Ready, At
  <2>5. CASE \E s \in Sessions : \/ MessageLive(c, s) \/ MessageParked(c, s)
                                 \/ CancelStored(c, s) \/ Park(c, s) \/ Await(c, s)
    BY <1>1, <1>9, <2>5 DEF MessageLive, MessageParked, CancelStored, Park, Await, Begin
  <2>6. CASE Intend(c) \/ Launch(c) \/ Echo(c) \/ Signal(c) \/ AwaitReturn(c)
    BY <1>1, <1>9, <2>6 DEF Intend, Launch, Echo, Signal, AwaitReturn, Go, End, IdleCall, Call
  <2> QED
    BY <2>1, <2>2, <2>3, <2>4, <2>5, <2>6
<1>10. CallsStill
  <2>1. ASSUME NEW d \in Callers, call'[d].at \in {"handle", "finish", "publish"}
        PROVE  call'[d] = call[d] \/ (call'[d].s \in Sessions /\ ~ Lone(call'[d].s))
    BY <1>7, <1>9, <2>1
  <2>2. call[Main].at = "finish" => call'[Main] = call[Main]
    BY <1>7, <1>8, Subjects
  <2> QED
    BY <2>1, <2>2 DEF CallsStill
<1> QED
  BY <1>2, <1>4, <1>5, <1>6, <1>10

(* The start's loop ends and a drain goes on.                               *)
LEMMA MainHops ==
  ASSUME RInv, IInv,
         \/ \E s \in Sessions : DrainPark(s) \/ ForceCheck(s)
         \/ Serve \/ BeginDrain \/ EndGrace \/ EndSettle \/ EndDrain
  PROVE  StoreStill /\ RunsStill /\ CallsStill /\ MainStill /\ QueueEnds'
<1>1. /\ UNCHANGED <<store, run>>
      /\ call[Main].at = "idle" \/ call' = call
  BY DEF DrainPark, ForceCheck, Serve, BeginDrain, EndGrace, EndSettle, EndDrain, MainIdle, At
<1>2. StoreStill /\ RunsStill /\ QueueEnds'
  BY <1>1 DEF StoreStill, RunsStill, Advances, RInv, QueueEnds, store
<1>3. call \in [Callers -> Call] /\ Main \in Callers
  BY Subjects DEF IInv, TypeOK, CallOK
<1>4. /\ \A d \in Callers \ {Main} : call'[d] = call[d]
      /\ call'[Main] = call[Main] \/ call'[Main].at \in {"intend", "force"}
  BY <1>3 DEF DrainPark, ForceCheck, Serve, BeginDrain, EndGrace, EndSettle, EndDrain, Begin
<1>5. CallsStill
  BY <1>1, <1>4 DEF CallsStill
<1>6. MainStill
  BY DEF MainStill, DrainPark, ForceCheck, Serve, BeginDrain, EndGrace, EndSettle, EndDrain,
      Enter, Visit, MainIdle, At
<1> QED
  BY <1>2, <1>5, <1>6

-----------------------------------------------------------------------------
(* Steps that record something do so of one session.                        *)

(* What RInv says of one background session.                                *)
Consistent(s) ==
    /\ \A r \in Runs : Hosts(r, s) =>
          /\ Recorded(r) /\ \A q \in Runs : Hosts(q, s) => q = r
          /\ run[r].pc = "recorded" => Logged(s, run[r].out, Host(r))
          /\ run[r].pc \in {"closing", "unhandled"} => disk[s].status = run[r].out
    /\ \A c \in Callers : Starting(c, s) =>
          /\ mem[s].status = "Pending"
          /\ \A r \in Runs : ~ Hosts(r, s)
          /\ \A d \in Callers : Starting(d, s) => d = c
    /\ \A c \in Callers : call[c].s = s =>
          /\ call[c].at = "finish" => c = Main /\ mem[s].status = "Parked" /\ s \notin todo
          /\ call[c].at = "publish" =>
                c = Main /\ mem[s].status = "Cancelled" /\ Logged(s, "Cancelled", Caller(c))
    /\ mem[s].status = "Parked" =>
          phase = "boot" /\ (s \in todo \/ (call[Main].at = "finish" /\ call[Main].s = s))
    /\ phase = "boot" /\ s \in todo => mem[s].status = "Parked"
    /\ \A p \in pen : p.s = s =>
          /\ p.line.kind = "finish" => p.line.to = mem[s].status /\ p.line.to \in Ended
          /\ p.line.kind = "status" =>
                /\ p.line.to = "Running"
                /\ \E r \in Runs : p.by = Host(r) /\ run[r].of = s /\ run[r].pc = "running"
    /\ disk[s].status # "Parked" /\ (disk[s].status \in Ended => mem[s].status = disk[s].status)
    /\ told[s] # "Absent" =>
          told[s] \in Ended /\ mem[s].status = told[s] /\ disk[s].status = told[s]

(* A step that is about another session.                                    *)
Untouched(t) ==
    /\ mem'[t] = mem[t] /\ disk'[t] = disk[t] /\ told'[t] = told[t]
    /\ \A r \in Runs : Hosts(r, t) \/ Hosts(r, t)' =>
          run'[r].of = run[r].of /\ run'[r].pc = run[r].pc /\ run'[r].out = run[r].out
    /\ \A c \in Callers : call'[c].s = t /\ call'[c].at \in {"handle", "finish", "publish"} =>
          call'[c] = call[c]
    /\ call[Main].at = "finish" /\ call[Main].s = t => call'[Main] = call[Main]
    /\ \A p \in pen \cup pen' : p.s = t => p \in pen /\ p \in pen'
    /\ phase' = phase /\ (t \in todo' <=> t \in todo)

(* Of a background session, what the invariant says.                        *)
LEMMA Apart ==
  ASSUME RInv, NEW s \in Sessions, Lone(s) PROVE Consistent(s)
<1>1. \A r \in Runs : Hosts(r, s) =>
          /\ Recorded(r) /\ \A q \in Runs : Hosts(q, s) => q = r
          /\ run[r].pc = "recorded" => Logged(s, run[r].out, Host(r))
          /\ run[r].pc \in {"closing", "unhandled"} => disk[s].status = run[r].out
  BY DEF RInv, OneRun, LoggedFirst, Hosts
<1>2. \A c \in Callers : call[c].s = s =>
          /\ call[c].at = "finish" => c = Main /\ mem[s].status = "Parked" /\ s \notin todo
          /\ call[c].at = "publish" =>
                c = Main /\ mem[s].status = "Cancelled" /\ Logged(s, "Cancelled", Caller(c))
  BY DEF RInv, GivesUp, LoggedFirst
<1>3. \A p \in pen : p.s = s =>
          /\ p.line.kind = "finish" => p.line.to = mem[s].status /\ p.line.to \in Ended
          /\ p.line.kind = "status" =>
                /\ p.line.to = "Running"
                /\ \E r \in Runs : p.by = Host(r) /\ run[r].of = s /\ run[r].pc = "running"
  BY DEF RInv, LinesAgree
<1> QED
  BY <1>1, <1>2, <1>3 DEF Consistent, RInv, OneStart, GivesUp, LogAgrees, ToldAgrees

(* What is so of every background session is the invariant.                 *)
LEMMA Together ==
  ASSUME IInv', SameSessions', QueueEnds', \A s \in Sessions : Lone(s)' => Consistent(s)'
  PROVE  RInv'
<1>1. /\ \A r \in Runs : run'[r].pc # "free" => run'[r].of \in Sessions
      /\ \A c \in Callers : call'[c].at # "idle" => call'[c].s \in Sessions
      /\ \A p \in pen' : p.s \in Sessions
  BY DEF IInv, RunsHold, CallsHold, TypeOK, StoreOK
<1>2. OneRun'
  <2>1. ASSUME NEW r \in Runs, run'[r].pc # "free", Lone(run[r].of)'
        PROVE  Recorded(r)' /\ \A q \in Runs : Hosts(q, run[r].of)' => q = r
    <3>1. PICK s \in Sessions : s = run'[r].of
      BY <1>1, <2>1
    <3>2. Consistent(s)'
      BY <2>1, <3>1 DEF Lone
    <3> QED
      BY <2>1, <3>1, <3>2 DEF Consistent, Hosts
  <2> QED
    BY <2>1 DEF OneRun
<1>3. OneStart'
  BY DEF OneStart, Consistent
<1>4. GivesUp'
  <2>1. ASSUME NEW c \in Callers, call'[c].s \in Sessions, Lone(call[c].s)'
        PROVE  /\ call'[c].at = "finish" =>
                    c = Main /\ mem'[call'[c].s].status = "Parked" /\ call'[c].s \notin todo'
               /\ call'[c].at = "publish" => c = Main /\ mem'[call'[c].s].status = "Cancelled"
    <3>1. PICK s \in Sessions : s = call'[c].s
      BY <2>1
    <3>2. Consistent(s)'
      BY <2>1, <3>1 DEF Lone
    <3> QED
      BY <3>1, <3>2 DEF Consistent
  <2>2. \A s \in Sessions : Lone(s)' =>
          /\ mem'[s].status = "Parked" =>
                phase' = "boot" /\ (s \in todo' \/ (call'[Main].at = "finish" /\ call'[Main].s = s))
          /\ phase' = "boot" /\ s \in todo' => mem'[s].status = "Parked"
    BY DEF Consistent
  <2> QED
    BY <2>1, <2>2 DEF GivesUp
<1>5. LinesAgree'
  <2>1. ASSUME NEW p \in pen', Lone(p.s)'
        PROVE  /\ p.line.kind = "finish" => p.line.to = mem'[p.s].status /\ p.line.to \in Ended
               /\ p.line.kind = "status" =>
                    /\ p.line.to = "Running"
                    /\ \E r \in Runs : p.by = Host(r) /\ run'[r].of = p.s
                                       /\ run'[r].pc = "running"
    <3>1. Consistent(p.s)'
      BY <1>1, <2>1
    <3> QED
      BY <2>1, <3>1 DEF Consistent
  <2> QED
    BY <2>1 DEF LinesAgree
<1>6. LogAgrees' /\ ToldAgrees'
  BY DEF LogAgrees, ToldAgrees, Consistent
<1>7. LoggedFirst'
  <2>1. ASSUME NEW r \in Runs, run'[r].pc # "free", Lone(run[r].of)'
        PROVE  /\ run'[r].pc = "recorded" => Logged(run[r].of, run[r].out, Host(r))'
               /\ run'[r].pc \in {"closing", "unhandled"} => disk'[run'[r].of].status = run'[r].out
    <3>1. PICK s \in Sessions : s = run'[r].of
      BY <1>1, <2>1
    <3>2. Consistent(s)'
      BY <2>1, <3>1 DEF Lone
    <3> QED
      BY <2>1, <3>1, <3>2 DEF Consistent, Hosts, Logged
  <2>2. ASSUME NEW c \in Callers, call'[c].at = "publish", Lone(call[c].s)'
        PROVE  Logged(call[c].s, "Cancelled", Caller(c))'
    <3>1. PICK s \in Sessions : s = call'[c].s
      BY <1>1, <2>2
    <3>2. Consistent(s)'
      BY <2>2, <3>1 DEF Lone
    <3> QED
      BY <2>2, <3>1, <3>2 DEF Consistent, Logged
  <2> QED
    BY <2>1, <2>2 DEF LoggedFirst
<1> QED
  BY <1>2, <1>3, <1>4, <1>5, <1>6, <1>7 DEF RInv

(* A step that does not touch a session leaves it consistent.               *)
LEMMA UntouchedKeeps ==
  ASSUME RInv, NEW t \in Sessions, Untouched(t), Lone(t)'
  PROVE  Consistent(t)'
<1>1. /\ mem'[t] = mem[t] /\ disk'[t] = disk[t] /\ told'[t] = told[t] /\ Lone(t)
      /\ Consistent(t)
  <2>1. Lone(t)
    BY DEF Lone, Untouched
  <2> QED
    BY <2>1, Apart DEF Untouched
<1>2. \A r \in Runs : Hosts(r, t)' =>
          /\ Hosts(r, t) /\ run'[r].of = run[r].of
          /\ run'[r].pc = run[r].pc /\ run'[r].out = run[r].out
  BY DEF Untouched, Hosts
<1>3. \A a, out : Logged(t, out, a) => Logged(t, out, a)'
  BY <1>1 DEF Logged, Untouched
<1>4. ASSUME NEW r \in Runs, Hosts(r, t)'
      PROVE  /\ Recorded(r)' /\ \A q \in Runs : Hosts(q, t)' => q = r
             /\ run'[r].pc = "recorded" => Logged(t, run[r].out, Host(r))'
             /\ run'[r].pc \in {"closing", "unhandled"} => disk'[t].status = run'[r].out
  <2>1. /\ Hosts(r, t) /\ run[r].of = t /\ run'[r].of = run[r].of
        /\ run'[r].pc = run[r].pc /\ run'[r].out = run[r].out
    BY <1>2, <1>4 DEF Hosts
  <2>2. /\ Recorded(r) /\ \A q \in Runs : Hosts(q, t) => q = r
        /\ run[r].pc = "recorded" => Logged(t, run[r].out, Host(r))
        /\ run[r].pc \in {"closing", "unhandled"} => disk[t].status = run[r].out
    BY <1>1, <2>1 DEF Consistent
  <2>3. Recorded(r)'
    BY <1>1, <2>1, <2>2 DEF Recorded
  <2>4. run'[r].pc = "recorded" => Logged(t, run[r].out, Host(r))'
    <3>1. PICK out : out = run[r].out
      OBVIOUS
    <3>2. run'[r].pc = "recorded" => Logged(t, out, Host(r))'
      BY <1>3, <2>1, <2>2, <3>1
    <3> QED
      BY <2>1, <3>1, <3>2 DEF Logged
  <2> QED
    BY <1>1, <1>2, <2>1, <2>2, <2>3, <2>4
<1>5. \A c \in Callers : Starting(c, t)' => Starting(c, t)
  BY DEF Starting, Untouched
<1>6. \A c \in Callers : Starting(c, t)' =>
          /\ mem'[t].status = "Pending"
          /\ \A r \in Runs : ~ Hosts(r, t)'
          /\ \A d \in Callers : Starting(d, t)' => d = c
  BY <1>1, <1>2, <1>5 DEF Consistent
<1>7. ASSUME NEW c \in Callers, call'[c].s = t
      PROVE  /\ call'[c].at = "finish" => c = Main /\ mem'[t].status = "Parked" /\ t \notin todo'
             /\ call'[c].at = "publish" =>
                   c = Main /\ mem'[t].status = "Cancelled" /\ Logged(t, "Cancelled", Caller(c))'
  BY <1>1, <1>3, <1>7 DEF Consistent, Untouched
<1>8. /\ mem'[t].status = "Parked" =>
            phase' = "boot" /\ (t \in todo' \/ (call'[Main].at = "finish" /\ call'[Main].s = t))
      /\ phase' = "boot" /\ t \in todo' => mem'[t].status = "Parked"
  BY <1>1 DEF Consistent, Untouched
<1>9. ASSUME NEW p \in pen', p.s = t
      PROVE  /\ p.line.kind = "finish" => p.line.to = mem'[t].status /\ p.line.to \in Ended
             /\ p.line.kind = "status" =>
                  /\ p.line.to = "Running"
                  /\ \E r \in Runs : p.by = Host(r) /\ run'[r].of = t /\ run'[r].pc = "running"
  <2>1. p \in pen
    BY <1>9 DEF Untouched
  <2>2. CASE p.line.kind = "status"
    <3>1. PICK r \in Runs : p.by = Host(r) /\ run[r].of = t /\ run[r].pc = "running"
      BY <1>1, <1>9, <2>1, <2>2 DEF Consistent
    <3>2. run'[r].of = t /\ run'[r].pc = "running"
      BY <3>1 DEF Untouched, Hosts
    <3>3. p.line.to = "Running"
      BY <1>1, <1>9, <2>1, <2>2 DEF Consistent
    <3> QED
      BY <2>2, <3>1, <3>2, <3>3
  <2>3. CASE p.line.kind # "status"
    BY <1>1, <1>9, <2>1, <2>3 DEF Consistent
  <2> QED
    BY <2>2, <2>3
<1>10. /\ disk'[t].status # "Parked"
       /\ disk'[t].status \in Ended => mem'[t].status = disk'[t].status
       /\ told'[t] # "Absent" =>
             told'[t] \in Ended /\ mem'[t].status = told'[t] /\ disk'[t].status = told'[t]
  BY <1>1 DEF Consistent
<1> QED
  BY <1>4, <1>6, <1>7, <1>8, <1>9, <1>10 DEF Consistent

(* So a step about one session has only that one to keep consistent.        *)
LEMMA OneSession ==
  ASSUME RInv, IInv', NEW s \in Sessions, \A t \in Sessions \ {s} : Untouched(t),
         SameSessions', QueueEnds', Lone(s)' => Consistent(s)'
  PROVE  RInv'
<1>1. ASSUME NEW t \in Sessions, Lone(t)' PROVE Consistent(t)'
  BY <1>1, UntouchedKeeps
<1> QED
  BY <1>1, Together

-----------------------------------------------------------------------------
(* The steps that record something, one by one.                             *)

(* A run is of a session that was started.                                  *)
LEMMA HostedKnown ==
  ASSUME RInv, IInv, NEW r \in Runs, run[r].pc # "free"
  PROVE  run[r].of \in Sessions /\ Known(mem[run[r].of])
<1>1. run[r].of \in Sessions
  BY Subjects
<1>2. CASE ~ Lone(run[r].of)
  BY <1>1, <1>2 DEF Lone, IInv, AskKnown
<1>3. CASE Lone(run[r].of)
  <2>1. Recorded(r)
    BY <1>3 DEF RInv, OneRun
  <2>2. run[r].pc \in {"made", "spawned", "running", "asked", "decided", "recorded", "closing",
                       "unhandled"}
    BY DEF IInv, TypeOK, RunOK, Run
  <2>3. mem[run[r].of].status \in {"Pending", "Running"} \cup Ended
    BY <2>1, <2>2 DEF Recorded
  <2> QED
    BY <1>1, <2>3 DEF Known, Ended
<1> QED
  BY <1>1, <1>2, <1>3

(* A change of status leaves memory and log with the same sessions.         *)
LEMMA WriteSame ==
  ASSUME RInv, IInv, NEW a, NEW s \in Sessions, NEW line \in Line, Write(a, s, line), Known(mem[s])
  PROVE  SameSessions'
<1> SUFFICES ASSUME NEW t \in Sessions
             PROVE  mem'[t].ask = disk'[t].ask /\ (Known(mem'[t]) <=> Known(disk'[t]))
  BY DEF SameSessions, Known
<1>1. /\ mem'[t].ask = mem[t].ask /\ disk'[t] = disk[t]
      /\ Known(mem[t]) => Known(mem'[t]) /\ (t # s => mem'[t] = mem[t])
  BY WriteKeeps DEF IInv, TypeOK
<1>2. mem[t].ask = disk[t].ask /\ (Known(mem[t]) <=> Known(disk[t]))
  BY DEF RInv, SameSessions
<1>3. t # s => mem'[t] = mem[t]
  BY WriteKeeps DEF IInv, TypeOK
<1> QED
  BY <1>1, <1>2, <1>3

(* The host records that it runs, and how the run ended.                    *)
LEMMA HostWrites ==
  ASSUME RInv, IInv, IInv', NEW r \in Runs, HostRun(r) \/ HostRecord(r)
  PROVE  RInv'
<1>1. PICK s \in Sessions : s = run[r].of
  BY Subjects DEF HostRun, HostRecord, HostAt
<1>2. PICK line : line = IF HostRun(r) THEN StatusLine("Running")
                         ELSE IF run[r].out = "Parked" THEN StatusLine("Parked")
                         ELSE FinishLine(run[r].out)
  OBVIOUS
<1>3. PICK pc : pc = IF HostRun(r) THEN "running" ELSE "recorded"
  OBVIOUS
<1>4. /\ Write(Host(r), s, line) /\ UNCHANGED <<call, main>>
      /\ run' = [run EXCEPT ![r] = [run[r] EXCEPT !.pc = pc]]
      /\ run[r].pc = IF HostRun(r) THEN "spawned" ELSE "decided"
  BY <1>1, <1>2, <1>3 DEF HostRun, HostRecord, HostAt, Step
<1>5. run \in [Runs -> Run] /\ run[r] \in Run
  BY DEF IInv, TypeOK, RunOK
<1>6. /\ run'[r].pc = pc /\ run'[r].of = s /\ run'[r].out = run[r].out
      /\ run'[r].queue = run[r].queue
      /\ \A q \in Runs \ {r} : run'[q] = run[q]
  BY <1>1, <1>4, <1>5 DEF Run
<1>7. run[r].pc # "free" /\ Known(mem[s])
  BY <1>1, <1>4, HostedKnown
<1>8. line \in Line /\ line.kind \in {"status", "finish"}
  BY <1>2, <1>4 DEF IInv, OutDecided, StatusLine, FinishLine, Line, Statuses
<1>9. /\ \A t \in Sessions \ {s} : mem'[t] = mem[t]
      /\ mem'[s].status = line.to /\ mem'[s].ask = mem[s].ask
      /\ disk' = disk /\ told' = told
      /\ pen' = pen \cup {[by |-> Host(r), s |-> s, line |-> line]}
  BY <1>4, <1>8, WriteKeeps, ZenonT(60) DEF IInv, TypeOK, Write
<1>10. SameSessions'
  BY <1>4, <1>7, <1>8, WriteSame
<1>11. QueueEnds'
  <2>1. \A i \in 1 .. Len(run'[r].queue) : run'[r].queue[i] # "finished"
    BY <1>4, <1>6 DEF RInv, QueueEnds
  <2> QED
    BY <1>6, <2>1, QueuesKept DEF RInv
<1>12. \A t \in Sessions \ {s} : Untouched(t)
  BY <1>1, <1>4, <1>6, <1>9 DEF Untouched, Hosts, main
<1>13. ASSUME Lone(s)' PROVE Consistent(s)'
  <2>1. Lone(s) /\ Consistent(s) /\ Hosts(r, s)
    BY <1>1, <1>7, <1>9, <1>13, Apart DEF Lone, Hosts
  <2>2. /\ Recorded(r) /\ \A q \in Runs : Hosts(q, s) => q = r
        /\ mem[s].status = IF HostRun(r) THEN "Pending" ELSE "Running"
    BY <1>1, <1>4, <2>1 DEF Consistent, Recorded
  <2>3. \A q \in Runs : Hosts(q, s)' => q = r
    BY <1>6, <2>2 DEF Hosts
  <2>4. /\ \A c \in Callers : ~ Starting(c, s)'
        /\ \A c \in Callers : call'[c].s = s => call'[c].at \notin {"finish", "publish"}
    BY <1>4, <2>1, <2>2 DEF Consistent, Starting
  <2>5. /\ disk'[s].status # "Parked" /\ disk'[s].status \notin Ended /\ told'[s] = "Absent"
        /\ ~ (phase' = "boot" /\ s \in todo')
    BY <1>4, <1>9, <2>1, <2>2 DEF Consistent, main, Ended
  <2>6. \A p \in pen : p.s = s => p.line.kind \notin {"status", "finish"}
    BY <1>4, <2>1, <2>2 DEF Consistent, Hosts, Ended
  <2>7. \A p \in pen' : p.s = s /\ p.line.kind \in {"status", "finish"} =>
            p.by = Host(r) /\ p.line = line
    BY <1>9, <2>6
  <2>8. CASE HostRun(r)
    <3>1. line.kind = "status" /\ line.to = "Running" /\ pc = "running"
      BY <1>2, <1>3, <2>8 DEF StatusLine
    <3>2. Recorded(r)'
      BY <1>6, <1>9, <3>1 DEF Recorded
    <3> QED
      BY <1>6, <1>9, <2>3, <2>4, <2>5, <2>7, <3>1, <3>2 DEF Consistent
  <2>9. CASE ~ HostRun(r)
    <3>1. line = FinishLine(run[r].out) /\ run[r].out \in Ended /\ pc = "recorded"
      BY <1>1, <1>2, <1>3, <1>4, <2>2, <2>9 DEF Recorded, Ended
    <3>2. line.kind = "finish" /\ line.to = run[r].out
      BY <3>1 DEF FinishLine
    <3>3. Recorded(r)'
      BY <1>6, <1>9, <3>1, <3>2 DEF Recorded
    <3>4. Logged(s, run[r].out, Host(r))'
      <4>1. PICK p \in pen' : p = [by |-> Host(r), s |-> s, line |-> line]
        BY <1>9
      <4>2. p.by = Host(r) /\ p.s = s /\ p.line = FinishLine(run'[r].out)
        BY <1>6, <3>1, <4>1
      <4> QED
        BY <4>2 DEF Logged
    <3>5. mem'[s].status \in Ended /\ mem'[s].status # "Parked"
      BY <1>9, <3>1, <3>2 DEF Ended
    <3> QED
      BY <1>6, <1>9, <2>3, <2>4, <2>5, <2>7, <3>1, <3>2, <3>3, <3>4, <3>5 DEF Consistent
  <2> QED
    BY <2>8, <2>9
<1> QED
  BY <1>10, <1>11, <1>12, <1>13, OneSession

(* What an event of the end of a background run finds recorded.             *)
LEMMA PumpFinds ==
  ASSUME RInv, IInv, NEW r \in Runs, PumpPush(r), Head(run[r].queue) # "asked"
  PROVE  /\ run[r].of \in Sessions /\ run[r].pc = "closing"
         /\ Publish(run[r].of, run[r].out, call) /\ UNCHANGED main
         /\ Lone(run[r].of) => /\ run[r].out \in Ended
                               /\ mem[run[r].of].status = run[r].out
                               /\ disk[run[r].of].status = run[r].out
<1>1. run[r].queue # <<>> /\ run[r].queue \in Seq({"asked", "finished"})
  BY DEF PumpPush, IInv, TypeOK, RunOK, Run
<1>2. /\ Head(run[r].queue) = "finished" /\ 1 \in 1 .. Len(run[r].queue)
      /\ Head(run[r].queue) = run[r].queue[1]
  BY <1>1, QueueTyped
<1>3. run[r].pc = "closing"
  BY <1>2 DEF RInv, QueueEnds
<1>4. run[r].of \in Sessions
  BY <1>3, Subjects
<1>5. Publish(run[r].of, run[r].out, call) /\ UNCHANGED main
  BY DEF PumpPush
<1>6. Lone(run[r].of) => /\ run[r].out \in Ended
                         /\ mem[run[r].of].status = run[r].out
                         /\ disk[run[r].of].status = run[r].out
  BY <1>3 DEF RInv, OneRun, Recorded, LoggedFirst
<1> QED
  BY <1>3, <1>4, <1>5, <1>6

(* The end of a run reaches the bus.                                        *)
LEMMA PumpTells ==
  ASSUME RInv, IInv, IInv', NEW r \in Runs, PumpPush(r), Head(run[r].queue) # "asked"
  PROVE  RInv'
<1>1. PICK s \in Sessions : s = run[r].of
  BY PumpFinds
<1>2. /\ run[r].pc = "closing" /\ told' = [told EXCEPT ![s] = run[r].out]
      /\ UNCHANGED <<mem, disk, pen, main>>
  BY <1>1, PumpFinds DEF Publish
<1>3. \A q \in Runs : run'[q].pc = run[q].pc /\ run'[q].of = run[q].of /\ run'[q].out = run[q].out
  BY PumpKeeps DEF IInv, TypeOK
<1>4. \A c \in Callers : /\ call'[c].s = call[c].s
                         /\ call'[c] = call[c]
                            \/ (call[c].at = "waiting" /\ call'[c].at = "woken")
  BY PumpKeeps DEF IInv, TypeOK
<1>5. told \in [Sessions -> Statuses \cup {"Absent"}] /\ Main \in Callers
  BY Subjects DEF IInv, TypeOK, StoreOK
<1>6. told'[s] = run[r].out /\ \A t \in Sessions \ {s} : told'[t] = told[t]
  BY <1>2, <1>5
<1>7. SameSessions'
  BY <1>2 DEF RInv, SameSessions
<1>8. \A t \in Sessions \ {s} : Untouched(t)
  BY <1>2, <1>3, <1>4, <1>5, <1>6 DEF Untouched, Hosts, main
<1>9. ASSUME Lone(s)' PROVE Consistent(s)'
  <2>1. Lone(s) /\ Consistent(s)
    BY <1>2, <1>9, Apart DEF Lone
  <2>2. run[r].out \in Ended /\ mem[s].status = run[r].out /\ disk[s].status = run[r].out
    BY <1>1, <2>1, PumpFinds
  <2>3. \A q \in Runs : Hosts(q, s)' <=> Hosts(q, s)
    BY <1>3 DEF Hosts
  <2>4. \A q \in Runs : Hosts(q, s) => Recorded(q)'
    BY <1>2, <1>3, <2>1 DEF Consistent, Recorded
  <2>5. mem'[s].status \in Ended /\ mem'[s].status \notin {"Parked", "Pending"}
    BY <1>2, <2>2 DEF Ended
  <2>6. \A q \in Runs : Hosts(q, s)' =>
          /\ Recorded(q)' /\ \A o \in Runs : Hosts(o, s)' => o = q
          /\ run'[q].pc # "recorded"
          /\ run'[q].pc \in {"closing", "unhandled"} => disk'[s].status = run'[q].out
    BY <1>1, <1>2, <1>3, <2>1, <2>3, <2>4 DEF Consistent, Hosts
  <2>7. \A c \in Callers : ~ Starting(c, s)'
    BY <1>2, <1>4, <2>1, <2>5 DEF Consistent, Starting
  <2>8. \A c \in Callers : call'[c].s = s =>
          /\ call'[c].at # "finish"
          /\ call'[c].at = "publish" =>
                c = Main /\ mem'[s].status = "Cancelled" /\ call'[c] = call[c]
    BY <1>2, <1>4, <2>1, <2>5 DEF Consistent
  <2>9. \A c \in Callers : call'[c].s = s /\ call'[c].at = "publish" =>
          Logged(s, "Cancelled", Caller(c))'
    BY <1>2, <1>4, <2>1, <2>8 DEF Consistent, Logged
  <2>10. \A p \in pen' : p.s = s /\ p.line.kind = "finish" =>
          p.line.to = mem'[s].status /\ p.line.to \in Ended
    BY <1>2, <2>1 DEF Consistent
  <2>11. \A p \in pen' : p.s = s => p.line.kind # "status"
    BY <1>1, <1>2, <2>1 DEF Consistent, Hosts
  <2> QED
    BY <1>2, <1>6, <2>1, <2>2, <2>5, <2>6, <2>7, <2>8, <2>9, <2>10, <2>11 DEF Consistent, main
<1> QED
  BY <1>7, <1>8, <1>9, PumpQueue, OneSession

(* While a background session is parked nothing of it is hosted or started. *)
LEMMA ParkedQuiet ==
  ASSUME RInv, IInv, NEW s \in Sessions, Lone(s), mem[s].status = "Parked"
  PROVE  /\ phase = "boot" /\ disk[s].status \notin Ended /\ told[s] = "Absent"
         /\ \A r \in Runs : run[r].pc = "free"
         /\ \A c \in Callers : call[c].at \notin {"handle", "waiting"}
         /\ \A c \in Callers : call[c].at \in {"finish", "publish"} => c = Main
         /\ \A p \in pen : p.s = s => p.line.kind \notin {"finish", "status"}
<1>1. Consistent(s)
  BY Apart
<1>2. phase = "boot" /\ disk[s].status \notin Ended /\ told[s] = "Absent"
  BY <1>1 DEF Consistent, Ended
<1>3. \A r \in Runs : run[r].pc = "free"
  BY <1>2 DEF IInv, BootQuiet, FreeRun
<1>4. /\ \A c \in Callers : call[c].at \notin {"handle", "waiting"}
      /\ \A c \in Callers : call[c].at \in {"finish", "publish"} => c = Main
  BY <1>2 DEF IInv, BootQuiet, IdleCall, Callers
<1>5. \A p \in pen : p.s = s => p.line.kind \notin {"finish", "status"}
  BY <1>1, <1>3 DEF Consistent, Ended
<1> QED
  BY <1>2, <1>3, <1>4, <1>5

(* What a parked background session is given up with.                       *)
LEMMA FinishWrites ==
  ASSUME RInv, IInv, IInv', NEW c \in Callers, FinishParked(c)
  PROVE  RInv'
<1>1. PICK s \in Sessions : s = call[c].s
  BY Subjects DEF FinishParked, At
<1>2. /\ call[c].at = "finish" /\ Write(Caller(c), s, FinishLine("Cancelled"))
      /\ call' = [call EXCEPT ![c] = [call[c] EXCEPT !.at = "publish"]] /\ UNCHANGED <<run, main>>
  BY <1>1 DEF FinishParked, At, Go
<1>3. call \in [Callers -> Call] /\ call[c] \in Call
  BY DEF IInv, TypeOK, CallOK
<1>4. /\ call'[c].at = "publish" /\ call'[c].s = s
      /\ \A d \in Callers \ {c} : call'[d] = call[d]
  BY <1>1, <1>2, <1>3 DEF Call
<1>5. /\ FinishLine("Cancelled") \in Line /\ FinishLine("Cancelled").kind = "finish"
      /\ FinishLine("Cancelled").to = "Cancelled"
  BY DEF FinishLine, Line, Statuses, Ended
<1>6. /\ \A t \in Sessions \ {s} : mem'[t] = mem[t]
      /\ mem'[s].status = "Cancelled" /\ mem'[s].ask = mem[s].ask
      /\ disk' = disk /\ told' = told
      /\ pen' = pen \cup {[by |-> Caller(c), s |-> s, line |-> FinishLine("Cancelled")]}
  BY <1>2, <1>5, WriteKeeps, ZenonT(60) DEF IInv, TypeOK, Write
<1>7. Known(mem[s])
  <2>1. CASE Lone(s)
    BY <1>1, <1>2, <2>1 DEF RInv, GivesUp, Known
  <2> QED
    BY <2>1 DEF Lone, IInv, AskKnown
<1>8. SameSessions'
  BY <1>2, <1>5, <1>7, WriteSame
<1>9. QueueEnds'
  BY <1>2 DEF RInv, QueueEnds
<1>10. \A t \in Sessions \ {s} : Untouched(t)
  <2>1. ASSUME NEW t \in Sessions \ {s}, call[Main].at = "finish", call[Main].s = t
        PROVE  call'[Main] = call[Main]
    BY <1>1, <1>4, <2>1, Subjects
  <2>2. \A d \in Callers, t \in Sessions \ {s} : call'[d].s = t => call'[d] = call[d]
    BY <1>4
  <2>3. \A t \in Sessions \ {s} : \A p \in pen \cup pen' : p.s = t => p \in pen /\ p \in pen'
    BY <1>6
  <2> QED
    BY <1>2, <1>6, <2>1, <2>2, <2>3 DEF Untouched, Hosts, main
<1>11. ASSUME Lone(s)' PROVE Consistent(s)'
  <2>1. Lone(s) /\ Consistent(s)
    BY <1>6, <1>11, Apart DEF Lone
  <2>2. c = Main /\ mem[s].status = "Parked" /\ s \notin todo
    BY <1>1, <1>2, <2>1 DEF Consistent
  <2>3. /\ disk'[s].status \notin Ended /\ disk'[s].status # "Parked" /\ told'[s] = "Absent"
        /\ \A r \in Runs : ~ Hosts(r, s)'
    BY <1>2, <1>6, <2>1, <2>2, ParkedQuiet DEF Consistent, Hosts
  <2>4. /\ \A d \in Callers : ~ Starting(d, s)'
        /\ \A d \in Callers : call'[d].at # "finish"
        /\ \A d \in Callers : call'[d].at = "publish" => d = Main
    BY <1>4, <2>1, <2>2, ParkedQuiet DEF Starting
  <2>5. Logged(s, "Cancelled", Caller(Main))'
    <3>1. PICK p \in pen' : p = [by |-> Caller(c), s |-> s, line |-> FinishLine("Cancelled")]
      BY <1>6
    <3>2. p.by = Caller(Main) /\ p.s = s /\ p.line = FinishLine("Cancelled")
      BY <2>2, <3>1
    <3> QED
      BY <3>2 DEF Logged
  <2>6. \A p \in pen' : p.s = s /\ p.line.kind \in {"finish", "status"} =>
            p.line = FinishLine("Cancelled")
    BY <1>6, <2>1, <2>2, ParkedQuiet
  <2>7. "Cancelled" \in Ended
    BY DEF Ended
  <2> QED
    BY <1>2, <1>5, <1>6, <2>2, <2>3, <2>4, <2>5, <2>6, <2>7 DEF Consistent, main
<1> QED
  BY <1>8, <1>9, <1>10, <1>11, OneSession

(* What the announcement of a given-up background session finds recorded.   *)
LEMMA CancelFinds ==
  ASSUME RInv, IInv, NEW c \in Callers, PublishCancelled(c), Lone(call[c].s)
  PROVE  /\ c = Main /\ mem[call[c].s].status = "Cancelled"
         /\ disk[call[c].s].status = "Cancelled"
<1>1. call[c].at = "publish" /\ ~ Busy(Caller(c)) /\ call[c].s \in Sessions
  BY Subjects DEF PublishCancelled, At
<1>2. c = Main /\ mem[call[c].s].status = "Cancelled" /\ Logged(call[c].s, "Cancelled", Caller(c))
  BY <1>1 DEF RInv, GivesUp, LoggedFirst
<1> QED
  BY <1>1, <1>2 DEF Logged, Busy

(* The end of a session that was given up reaches the bus.                  *)
LEMMA CancelTells ==
  ASSUME RInv, IInv, IInv', NEW c \in Callers, PublishCancelled(c)
  PROVE  RInv'
<1>1. PICK s \in Sessions : s = call[c].s
  BY Subjects DEF PublishCancelled, At
<1>2. PICK calls : calls = [call EXCEPT ![c] = IdleCall]
  OBVIOUS
<1>3. /\ call[c].at = "publish" /\ told' = [told EXCEPT ![s] = "Cancelled"]
      /\ call' = Woken(s, calls) /\ UNCHANGED <<mem, disk, pen, run, main>>
  BY <1>1, <1>2 DEF PublishCancelled, Publish, At
<1>4. /\ call \in [Callers -> Call] /\ IdleCall \in Call /\ Main \in Callers
      /\ told \in [Sessions -> Statuses \cup {"Absent"}]
  BY Subjects DEF IInv, TypeOK, CallOK, Call, IdleCall, StoreOK
<1>5. /\ calls \in [Callers -> Call] /\ calls[c] = IdleCall
      /\ \A d \in Callers \ {c} : calls[d] = call[d]
  BY <1>2, <1>4
<1>6. \A d \in Callers :
          /\ call'[d].s = calls[d].s
          /\ call'[d] = calls[d] \/ (calls[d].at = "waiting" /\ call'[d].at = "woken")
  BY <1>3, <1>5, WokenKeeps
<1>7. /\ call'[c].at = "idle"
      /\ \A d \in Callers \ {c} :
            /\ call'[d].s = call[d].s
            /\ call'[d] = call[d] \/ (call[d].at = "waiting" /\ call'[d].at = "woken")
  BY <1>5, <1>6 DEF IdleCall
<1>8. told'[s] = "Cancelled" /\ \A t \in Sessions \ {s} : told'[t] = told[t]
  BY <1>3, <1>4
<1>9. SameSessions' /\ QueueEnds'
  BY <1>3 DEF RInv, SameSessions, QueueEnds
<1>10. \A t \in Sessions \ {s} : Untouched(t)
  <2>1. \A d \in Callers : call'[d].at \in {"handle", "finish", "publish"} => call'[d] = call[d]
    BY <1>7
  <2>2. call[Main].at = "finish" => call'[Main] = call[Main]
    BY <1>3, <1>4, <1>7
  <2> QED
    BY <1>3, <1>8, <2>1, <2>2 DEF Untouched, Hosts, main
<1>11. ASSUME Lone(s)' PROVE Consistent(s)'
  <2>1. Lone(s) /\ Consistent(s)
    BY <1>3, <1>11, Apart DEF Lone
  <2>2. c = Main /\ mem[s].status = "Cancelled" /\ disk[s].status = "Cancelled"
    BY <1>1, <2>1, CancelFinds
  <2>3. \A r \in Runs : Hosts(r, s)' =>
          /\ Recorded(r)' /\ \A q \in Runs : Hosts(q, s)' => q = r
          /\ run'[r].pc = "recorded" => Logged(s, run[r].out, Host(r))'
          /\ run'[r].pc \in {"closing", "unhandled"} => disk'[s].status = run'[r].out
    BY <1>3, <2>1 DEF Consistent, Hosts, Recorded, Logged
  <2>4. /\ \A d \in Callers : ~ Starting(d, s)'
        /\ \A d \in Callers : call'[d].s = s => call'[d].at \notin {"finish", "publish"}
    BY <1>7, <2>1, <2>2 DEF Consistent, Starting
  <2>5. "Cancelled" \in Ended /\ ~ (phase = "boot" /\ s \in todo)
    BY <2>1, <2>2 DEF Consistent, Ended
  <2>6. \A p \in pen' : p.s = s =>
          /\ p.line.kind = "finish" => p.line.to = mem'[s].status /\ p.line.to \in Ended
          /\ p.line.kind = "status" =>
                /\ p.line.to = "Running"
                /\ \E r \in Runs : p.by = Host(r) /\ run'[r].of = s /\ run'[r].pc = "running"
    BY <1>3, <2>1 DEF Consistent
  <2> QED
    BY <1>3, <1>8, <2>2, <2>3, <2>4, <2>5, <2>6 DEF Consistent, main
<1> QED
  BY <1>9, <1>10, <1>11, OneSession

(* The start takes up a parked session, to keep it or to give it up.        *)
LEMMA ReconcileKeeps ==
  ASSUME RInv, IInv, IInv', NEW s \in Sessions, Reconcile(s)
  PROVE  RInv'
<1>1. /\ phase = "boot" /\ call[Main].at = "idle" /\ s \in todo /\ todo' = todo \ {s}
      /\ UNCHANGED <<mem, disk, pen, told, run, phase>>
      /\ \/ mem[s].ask /\ call' = call
         \/ call' = [call EXCEPT ![Main] = [at |-> "finish", s |-> s, r |-> NoRun]]
  BY DEF Reconcile, MainIdle, At, Visit, store, Begin, Resumable
<1>2. call \in [Callers -> Call] /\ Main \in Callers
  BY Subjects DEF IInv, TypeOK, CallOK
<1>3. \A d \in Callers \ {Main} : call'[d] = call[d]
  BY <1>1, <1>2
<1>4. call'[Main] = call[Main] \/ (call'[Main].at = "finish" /\ call'[Main].s = s)
  BY <1>1, <1>2
<1>5. SameSessions' /\ QueueEnds'
  BY <1>1 DEF RInv, SameSessions, QueueEnds
<1>6. \A t \in Sessions \ {s} : Untouched(t)
  BY <1>1, <1>3, <1>4 DEF Untouched, Hosts
<1>7. ASSUME Lone(s)' PROVE Consistent(s)'
  <2>1. Lone(s) /\ Consistent(s) /\ mem[s].status = "Parked"
    BY <1>1, <1>7, Apart DEF Lone, Consistent
  <2>2. call'[Main].at = "finish" /\ call'[Main].s = s
    BY <1>1, <1>2, <2>1 DEF Lone
  <2>3. /\ \A r \in Runs : ~ Hosts(r, s)'
        /\ \A c \in Callers : ~ Starting(c, s)'
        /\ \A c \in Callers : call'[c].at # "publish" /\ (call'[c].at = "finish" => c = Main)
    BY <1>1, <1>3, <2>1, <2>2, ParkedQuiet DEF Hosts, Starting
  <2>4. \A p \in pen' : p.s = s => p.line.kind \notin {"finish", "status"}
    BY <1>1, <2>1, ParkedQuiet
  <2> QED
    BY <1>1, <2>1, <2>2, <2>3, <2>4 DEF Consistent
<1> QED
  BY <1>5, <1>6, <1>7, OneSession

(* A session is recorded before anything refers to it.                      *)
LEMMA StartKeeps ==
  ASSUME RInv, IInv, IInv', NEW c \in Callers, NEW s \in Sessions, NEW ask \in Grants,
         StartSession(c, s, ask)
  PROVE  RInv'
<1>1. /\ ~ Known(mem[s]) /\ phase # "boot" /\ c # Main
      /\ mem' = [mem EXCEPT ![s] = NewHeader(ask)] /\ disk' = [disk EXCEPT ![s] = NewHeader(ask)]
      /\ call' = [call EXCEPT ![c] = [at |-> "handle", s |-> s, r |-> NoRun]]
      /\ UNCHANGED <<pen, told, run, main>>
  BY DEF StartSession, Ready, Begin
<1>2. /\ mem \in [Sessions -> Header] /\ disk \in [Sessions -> Header]
      /\ call \in [Callers -> Call] /\ Main \in Callers
  BY Subjects DEF IInv, TypeOK, StoreOK, CallOK
<1>3. /\ mem'[s] = NewHeader(ask) /\ disk'[s] = NewHeader(ask)
      /\ \A t \in Sessions \ {s} : mem'[t] = mem[t] /\ disk'[t] = disk[t]
      /\ call'[c].at = "handle" /\ call'[c].s = s
      /\ \A d \in Callers \ {c} : call'[d] = call[d]
  BY <1>1, <1>2
<1>4. NewHeader(ask).status = "Pending" /\ NewHeader(ask).ask = ask
  BY DEF NewHeader
<1>5. SameSessions'
  BY <1>3 DEF RInv, SameSessions, Known
<1>6. QueueEnds'
  BY <1>1 DEF RInv, QueueEnds
<1>7. \A t \in Sessions \ {s} : Untouched(t)
  BY <1>1, <1>2, <1>3 DEF Untouched, Hosts, main
<1>8. ASSUME Lone(s)' PROVE Consistent(s)'
  <2>1. Lone(s) /\ Consistent(s) /\ mem[s].status = "Absent"
    BY <1>1, Apart DEF IInv, AskKnown, Lone, Known
  <2>2. \A r \in Runs : ~ Hosts(r, s)
    BY <1>1, HostedKnown DEF Hosts
  <2>3. /\ told[s] = "Absent"
        /\ \A d \in Callers : ~ Starting(d, s)
        /\ \A d \in Callers : call[d].s = s => call[d].at \notin {"finish", "publish"}
        /\ \A p \in pen : p.s = s => p.line.kind \notin {"finish", "status"}
    BY <2>1, <2>2 DEF Consistent, Ended, Hosts
  <2>4. \A d \in Callers : Starting(d, s)' => d = c
    BY <1>3, <2>3 DEF Starting
  <2>5. \A d \in Callers : call'[d].s = s => call'[d].at \notin {"finish", "publish"}
    BY <1>3, <2>3
  <2>6. \A r \in Runs : ~ Hosts(r, s)'
    BY <1>1, <2>2 DEF Hosts
  <2>7. /\ mem'[s].status = "Pending" /\ disk'[s].status \notin Ended \cup {"Parked"}
        /\ phase' # "boot" /\ told'[s] = "Absent" /\ pen' = pen
    BY <1>1, <1>3, <1>4, <2>3 DEF Ended, main
  <2> QED
    BY <2>3, <2>4, <2>5, <2>6, <2>7 DEF Consistent
<1> QED
  BY <1>5, <1>6, <1>7, <1>8, OneSession

(* The start makes its run.                                                 *)
LEMMA HandleKeeps ==
  ASSUME RInv, IInv, IInv', NEW c \in Callers, NEW r \in Runs, PutHandle(c, r)
  PROVE  RInv'
<1>1. PICK s \in Sessions : s = call[c].s
  BY Subjects DEF PutHandle, At
<1>2. /\ call[c].at = "handle" /\ run[r] = FreeRun
      /\ run' = [run EXCEPT ![r] = [FreeRun EXCEPT !.pc = "made", !.of = s]]
      /\ call' = [call EXCEPT ![c] = [call[c] EXCEPT !.at = "launch", !.r = r]]
      /\ UNCHANGED <<mem, disk, pen, told, main>>
  BY <1>1 DEF PutHandle, At, Unused, store
<1>3. /\ run \in [Runs -> Run] /\ call \in [Callers -> Call] /\ call[c] \in Call
      /\ Main \in Callers
  BY Subjects DEF IInv, TypeOK, RunOK, CallOK
<1>4. /\ run'[r].pc = "made" /\ run'[r].of = s /\ run'[r].queue = <<>>
      /\ \A q \in Runs \ {r} : run'[q] = run[q]
      /\ run[r].pc = "free"
  BY <1>2, <1>3 DEF FreeRun
<1>5. call'[c].at = "launch" /\ \A d \in Callers \ {c} : call'[d] = call[d]
  BY <1>2, <1>3 DEF Call
<1>6. SameSessions'
  BY <1>2 DEF RInv, SameSessions
<1>7. QueueEnds'
  <2>1. \A i \in 1 .. Len(run'[r].queue) : FALSE
    BY <1>4
  <2> QED
    BY <1>4, <2>1, QueuesKept DEF RInv
<1>8. \A t \in Sessions \ {s} : Untouched(t)
  BY <1>2, <1>4, <1>5 DEF Untouched, Hosts, main
<1>9. ASSUME Lone(s)' PROVE Consistent(s)'
  <2>1. Lone(s) /\ Consistent(s) /\ Starting(c, s)
    BY <1>1, <1>2, <1>9, Apart DEF Lone, Starting
  <2>2. /\ mem[s].status = "Pending" /\ \A q \in Runs : ~ Hosts(q, s)
        /\ \A d \in Callers : Starting(d, s) => d = c
    BY <2>1 DEF Consistent
  <2>3. \A q \in Runs : Hosts(q, s)' => q = r
    BY <1>4, <2>2 DEF Hosts
  <2>4. Recorded(r)'
    BY <1>2, <1>4, <2>2 DEF Recorded
  <2>5. \A d \in Callers : ~ Starting(d, s)'
    BY <1>5, <2>2 DEF Starting
  <2>6. \A d \in Callers : call'[d].s = s => call'[d].at \notin {"finish", "publish"}
    BY <1>5, <2>1, <2>2 DEF Consistent
  <2>7. \A p \in pen : p.s = s => p.line.kind \notin {"finish", "status"}
    BY <2>1, <2>2 DEF Consistent, Hosts, Ended
  <2> QED
    BY <1>2, <1>4, <2>1, <2>2, <2>3, <2>4, <2>5, <2>6, <2>7 DEF Consistent, main
<1> QED
  BY <1>6, <1>7, <1>8, <1>9, OneSession

(* A line reaches the log of its session.                                   *)
LEMMA AppendKeeps ==
  ASSUME RInv, IInv, IInv', NEW a \in Actors, AppendLine(a)
  PROVE  RInv'
<1>1. PICK p \in pen : /\ pen' = pen \ {p}
                       /\ disk' = [disk EXCEPT ![p.s] = Applied(disk[p.s], p.line)]
  BY DEF AppendLine
<1>2. UNCHANGED <<mem, told, run, call, main>>
  BY DEF AppendLine
<1>3. PICK s \in Sessions : s = p.s
  BY PenTyped
<1>4. p.line \in Line /\ disk \in [Sessions -> Header]
  BY PenTyped DEF IInv, TypeOK, StoreOK
<1>5. disk'[s] = Applied(disk[s], p.line) /\ \A t \in Sessions \ {s} : disk'[t] = disk[t]
  BY <1>1, <1>3, <1>4
<1>6. /\ disk'[s].ask = disk[s].ask
      /\ p.line.kind \in {"asked", "answered"} => disk'[s].status = disk[s].status
      /\ p.line.kind \in {"status", "finish"} => disk'[s].status = p.line.to
  <2>1. disk[s] \in Header
    BY <1>4
  <2>2. p.line.kind \in {"status", "finish"} => Applied(disk[s], p.line).status = p.line.to
    BY <1>4, <2>1 DEF Applied, Header, Line
  <2> QED
    BY <1>4, <1>5, <2>1, <2>2, AppliedKeeps
<1>7. p.line.kind \in {"asked", "answered", "status", "finish"}
  BY <1>4 DEF Line
<1>8. p.line.kind \in {"status", "finish"} => Known(mem[s]) /\ p.line.to # "Absent"
  <2>1. p.line.kind \in {"status", "finish"} => p.line.to # "Absent"
    BY <1>4 DEF Line, Statuses, Ended
  <2>2. p.line.kind \in {"status", "finish"} /\ Lone(s) => mem[s].status \in Ended \cup {"Running"}
    BY <1>3 DEF RInv, LinesAgree, OneRun, Recorded
  <2>3. p.line.kind \in {"status", "finish"} /\ Lone(s) => Known(mem[s])
    BY <2>2 DEF Known, Ended
  <2>4. ~ Lone(s) => Known(mem[s])
    BY DEF Lone, IInv, AskKnown
  <2> QED
    BY <2>1, <2>3, <2>4
<1>9. SameSessions'
  <2> SUFFICES ASSUME NEW t \in Sessions
               PROVE  mem'[t].ask = disk'[t].ask /\ (Known(mem'[t]) <=> Known(disk'[t]))
    BY DEF SameSessions, Known
  <2>1. mem[t].ask = disk[t].ask /\ (Known(mem[t]) <=> Known(disk[t])) /\ mem'[t] = mem[t]
    BY <1>2 DEF RInv, SameSessions
  <2> QED
    BY <1>5, <1>6, <1>7, <1>8, <2>1 DEF Known
<1>10. QueueEnds'
  BY <1>2 DEF RInv, QueueEnds
<1>11. \A t \in Sessions \ {s} : Untouched(t)
  BY <1>1, <1>2, <1>3, <1>5 DEF Untouched, Hosts, main
<1>12. ASSUME Lone(s)' PROVE Consistent(s)'
  <2>1. Lone(s) /\ Consistent(s)
    BY <1>2, <1>12, Apart DEF Lone
  <2>2. ASSUME p.line.kind = "status"
        PROVE  p.line.to = "Running" /\ mem[s].status = "Running"
    BY <1>3, <2>1, <2>2 DEF RInv, LinesAgree, OneRun, Recorded
  <2>3. ASSUME p.line.kind = "finish"
        PROVE  p.line.to = mem[s].status /\ mem[s].status \in Ended
    BY <1>3, <2>1, <2>3 DEF Consistent
  <2>4. /\ disk'[s].status # "Parked"
        /\ disk'[s].status \in Ended => mem[s].status = disk'[s].status
    BY <1>6, <1>7, <2>1, <2>2, <2>3 DEF Consistent, Ended
  <2>5. ASSUME disk[s].status = mem[s].status PROVE disk'[s].status = mem[s].status
    BY <1>6, <1>7, <2>2, <2>3, <2>5
  <2>6. ASSUME NEW x, Logged(s, mem[s].status, x)
        PROVE  Logged(s, mem[s].status, x)'
    <3>1. CASE disk[s].status = mem[s].status
      BY <1>2, <2>5, <3>1 DEF Logged
    <3>2. CASE \E q \in pen : q.by = x /\ q.s = s /\ q.line = FinishLine(mem[s].status)
      <4>1. PICK q \in pen : q.by = x /\ q.s = s /\ q.line = FinishLine(mem[s].status)
        BY <3>2
      <4>2. CASE q = p
        <5>1. p.line.kind = "finish" /\ p.line.to = mem[s].status
          BY <4>1, <4>2 DEF FinishLine
        <5> QED
          BY <1>2, <1>6, <5>1 DEF Logged
      <4>3. CASE q # p
        BY <1>1, <1>2, <4>1, <4>3 DEF Logged
      <4> QED
        BY <4>2, <4>3
    <3> QED
      BY <2>6, <3>1, <3>2 DEF Logged
  <2>7. ASSUME NEW r \in Runs, Hosts(r, s)'
        PROVE  /\ Recorded(r)' /\ \A q \in Runs : Hosts(q, s)' => q = r
               /\ run'[r].pc = "recorded" => Logged(s, run[r].out, Host(r))'
               /\ run'[r].pc \in {"closing", "unhandled"} => disk'[s].status = run'[r].out
    <3>1. Hosts(r, s) /\ Recorded(r) /\ \A q \in Runs : Hosts(q, s) => q = r
      BY <1>2, <2>1, <2>7 DEF Consistent, Hosts
    <3>2. /\ run[r].pc = "recorded" => Logged(s, run[r].out, Host(r))
          /\ run[r].pc \in {"closing", "unhandled"} => disk[s].status = run[r].out
          /\ run[r].pc \in {"recorded", "closing", "unhandled"} => mem[s].status = run[r].out
      BY <2>1, <3>1 DEF Consistent, Recorded, Hosts
    <3>3. run'[r].pc = "recorded" => Logged(s, run[r].out, Host(r))'
      <4> SUFFICES ASSUME run[r].pc = "recorded" PROVE Logged(s, run[r].out, Host(r))'
        BY <1>2
      <4>1. Logged(s, mem[s].status, Host(r))'
        BY <2>6, <3>2
      <4> QED
        BY <1>2, <3>2, <4>1 DEF Logged
    <3>4. run'[r].pc \in {"closing", "unhandled"} => disk'[s].status = run'[r].out
      BY <1>2, <2>5, <3>2
    <3> QED
      BY <1>2, <3>1, <3>3, <3>4 DEF Hosts, Recorded
  <2>8. ASSUME NEW c \in Callers, call'[c].s = s, call'[c].at = "publish"
        PROVE  c = Main /\ mem'[s].status = "Cancelled" /\ Logged(s, "Cancelled", Caller(c))'
    <3>1. c = Main /\ mem[s].status = "Cancelled" /\ Logged(s, mem[s].status, Caller(c))
      BY <1>2, <2>1, <2>8 DEF Consistent
    <3>2. Logged(s, mem[s].status, Caller(c))'
      BY <2>6, <3>1
    <3> QED
      BY <1>2, <3>1, <3>2 DEF Logged
  <2>9. /\ \A c \in Callers : Starting(c, s)' =>
              /\ mem'[s].status = "Pending"
              /\ \A r \in Runs : ~ Hosts(r, s)'
              /\ \A d \in Callers : Starting(d, s)' => d = c
        /\ \A c \in Callers : call'[c].s = s /\ call'[c].at = "finish" =>
              c = Main /\ mem'[s].status = "Parked" /\ s \notin todo'
        /\ mem'[s].status = "Parked" =>
              phase' = "boot" /\ (s \in todo' \/ (call'[Main].at = "finish" /\ call'[Main].s = s))
        /\ phase' = "boot" /\ s \in todo' => mem'[s].status = "Parked"
    BY <1>2, <2>1 DEF Consistent, Starting, Hosts, main
  <2>10. \A q \in pen' : q.s = s =>
          /\ q.line.kind = "finish" => q.line.to = mem'[s].status /\ q.line.to \in Ended
          /\ q.line.kind = "status" =>
                /\ q.line.to = "Running"
                /\ \E r \in Runs : q.by = Host(r) /\ run'[r].of = s /\ run'[r].pc = "running"
    BY <1>1, <1>2, <2>1 DEF Consistent
  <2>11. told'[s] # "Absent" =>
            told'[s] \in Ended /\ mem'[s].status = told'[s] /\ disk'[s].status = told'[s]
    BY <1>2, <2>1, <2>5 DEF Consistent
  <2> QED
    BY <1>2, <2>4, <2>7, <2>8, <2>9, <2>10, <2>11 DEF Consistent
<1> QED
  BY <1>9, <1>10, <1>11, <1>12, OneSession

(* The drain forces a session to be parked that a human can still resume.   *)
LEMMA ForceKeeps ==
  ASSUME RInv, IInv, IInv', Undisturbed, ForcePark
  PROVE  RInv'
<1>1. PICK s \in Sessions : s = call[Main].s
  BY Subjects DEF ForcePark, At
<1>2. /\ call[Main].at = "force" /\ Write(Caller(Main), s, StatusLine("Parked"))
      /\ call' = [call EXCEPT ![Main] = IdleCall] /\ UNCHANGED <<run, main>>
  BY <1>1 DEF ForcePark, At, End
<1>3. ~ Lone(s) /\ Known(mem[s])
  BY <1>1, <1>2 DEF Undisturbed, Lone, IInv, AskKnown
<1>4. StatusLine("Parked") \in Line
  BY DEF StatusLine, Line, Statuses
<1>5. /\ \A t \in Sessions \ {s} : mem'[t] = mem[t]
      /\ mem'[s].ask = mem[s].ask /\ disk' = disk /\ told' = told
      /\ pen' = pen \cup {[by |-> Caller(Main), s |-> s, line |-> StatusLine("Parked")]}
  BY <1>2, <1>4, WriteKeeps, ZenonT(60) DEF IInv, TypeOK, Write
<1>6. /\ \A d \in Callers \ {Main} : call'[d] = call[d]
      /\ call'[Main].at = "idle"
  BY <1>2, Subjects DEF IInv, TypeOK, CallOK, IdleCall
<1>7. SameSessions'
  BY <1>2, <1>3, <1>4, WriteSame
<1>8. QueueEnds'
  BY <1>2 DEF RInv, QueueEnds
<1>9. \A t \in Sessions \ {s} : Untouched(t)
  BY <1>2, <1>5, <1>6 DEF Untouched, Hosts, main
<1>10. ~ Lone(s)'
  BY <1>3, <1>5 DEF Lone
<1> QED
  BY <1>7, <1>8, <1>9, <1>10, OneSession

(* After a stop the logs are all there is.                                  *)
LEMMA StopKeeps ==
  ASSUME RInv, IInv, IInv', StopProcess
  PROVE  RInv'
<1>1. /\ mem' = [s \in Sessions |-> Restored(disk[s])] /\ pen' = {} /\ disk' = disk /\ told' = told
      /\ run' = [r \in Runs |-> FreeRun] /\ call' = [c \in Callers |-> IdleCall]
      /\ phase' = "boot" /\ todo' = {s \in Sessions : mem'[s].status = "Parked"}
  BY DEF StopProcess, Enter
<1>2. /\ \A r \in Runs : run'[r].pc = "free" /\ run'[r].queue = <<>>
      /\ \A c \in Callers : call'[c].at = "idle"
  BY <1>1 DEF FreeRun, IdleCall
<1>3. \A s \in Sessions : /\ mem'[s] = Restored(disk[s]) /\ disk[s] \in Header
                          /\ mem'[s].ask = disk[s].ask /\ (Known(disk[s]) => Known(mem'[s]))
                          /\ disk[s].status \notin {"Pending", "Running"} => mem'[s] = disk[s]
  BY <1>1, RestoredKeeps DEF IInv, TypeOK, StoreOK, Restored
<1>4. SameSessions'
  <2> SUFFICES ASSUME NEW t \in Sessions
               PROVE  mem'[t].ask = disk'[t].ask /\ (Known(mem'[t]) <=> Known(disk'[t]))
    BY DEF SameSessions, Known
  <2> QED
    BY <1>1, <1>3 DEF Known
<1>5. QueueEnds'
  <2>1. \A r \in Runs : \A i \in 1 .. Len(run'[r].queue) : FALSE
    BY <1>2
  <2> QED
    BY <2>1 DEF QueueEnds
<1>6. ASSUME NEW s \in Sessions, Lone(s)' PROVE Consistent(s)'
  <2>1. Lone(s)
    BY <1>3, <1>6 DEF Lone, RInv, SameSessions
  <2>2. Consistent(s)
    BY <2>1, Apart
  <2>3. /\ disk'[s].status # "Parked"
        /\ disk'[s].status \in Ended => mem'[s].status = disk'[s].status
        /\ told'[s] # "Absent" =>
              told'[s] \in Ended /\ mem'[s].status = told'[s] /\ disk'[s].status = told'[s]
    BY <1>1, <1>3, <2>2 DEF Consistent, Ended
  <2>4. \A r \in Runs : ~ Hosts(r, s)'
    BY <1>2 DEF Hosts
  <2>5. \A c \in Callers : ~ Starting(c, s)'
    BY <1>2 DEF Starting
  <2> QED
    BY <1>1, <1>2, <2>3, <2>4, <2>5 DEF Consistent
<1> QED
  BY <1>4, <1>5, <1>6, Together

-----------------------------------------------------------------------------
(* Every step is one of these.                                              *)

Hop == StoreStill /\ RunsStill /\ CallsStill /\ MainStill /\ QueueEnds'

Records ==
    \/ \E r \in Runs : \/ HostRun(r) \/ HostRecord(r)
                       \/ PumpPush(r) /\ Head(run[r].queue) # "asked"
    \/ \E c \in Callers :
          \/ \E s \in Sessions, ask \in Grants : StartSession(c, s, ask)
          \/ \E r \in Runs : PutHandle(c, r)
          \/ FinishParked(c) \/ PublishCancelled(c)
    \/ \E s \in Sessions : Reconcile(s)
    \/ \E a \in Actors : AppendLine(a)
    \/ ForcePark \/ StopProcess

(* Every step is one or the other.                                          *)
LEMMA StepKinds ==
  ASSUME RInv, IInv, Undisturbed, Undisturbed', [Next]_vars
  PROVE  Hop \/ Records
<1>1. ASSUME NEW r \in Runs, HostStep(r) PROVE Hop \/ Records
  <2>1. CASE \/ HostAsk(r) \/ HostHear(r) \/ HostAnnounce(r) \/ HostUnhandle(r) \/ HostEnd(r)
             \/ \E out \in Outcomes \cup {"Parked", "Cancelled"} : HostReturn(r, out)
    BY <2>1, HostHops DEF Hop
  <2>2. CASE PumpPush(r) /\ Head(run[r].queue) = "asked"
    BY <2>2, PumpHops DEF Hop
  <2> QED
    BY <1>1, <2>1, <2>2 DEF HostStep, Records
<1>2. ASSUME NEW c \in Callers, CallStep(c) PROVE Hop \/ Records
  <2>1. CASE \/ \E s \in Sessions :
                   \/ MessageLive(c, s) \/ MessageParked(c, s) \/ CancelLive(c, s)
                   \/ CancelStored(c, s) \/ Park(c, s) \/ Await(c, s)
             \/ Launch(c) \/ Echo(c) \/ Resume(c) \/ Answer(c) \/ Cancel(c)
             \/ Intend(c) \/ Signal(c) \/ AwaitReturn(c)
    BY <2>1, CallHops DEF Hop
  <2> QED
    BY <1>2, <2>1 DEF CallStep, Records
<1>3. CASE MainStep
  <2>1. CASE \/ \E s \in Sessions : DrainPark(s) \/ ForceCheck(s)
             \/ Serve \/ BeginDrain \/ EndGrace \/ EndSettle \/ EndDrain
    BY <2>1, MainHops DEF Hop
  <2> QED
    BY <1>3, <2>1 DEF MainStep, Records
<1>4. \A a \in Actors : ~ LoseLine(a)
  BY DEF LoseLine, Undisturbed, IInv, TypeOK, MainOK
<1>5. CASE UNCHANGED vars
  BY <1>5 DEF vars, store, main, Hop, StoreStill, RunsStill, Advances, CallsStill, MainStill, RInv,
      QueueEnds
<1> QED
  BY <1>1, <1>2, <1>3, <1>4, <1>5 DEF Next, Records

(* Nothing is recorded, announced or under way at first.                    *)
LEMMA InitRInv == Init => RInv
<1> SUFFICES ASSUME Init PROVE RInv
  OBVIOUS
<1>1. /\ \A s \in Sessions : mem[s] = NoHeader /\ disk[s] = NoHeader /\ told[s] = "Absent"
      /\ \A r \in Runs : run[r].pc = "free" /\ run[r].queue = <<>>
      /\ \A c \in Callers : call[c].at = "idle"
      /\ pen = {} /\ todo = {}
  BY DEF Init, FreeRun, IdleCall
<1>2. NoHeader.status = "Absent"
  BY DEF NoHeader
<1>3. SameSessions /\ LogAgrees /\ ToldAgrees
  BY <1>1, <1>2 DEF SameSessions, LogAgrees, ToldAgrees, Known, Ended
<1>4. OneRun /\ OneStart /\ GivesUp /\ LinesAgree /\ LoggedFirst
  BY <1>1, <1>2 DEF OneRun, OneStart, Starting, GivesUp, LinesAgree, LoggedFirst
<1>5. QueueEnds
  <2>1. \A r \in Runs : \A i \in 1 .. Len(run[r].queue) : FALSE
    BY <1>1
  <2> QED
    BY <2>1 DEF QueueEnds
<1> QED
  BY <1>3, <1>4, <1>5 DEF RInv

(* Every step keeps it while background sessions are undisturbed.           *)
LEMMA StepRInv ==
  RInv /\ IInv /\ IInv' /\ Undisturbed /\ Undisturbed' /\ [Next]_vars => RInv'
<1> SUFFICES ASSUME RInv, IInv, IInv', Undisturbed, Undisturbed', [Next]_vars PROVE RInv'
  OBVIOUS
<1>1. CASE Hop
  BY <1>1, Hops DEF Hop
<1>2. CASE Records
  BY <1>2, HostWrites, PumpTells, FinishWrites, CancelTells, ReconcileKeeps, StartKeeps,
     HandleKeeps, AppendKeeps, ForceKeeps, StopKeeps DEF Records
<1> QED
  BY <1>1, <1>2, StepKinds

-----------------------------------------------------------------------------
(* What each step is in SessionLife.                                        *)

(* A step that changes no background session, or makes one attended, is a   *)
(* stutter.                                                                 *)
LEMMA LifeStill ==
  ASSUME \A s \in Sessions :
            \/ /\ mem'[s].ask = mem[s].ask
               /\ Lone(s) => mem'[s].status = mem[s].status /\ told'[s] = told[s]
            \/ mem'[s].ask /\ mem[s].status = "Absent" /\ told[s] = "Absent"
  PROVE  UNCHANGED Life!vars
<1>1. \A s \in Sessions :
          (IF mem'[s].ask THEN "Absent" ELSE mem'[s].status)
              = (IF mem[s].ask THEN "Absent" ELSE mem[s].status)
  BY DEF Lone
<1>2. \A s \in Sessions :
          (IF mem'[s].ask THEN "Absent" ELSE told'[s]) = (IF mem[s].ask THEN "Absent" ELSE told[s])
  BY DEF Lone
<1> QED
  BY <1>1, <1>2 DEF Life!vars, Background

(* A record of one background session moves it, and no other.               *)
LEMMA LifeMoves ==
  ASSUME NEW s \in Sessions, Lone(s), Lone(s)', told' = told,
         \A t \in Sessions \ {s} : mem'[t] = mem[t]
  PROVE  Life!Moves(s, mem[s].status, mem'[s].status)
<1>1. Background([t \in Sessions |-> mem[t].status])[s] = mem[s].status
  BY DEF Background, Lone
<1>2. \A t \in Sessions : (IF mem'[t].ask THEN "Absent" ELSE told'[t])
                             = (IF mem[t].ask THEN "Absent" ELSE told[t])
  BY DEF Lone
<1>3. Background(told)' = Background(told)
  BY <1>2 DEF Background
<1>4. \A t \in Sessions : (IF mem'[t].ask THEN "Absent" ELSE mem'[t].status)
          = IF t = s THEN mem'[s].status ELSE (IF mem[t].ask THEN "Absent" ELSE mem[t].status)
  BY DEF Lone
<1>5. Background([t \in Sessions |-> mem[t].status])'
          = [Background([t \in Sessions |-> mem[t].status]) EXCEPT ![s] = mem'[s].status]
  BY <1>4 DEF Background
<1> QED
  BY <1>1, <1>3, <1>5 DEF Life!Moves

(* The end of a background session that is told is an announcement.         *)
LEMMA LifeAnnounces ==
  ASSUME NEW s \in Sessions, Lone(s), mem[s].status \in Ended, mem' = mem,
         told \in [Sessions -> Statuses \cup {"Absent"}],
         told' = [told EXCEPT ![s] = mem[s].status]
  PROVE  Life!Announce(s)
<1>1. Background([t \in Sessions |-> mem[t].status])[s] = mem[s].status
  BY DEF Background, Lone
<1>2. Background([t \in Sessions |-> mem[t].status])'
          = Background([t \in Sessions |-> mem[t].status])
  BY DEF Background
<1>3. \A t \in Sessions : (IF mem'[t].ask THEN "Absent" ELSE told'[t])
          = IF t = s THEN mem[s].status ELSE (IF mem[t].ask THEN "Absent" ELSE told[t])
  BY DEF Lone
<1>4. Background(told)' = [Background(told) EXCEPT ![s] = mem[s].status]
  BY <1>3 DEF Background
<1>5. mem[s].status \in Life!Finals
  BY DEF Life!Finals, Ended
<1> QED
  BY <1>1, <1>2, <1>4, <1>5 DEF Life!Announce

(* A stop is an interruption: what was not announced yet may be cut short.  *)
LEMMA LifeInterrupt ==
  ASSUME RInv, IInv, StopProcess
  PROVE  Life!Interrupt
<1>1. mem' = [s \in Sessions |-> Restored(disk[s])] /\ disk' = disk /\ told' = told
  BY DEF StopProcess
<1>2. \A s \in Sessions :
          /\ mem'[s] = Restored(disk[s]) /\ disk[s] \in Header /\ mem[s].ask = disk[s].ask
          /\ mem'[s].ask = mem[s].ask /\ (Known(mem[s]) <=> Known(disk[s]))
  BY <1>1, RestoredKeeps DEF IInv, TypeOK, StoreOK, RInv, SameSessions
<1>3. ASSUME NEW s \in Sessions, Lone(s)
      PROVE  /\ mem'[s].status \in {"Absent", "Parked"} \cup Ended
             /\ mem'[s].status \in IF mem[s].status = "Absent" \/ told[s] # "Absent" THEN {mem[s].status}
                                   ELSE {"Parked", "Failed"} \cup ({mem[s].status} \cap Ended)
  <2>1. Consistent(s)
    BY <1>3, Apart
  <2>2. disk[s].status \in Statuses \cup {"Absent"} /\ disk[s].status # "Parked"
    BY <1>2, <2>1 DEF Header, Consistent
  <2>3. CASE disk[s].status \in {"Pending", "Running"}
    <3>1. mem'[s].status \in {"Parked", "Failed"}
      BY <1>2, <2>3 DEF Restored, Header
    <3>2. mem[s].status # "Absent" /\ told[s] = "Absent"
      BY <1>2, <2>1, <2>3 DEF Known, Consistent, Ended
    <3> QED
      BY <3>1, <3>2 DEF Ended
  <2>4. CASE disk[s].status \in Ended
    <3>1. mem'[s].status = disk[s].status /\ mem[s].status = disk[s].status
      BY <1>2, <2>1, <2>4 DEF Restored, Ended, Consistent
    <3> QED
      BY <2>4, <3>1
  <2>5. CASE disk[s].status = "Absent"
    BY <1>2, <2>5 DEF Restored, Known
  <2> QED
    BY <2>2, <2>3, <2>4, <2>5 DEF Statuses
<1>4. Life!Finals = Ended
  BY DEF Life!Finals, Ended
<1>5. \A s \in Sessions : (IF mem'[s].ask THEN "Absent" ELSE told'[s])
                             = (IF mem[s].ask THEN "Absent" ELSE told[s])
  BY <1>1, <1>2
<1>6. Background(told)' = Background(told)
  BY <1>5 DEF Background
<1>7. /\ Background([t \in Sessions |-> mem[t].status])'
             \in [Sessions -> {"Absent", "Parked"} \cup Ended]
      /\ \A s \in Sessions :
            /\ Background([t \in Sessions |-> mem[t].status])'[s]
                  = IF mem'[s].ask THEN "Absent" ELSE mem'[s].status
            /\ Background([t \in Sessions |-> mem[t].status])[s]
                  = IF mem[s].ask THEN "Absent" ELSE mem[s].status
            /\ Background(told)[s] = IF mem[s].ask THEN "Absent" ELSE told[s]
  BY <1>2, <1>3 DEF Background, Lone
<1>8. \A s \in Sessions : Background([t \in Sessions |-> mem[t].status])'[s] \in Life!AfterStop(s)
  BY <1>2, <1>3, <1>4, <1>7 DEF Life!AfterStop, Lone
<1> QED
  BY <1>4, <1>6, <1>7, <1>8 DEF Life!Interrupt

(* The start of a background session.                                       *)
LEMMA LifeStarts ==
  ASSUME RInv, IInv, NEW c \in Callers, NEW s \in Sessions, NEW ask \in Grants,
         StartSession(c, s, ask)
  PROVE  [Life!Next]_Life!vars
<1>1. /\ mem[s].status = "Absent" /\ Lone(s) /\ told' = told
      /\ mem' = [mem EXCEPT ![s] = NewHeader(ask)] /\ mem \in [Sessions -> Header]
  BY DEF StartSession, Known, IInv, AskKnown, Lone, TypeOK, StoreOK
<1>2. /\ mem'[s].status = "Pending" /\ mem'[s].ask = ask
      /\ \A t \in Sessions \ {s} : mem'[t] = mem[t]
  BY <1>1 DEF NewHeader
<1>3. told[s] = "Absent"
  BY <1>1 DEF RInv, ToldAgrees, Ended
<1>4. CASE ask
  BY <1>1, <1>2, <1>3, <1>4, LifeStill
<1>5. CASE ~ ask
  <2>1. Life!Moves(s, "Absent", "Pending")
    BY <1>1, <1>2, <1>5, LifeMoves DEF Lone
  <2> QED
    BY <2>1 DEF Life!Next, Life!Start
<1> QED
  BY <1>4, <1>5

(* A write of a status, by the host of a run or by who gives a session up.  *)
LEMMA LifeWrites ==
  ASSUME RInv, IInv, NEW a, NEW s \in Sessions, NEW line \in Line, Write(a, s, line),
         line.kind \in {"status", "finish"},
         Lone(s) => \/ mem[s].status = "Pending" /\ line.to = "Running"
                    \/ mem[s].status = "Running" /\ line.to \in Ended
                    \/ mem[s].status = "Parked" /\ line.to = "Cancelled"
  PROVE  [Life!Next]_Life!vars
<1>1. /\ \A t \in Sessions \ {s} : mem'[t] = mem[t]
      /\ mem'[s].ask = mem[s].ask /\ mem'[s].status = line.to /\ told' = told
  BY WriteKeeps, ZenonT(60) DEF IInv, TypeOK, Write
<1>2. CASE ~ Lone(s)
  <2>1. \A t \in Sessions : mem'[t].ask = mem[t].ask
                            /\ (Lone(t) => mem'[t].status = mem[t].status /\ told'[t] = told[t])
    BY <1>1, <1>2
  <2> QED
    BY <2>1, LifeStill
<1>3. CASE Lone(s)
  <2>1. Life!Moves(s, mem[s].status, line.to)
    BY <1>1, <1>3, LifeMoves DEF Lone
  <2>2. Life!Finals = Ended
    BY DEF Life!Finals, Ended
  <2> QED
    BY <1>3, <2>1, <2>2 DEF Life!Next, Life!Begin, Life!Finish, Life!GiveUp
<1> QED
  BY <1>2, <1>3

(* The bus learns how a session ended.                                      *)
LEMMA LifeTells ==
  ASSUME IInv, NEW s \in Sessions, NEW out, told' = [told EXCEPT ![s] = out], mem' = mem,
         Lone(s) => mem[s].status = out /\ out \in Ended
  PROVE  [Life!Next]_Life!vars
<1>1. told \in [Sessions -> Statuses \cup {"Absent"}]
  BY DEF IInv, TypeOK, StoreOK
<1>2. CASE ~ Lone(s)
  <2>1. \A t \in Sessions : Lone(t) => told'[t] = told[t]
    BY <1>1, <1>2
  <2> QED
    BY <2>1, LifeStill
<1>3. CASE Lone(s)
  BY <1>1, <1>3, LifeAnnounces DEF Life!Next
<1> QED
  BY <1>2, <1>3

(* Every step of the hub is one of the abstract specification, or none.     *)
LEMMA LifeStep ==
  RInv /\ IInv /\ Undisturbed /\ Undisturbed' /\ [Next]_vars => [Life!Next]_Life!vars
<1> SUFFICES ASSUME RInv, IInv, Undisturbed, Undisturbed', [Next]_vars PROVE [Life!Next]_Life!vars
  OBVIOUS
<1>1. CASE Hop
  BY <1>1, LifeStill DEF Hop, StoreStill
<1>2. CASE Records
  <2>1. ASSUME NEW r \in Runs, HostRun(r) PROVE [Life!Next]_Life!vars
    <3>1. /\ run[r].pc = "spawned" /\ run[r].of \in Sessions
          /\ Write(Host(r), run[r].of, StatusLine("Running"))
      BY <2>1, Subjects DEF HostRun, HostAt
    <3>2. /\ StatusLine("Running") \in Line /\ StatusLine("Running").kind = "status"
          /\ StatusLine("Running").to = "Running"
      BY DEF StatusLine, Line, Statuses
    <3>3. Lone(run[r].of) => mem[run[r].of].status = "Pending"
      BY <3>1 DEF RInv, OneRun, Recorded
    <3> QED
      BY <3>1, <3>2, <3>3, LifeWrites
  <2>2. ASSUME NEW r \in Runs, HostRecord(r) PROVE [Life!Next]_Life!vars
    <3>1. PICK line : line = IF run[r].out = "Parked" THEN StatusLine("Parked")
                             ELSE FinishLine(run[r].out)
      OBVIOUS
    <3>2. run[r].pc = "decided" /\ run[r].of \in Sessions /\ Write(Host(r), run[r].of, line)
      BY <2>2, <3>1, Subjects DEF HostRecord, HostAt
    <3>3. line \in Line /\ line.kind \in {"status", "finish"} /\ line.to = run[r].out
      BY <3>1, <3>2 DEF IInv, OutDecided, StatusLine, FinishLine, Line, Statuses
    <3>4. Lone(run[r].of) => mem[run[r].of].status = "Running" /\ run[r].out \in Ended
      BY <3>2 DEF RInv, OneRun, Recorded
    <3> QED
      BY <3>2, <3>3, <3>4, LifeWrites
  <2>3. ASSUME NEW r \in Runs, PumpPush(r), Head(run[r].queue) # "asked"
        PROVE  [Life!Next]_Life!vars
    <3>1. /\ run[r].of \in Sessions /\ mem' = mem
          /\ told' = [told EXCEPT ![run[r].of] = run[r].out]
          /\ Lone(run[r].of) => mem[run[r].of].status = run[r].out /\ run[r].out \in Ended
      BY <2>3, PumpFinds DEF Publish
    <3> QED
      BY <3>1, LifeTells
  <2>4. ASSUME NEW c \in Callers, FinishParked(c) PROVE [Life!Next]_Life!vars
    <3>1. /\ call[c].at = "finish" /\ call[c].s \in Sessions
          /\ Write(Caller(c), call[c].s, FinishLine("Cancelled"))
      BY <2>4, Subjects DEF FinishParked, At
    <3>2. /\ FinishLine("Cancelled") \in Line /\ FinishLine("Cancelled").kind = "finish"
          /\ FinishLine("Cancelled").to = "Cancelled"
      BY DEF FinishLine, Line, Statuses, Ended
    <3>3. Lone(call[c].s) => mem[call[c].s].status = "Parked"
      BY <3>1 DEF RInv, GivesUp
    <3> QED
      BY <3>1, <3>2, <3>3, LifeWrites
  <2>5. ASSUME NEW c \in Callers, PublishCancelled(c) PROVE [Life!Next]_Life!vars
    <3>1. /\ call[c].s \in Sessions /\ told' = [told EXCEPT ![call[c].s] = "Cancelled"]
          /\ mem' = mem
      BY <2>5, Subjects DEF PublishCancelled, At, Publish
    <3>2. Lone(call[c].s) => mem[call[c].s].status = "Cancelled" /\ "Cancelled" \in Ended
      BY <2>5, CancelFinds DEF Ended
    <3> QED
      BY <3>1, <3>2, LifeTells
  <2>6. ASSUME \/ \E c \in Callers, r \in Runs : PutHandle(c, r)
               \/ \E s \in Sessions : Reconcile(s)
               \/ \E a \in Actors : AppendLine(a)
        PROVE  [Life!Next]_Life!vars
    <3>1. mem' = mem /\ told' = told
      BY <2>6 DEF PutHandle, Reconcile, AppendLine, store
    <3> QED
      BY <3>1, LifeStill
  <2>7. StopProcess => [Life!Next]_Life!vars
    BY LifeInterrupt DEF Life!Next
  <2>8. ASSUME ForcePark PROVE [Life!Next]_Life!vars
    <3>1. /\ call[Main].at = "force" /\ call[Main].s \in Sessions
          /\ Write(Caller(Main), call[Main].s, StatusLine("Parked"))
      BY <2>8, Subjects DEF ForcePark, At
    <3>2. StatusLine("Parked") \in Line /\ StatusLine("Parked").kind = "status"
      BY DEF StatusLine, Line, Statuses
    <3>3. ~ Lone(call[Main].s)
      BY <3>1 DEF Undisturbed
    <3> QED
      BY <3>1, <3>2, <3>3, LifeWrites
  <2> QED
    BY <1>2, <2>1, <2>2, <2>3, <2>4, <2>5, <2>6, <2>7, <2>8, LifeStarts DEF Records
<1> QED
  BY <1>1, <1>2, StepKinds

(* No session is known at first, there or here.                             *)
LEMMA LifeInit == Init => Life!Init
BY DEF Init, Life!Init, Background, NoHeader

-----------------------------------------------------------------------------

(* While nobody parks a background session and no line is lost, every       *)
(* background session runs once, ends once and is announced with how it     *)
(* ended, through all the maps, tasks, pumps, logs and stops of the hub     *)
(* (hub.rs run_session, pump_events, finish_parked_as_cancelled; jsonl.rs). *)
THEOREM KeepsLife == Spec /\ []Undisturbed => ImplementsLife
BY Inductive, InitRInv, StepRInv, LifeInit, LifeStep, PTL DEF Spec, ImplementsLife, Life!Spec
(* Where clients do not park, the daemon is not drained and the disk takes  *)
(* every line, nothing of the kind happens.                                 *)
Calm ==
    /\ parkReq = {} /\ phase \in {"boot", "up"} /\ faults.lost = 0
    /\ \A c \in Callers : call[c].at \notin {"intend", "signal", "force"}

(* No step disturbs it.                                                     *)
LEMMA CalmKept ==
  ASSUME "park" \notin Requests, ~ Drains, MaxLost = 0
  PROVE  IInv /\ Calm /\ [Next]_vars => Calm'
<1> SUFFICES ASSUME IInv, Calm, [Next]_vars PROVE Calm'
  OBVIOUS
<1>1. /\ call \in [Callers -> Call] /\ Main \in Callers
      /\ faults \in [stops : 0 .. MaxStops, lost : 0 .. MaxLost]
  BY Subjects DEF IInv, TypeOK, CallOK, MainOK
<1>2. ASSUME NEW r \in Runs, HostStep(r) PROVE Calm'
  <2>1. CASE PumpPush(r)
    <3>1. \A c \in Callers : call'[c] = call[c] \/ call'[c].at = "woken"
      BY <2>1, PumpKeeps DEF IInv, TypeOK
    <3> QED
      BY <2>1, <3>1 DEF Calm, PumpPush, main
  <2>2. CASE ~ PumpPush(r)
    BY <1>2, <2>2 DEF Calm, HostStep, HostRun, HostAsk, HostHear, HostReturn, HostRecord,
        HostAnnounce, HostUnhandle, HostEnd, main
  <2> QED
    BY <2>1, <2>2
<1>3. ASSUME NEW c \in Callers, CallStep(c) PROVE Calm'
  <2>1. /\ ~ Intend(c) /\ ~ Signal(c)
        /\ \A s \in Sessions : ~ Park(c, s)
    BY DEF Calm, Intend, Signal, At, Park, Asks
  <2>2. CASE PublishCancelled(c)
    <3>1. PICK calls : calls = [call EXCEPT ![c] = IdleCall]
      OBVIOUS
    <3>2. call' = Woken(call[c].s, calls) /\ UNCHANGED <<parkReq, main, faults>>
      BY <2>2, <3>1 DEF PublishCancelled, Publish
    <3>3. calls \in [Callers -> Call]
      BY <1>1, <3>1 DEF Call, IdleCall
    <3>4. \A d \in Callers : calls[d].at \notin {"intend", "signal", "force"}
      BY <1>1, <3>1 DEF Calm, IdleCall
    <3>5. \A d \in Callers : call'[d] = calls[d] \/ call'[d].at = "woken"
      BY <3>2, <3>3, WokenKeeps
    <3> QED
      BY <3>2, <3>4, <3>5 DEF Calm, main
  <2>3. CASE ~ PublishCancelled(c)
    <3>1. UNCHANGED <<parkReq, main, faults>>
      BY <1>3, <2>1, <2>3 DEF CallStep, StartSession, MessageLive, MessageParked, CancelLive,
          CancelStored, Await, PutHandle, Launch, Echo, Resume, Answer, Cancel, FinishParked,
          AwaitReturn
    <3>2. \A d \in Callers : call'[d].at \notin {"intend", "signal", "force"}
      <4>1. CASE \E s \in Sessions :
                    \/ \E ask \in Grants : StartSession(c, s, ask)
                    \/ MessageLive(c, s) \/ MessageParked(c, s) \/ CancelLive(c, s)
                    \/ CancelStored(c, s) \/ Await(c, s)
        BY <1>1, <4>1 DEF Calm, StartSession, MessageLive, MessageParked, CancelLive, CancelStored,
            Await, Begin
      <4>2. CASE (\E r \in Runs : PutHandle(c, r)) \/ Resume(c) \/ Answer(c) \/ Cancel(c)
                 \/ FinishParked(c)
        BY <1>1, <4>2 DEF Calm, PutHandle, Resume, Answer, Cancel, FinishParked, Go, End, IdleCall,
            Call
      <4>3. CASE Launch(c) \/ Echo(c) \/ AwaitReturn(c)
        BY <1>1, <4>3 DEF Calm, Launch, Echo, AwaitReturn, End, IdleCall
      <4> QED
        BY <1>3, <2>1, <2>3, <4>1, <4>2, <4>3 DEF CallStep
    <3> QED
      BY <3>1, <3>2 DEF Calm, main
  <2> QED
    BY <2>2, <2>3
<1>4. CASE MainStep
  <2>1. (\E s \in Sessions : Reconcile(s)) \/ Serve
    BY <1>1, <1>4 DEF MainStep, Calm, DrainPark, ForceCheck, BeginDrain, EndGrace, EndSettle,
        ForcePark, EndDrain, At
  <2> QED
    BY <1>1, <2>1 DEF Calm, Reconcile, Serve, Visit, Enter, Begin
<1>5. ASSUME NEW a \in Actors, AppendLine(a) \/ LoseLine(a) PROVE Calm'
  BY <1>1, <1>5 DEF Calm, AppendLine, LoseLine, main
<1>6. CASE StopProcess
  BY <1>1, <1>6 DEF Calm, StopProcess, Enter, IdleCall
<1>7. CASE UNCHANGED vars
  BY <1>7 DEF Calm, vars, main
<1> QED
  BY <1>2, <1>3, <1>4, <1>5, <1>6, <1>7 DEF Next

(* So a hub that nobody asks to park, on a disk that takes every line,      *)
(* implements SessionLife, whoever messages, cancels, awaits or stops it.   *)
THEOREM CalmKeepsLife ==
  ASSUME "park" \notin Requests, ~ Drains, MaxLost = 0
  PROVE  Spec => ImplementsLife
<1>1. Init => Calm
  BY DEF Init, Calm, IdleCall
<1>2. IInv /\ Calm /\ [Next]_vars => Calm'
  BY CalmKept
<1>3. IInv /\ Calm => Undisturbed
  BY Subjects DEF Calm, Undisturbed
<1> QED
  BY Inductive, KeepsLife, <1>1, <1>2, <1>3, PTL DEF Spec

(* Whoever awaits a background session is told what memory shows and the    *)
(* log will show after any stop (hub.rs finish, publish after the append).  *)
THEOREM AnnouncedIsRecorded == Spec /\ []Undisturbed => []ToldAgrees
<1>1. RInv => ToldAgrees
  BY DEF RInv
<1> QED
  BY Inductive, InitRInv, StepRInv, <1>1, PTL DEF Spec

(* What was announced of a background session is not taken back.            *)
Stands ==
    \A s \in Sessions : Lone(s) /\ told[s] # "Absent" =>
        told'[s] = told[s] /\ mem'[s].status = mem[s].status

(* In SessionLife no step moves a session that is over and announced.       *)
LEMMA FinalsStand ==
  ASSUME NEW s \in Sessions, Lone(s), Lone(s)', told[s] \in Ended, mem[s].status = told[s],
         [Life!Next]_Life!vars
  PROVE  told'[s] = told[s] /\ mem'[s].status = mem[s].status
<1> DEFINE st == Background([t \in Sessions |-> mem[t].status])
           an == Background(told)
<1>1. /\ st[s] = mem[s].status /\ an[s] = told[s]
      /\ st'[s] = mem'[s].status /\ an'[s] = told'[s]
  BY DEF Background, Lone
<1>2. /\ st[s] \in Ended /\ st[s] = an[s]
      /\ st[s] \notin {"Absent", "Pending", "Running", "Parked"}
  BY <1>1 DEF Ended
<1>3. st \in [Sessions -> {st[t] : t \in Sessions}] /\ an \in [Sessions -> {an[t] : t \in Sessions}]
  BY DEF Background
<1> SUFFICES st'[s] = st[s] /\ an'[s] = an[s]
  BY <1>1
<1>4. ASSUME NEW t \in Sessions, Life!Start(t) \/ Life!Begin(t) \/ Life!Finish(t) \/ Life!GiveUp(t)
      PROVE  st'[s] = st[s] /\ an'[s] = an[s]
  <2>1. PICK from, to :
            Life!Moves(t, from, to) /\ from \in {"Absent", "Pending", "Running", "Parked"}
    BY <1>4 DEF Life!Start, Life!Begin, Life!Finish, Life!GiveUp
  <2>2. st[t] = from /\ st' = [st EXCEPT ![t] = to] /\ an' = an
    BY <2>1 DEF Life!Moves
  <2> QED
    BY <1>2, <1>3, <2>1, <2>2
<1>5. ASSUME NEW t \in Sessions, Life!Announce(t)
      PROVE  st'[s] = st[s] /\ an'[s] = an[s]
  <2>1. an' = [an EXCEPT ![t] = st[t]] /\ st' = st
    BY <1>5 DEF Life!Announce
  <2> QED
    BY <1>2, <1>3, <2>1
<1>6. ASSUME Life!Interrupt PROVE st'[s] = st[s] /\ an'[s] = an[s]
  <2>1. st'[s] \in Life!AfterStop(s) /\ an' = an
    BY <1>6 DEF Life!Interrupt
  <2> QED
    BY <1>2, <2>1 DEF Life!AfterStop
<1>7. CASE UNCHANGED Life!vars
  BY <1>7 DEF Life!vars
<1> QED
  BY <1>4, <1>5, <1>6, <1>7 DEF Life!Next

(* No step changes the grant of a session that was started.                 *)
LEMMA GrantsKept ==
  ASSUME RInv, IInv, Undisturbed, Undisturbed', [Next]_vars, NEW s \in Sessions, Known(mem[s])
  PROVE  mem'[s].ask = mem[s].ask
<1>1. CASE Hop
  BY <1>1 DEF Hop, StoreStill
<1>2. ASSUME NEW a, NEW t \in Sessions, NEW line \in Line, Write(a, t, line)
      PROVE  mem'[s].ask = mem[s].ask
  BY <1>2, WriteKeeps DEF IInv, TypeOK
<1>3. \A st \in Statuses : StatusLine(st) \in Line /\ FinishLine(st) \in Line
  BY LinesTyped
<1>4. ASSUME NEW r \in Runs, HostRun(r) \/ HostRecord(r) PROVE mem'[s].ask = mem[s].ask
  <2>1. run[r].of \in Sessions
    BY <1>4, Subjects DEF HostRun, HostRecord, HostAt
  <2>2. HostRecord(r) => run[r].out \in Statuses
    BY DEF HostRecord, HostAt, IInv, OutDecided, Statuses
  <2>3. \E line \in Line : Write(Host(r), run[r].of, line)
    BY <1>3, <1>4, <2>2 DEF HostRun, HostRecord, Statuses
  <2> QED
    BY <1>2, <2>1, <2>3
<1>5. ASSUME NEW c \in Callers, FinishParked(c) PROVE mem'[s].ask = mem[s].ask
  <2>1. call[c].s \in Sessions /\ Write(Caller(c), call[c].s, FinishLine("Cancelled"))
    BY <1>5, Subjects DEF FinishParked, At
  <2> QED
    BY <1>2, <1>3, <2>1 DEF Statuses, Ended
<1>6. ASSUME ForcePark PROVE mem'[s].ask = mem[s].ask
  <2>1. call[Main].s \in Sessions /\ Write(Caller(Main), call[Main].s, StatusLine("Parked"))
    BY <1>6, Subjects DEF ForcePark, At
  <2> QED
    BY <1>2, <1>3, <2>1 DEF Statuses
<1>7. ASSUME NEW c \in Callers, NEW t \in Sessions, NEW ask \in Grants, StartSession(c, t, ask)
      PROVE  mem'[s].ask = mem[s].ask
  BY <1>7 DEF StartSession, IInv, TypeOK, StoreOK
<1>8. ASSUME NEW r \in Runs, PumpPush(r) PROVE mem'[s].ask = mem[s].ask
  BY <1>8, PumpKeeps DEF IInv, TypeOK
<1>9. CASE StopProcess
  BY <1>9, RestoredKeeps DEF StopProcess, IInv, TypeOK, StoreOK, RInv, SameSessions
<1>10. ASSUME \/ \E c \in Callers : PublishCancelled(c) \/ \E r \in Runs : PutHandle(c, r)
              \/ \E t \in Sessions : Reconcile(t)
              \/ \E a \in Actors : AppendLine(a)
       PROVE  mem'[s].ask = mem[s].ask
  <2>1. mem' = mem
    BY <1>10 DEF PublishCancelled, Publish, PutHandle, Reconcile, AppendLine, store
  <2> QED
    BY <2>1
<1> QED
  BY <1>1, <1>4, <1>5, <1>6, <1>7, <1>8, <1>9, <1>10, StepKinds DEF Records

(* What was announced of a background session is never taken back: no       *)
(* cancel, late event, second run, reconcile or stop changes its status or  *)
(* announces another (hub.rs await_terminal, finish_parked_as_cancelled).   *)
THEOREM AnnouncedStands == Spec /\ []Undisturbed => [][Stands]_vars
<1>1. RInv /\ IInv /\ Undisturbed /\ Undisturbed' /\ [Next]_vars => [Stands]_vars
  <2> SUFFICES ASSUME RInv, IInv, Undisturbed, Undisturbed', [Next]_vars,
                      NEW s \in Sessions, Lone(s), told[s] # "Absent"
               PROVE  told'[s] = told[s] /\ mem'[s].status = mem[s].status
    BY DEF Stands
  <2>1. told[s] \in Ended /\ mem[s].status = told[s]
    BY DEF RInv, ToldAgrees
  <2>2. Lone(s)'
    BY <2>1, GrantsKept DEF Lone, Known, Ended
  <2>3. [Life!Next]_Life!vars
    BY LifeStep
  <2> QED
    BY <2>1, <2>2, <2>3, FinalsStand
<1> QED
  BY Inductive, InitRInv, StepRInv, <1>1, PTL DEF Spec

===============================================================================
