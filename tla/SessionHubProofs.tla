---------------------------- MODULE SessionHubProofs ----------------------------
(***************************************************************************)
(* What the session hub guarantees for any number of sessions, runs and    *)
(* callers, any capacity of its channels and any number of stops and lost  *)
(* lines.                                                                  *)
(***************************************************************************)
EXTENDS SessionHub, TLAPS

(* A slot that hosts nothing is blank, any other belongs to a session.      *)
RunsHold ==
    \A r \in Runs : IF run[r].pc = "free" THEN run[r] = FreeRun ELSE run[r].of \in Sessions

(* A call under way is about a session; where it needs a run it has one.    *)
CallsHold ==
    \A c \in Callers :
        IF call[c].at = "idle" THEN call[c] = IdleCall
        ELSE /\ call[c].s \in Sessions
             /\ call[c].at \in {"launch", "intend", "signal"} => call[c].r \in Runs

(* Only the call that made a run launches it.                               *)
Launching(c) == call[c].at = "launch"
LaunchOwns ==
    \A c \in Callers : Launching(c) =>
        /\ run[call[c].r].pc = "made" /\ run[call[c].r].of = call[c].s
        /\ \A d \in Callers : Launching(d) /\ d # c => call[d].r # call[c].r

(* A pack that has returned left a status to record.                        *)
OutDecided == \A r \in Runs : run[r].pc = "decided" => run[r].out \in Ended \cup {"Parked"}

(* While the process starts nothing is hosted, nobody calls, and a parked   *)
(* session without AskHuman has still to be reconciled.                     *)
BootQuiet ==
    phase = "boot" =>
        /\ \A r \in Runs : run[r] = FreeRun
        /\ \A c \in Clients : call[c] = IdleCall
        /\ call[Main].at \in {"idle", "finish", "publish"}
        /\ \A s \in Sessions : Known(mem[s]) => Over(mem[s]) \/ mem[s].status = "Parked"
        /\ \A s \in Sessions : mem[s].status = "Parked" =>
              mem[s].ask \/ s \in todo \/ (call[Main].at = "finish" /\ call[Main].s = s)

(* What was never started has no grant, in memory or in the log.            *)
AskKnown == \A s \in Sessions : (mem[s].ask => Known(mem[s])) /\ (disk[s].ask => Known(disk[s]))

IInv ==
    /\ TypeOK /\ RunsHold /\ CallsHold /\ LaunchOwns /\ OutDecided /\ AskKnown
    /\ HandlesAreLive /\ RunningIsHosted /\ NeverUnasked /\ BootQuiet

-----------------------------------------------------------------------------
(* Typing of the operators.                                                 *)

LEMMA AppliedTyped ==
    ASSUME NEW h \in Header, NEW line \in Line
    PROVE  Applied(h, line) \in Header
BY DEF Header, Line, Applied, Statuses, Ended

LEMMA LinesTyped ==
    /\ \A st \in Statuses : StatusLine(st) \in Line /\ FinishLine(st) \in Line
    /\ Asked \in Line /\ Answered \in Line
BY DEF StatusLine, FinishLine, Asked, Answered, Line

LEMMA RestoredTyped ==
    ASSUME NEW h \in Header PROVE Restored(h) \in Header
BY DEF Header, Restored, Statuses, Ended

LEMMA ActorsKnown ==
    /\ \A r \in Runs : Host(r) \in Actors /\ Pump(r) \in Actors
    /\ \A c \in Callers : Caller(c) \in Actors
BY DEF Actors

LEMMA WriteTyped ==
    ASSUME StoreOK, NEW a \in Actors, NEW s \in Sessions, NEW line \in Line, Write(a, s, line)
    PROVE  StoreOK'
BY AppliedTyped DEF StoreOK, Write

LEMMA WokenTyped ==
    ASSUME NEW calls \in [Callers -> Call], NEW s PROVE Woken(s, calls) \in [Callers -> Call]
BY DEF Woken, Call

LEMMA RunUpdate ==
    ASSUME RunOK, NEW r \in Runs, NEW rec \in Run, Len(rec.queue) <= QueueSize,
           run' = [run EXCEPT ![r] = rec]
    PROVE  RunOK'
BY DEF RunOK

LEMMA QueueTyped ==
    ASSUME NEW q \in Seq({"asked", "finished"}), q # << >>
    PROVE  /\ Head(q) \in {"asked", "finished"}
           /\ Tail(q) \in Seq({"asked", "finished"}) /\ Len(Tail(q)) = Len(q) - 1
           /\ Len(q) \in Nat
OBVIOUS

LEMMA BlankTyped == FreeRun \in Run /\ Len(FreeRun.queue) = 0
BY HubAssumption DEF FreeRun, Run


LEMMA AppliedKeeps ==
    ASSUME NEW h \in Header, NEW line \in Line
    PROVE  /\ Applied(h, line).ask = h.ask
           /\ Known(h) => Known(Applied(h, line))
           /\ line.kind \in {"asked", "answered"} => Applied(h, line).status = h.status
BY DEF Header, Line, Applied, Known, Statuses, Ended

LEMMA RestoredKeeps ==
    ASSUME NEW h \in Header
    PROVE  /\ Restored(h).ask = h.ask
           /\ Known(h) => Known(Restored(h))
           /\ Restored(h).status \notin {"Pending", "Running"}
BY DEF Header, Restored, Known, Statuses, Ended

(* A write changes one header, never its grant, and what was known stays so. *)
LEMMA WriteKeeps ==
    ASSUME StoreOK, NEW a, NEW s \in Sessions, NEW line \in Line, Write(a, s, line)
    PROVE  \A t \in Sessions :
              /\ mem'[t].ask = mem[t].ask /\ disk'[t] = disk[t]
              /\ Known(mem[t]) => Known(mem'[t])
              /\ t /= s => mem'[t] = mem[t]
              /\ line.kind \in {"asked", "answered"} => mem'[t].status = mem[t].status
              /\ line.kind \in {"status", "finish"} /\ t = s => mem'[t].status = line.to
<1>1. mem' = [mem EXCEPT ![s] = Applied(mem[s], line)] /\ disk' = disk
    BY DEF Write
<1>2. \A t \in Sessions : t /= s => mem'[t] = mem[t]
    BY <1>1 DEF StoreOK
<1>3. mem'[s] = Applied(mem[s], line) /\ mem[s] \in Header
    BY <1>1 DEF StoreOK
<1>4. line.kind \in {"status", "finish"} => Applied(mem[s], line).status = line.to
    BY <1>3 DEF Applied, Header, Line
<1>. QED
    BY <1>1, <1>2, <1>3, <1>4, AppliedKeeps

(* Waking changes where a waiting call is and nothing else.                 *)
LEMMA WokenKeeps ==
    ASSUME NEW calls \in [Callers -> Call], NEW s, NEW c \in Callers
    PROVE  /\ Woken(s, calls)[c].s = calls[c].s /\ Woken(s, calls)[c].r = calls[c].r
           /\ \/ Woken(s, calls)[c] = calls[c]
              \/ calls[c].at = "waiting" /\ Woken(s, calls)[c].at = "woken"
BY DEF Woken, Call

(* What the pump does to a run, to the calls and to the headers.            *)
LEMMA PumpKeeps ==
    ASSUME StoreOK, RunOK, CallOK, RunsHold, NEW r \in Runs, PumpPush(r)
    PROVE  /\ run[r] /= FreeRun /\ run[r].pc /= "free"
           /\ \A q \in Runs :
                 /\ run'[q].pc = run[q].pc /\ run'[q].of = run[q].of
                 /\ run'[q].inbox = run[q].inbox /\ run'[q].out = run[q].out
                 /\ q /= r => run'[q] = run[q]
           /\ \A c \in Callers :
                 /\ call'[c].s = call[c].s /\ call'[c].r = call[c].r
                 /\ \/ call'[c] = call[c]
                    \/ call[c].at = "waiting" /\ call'[c].at = "woken"
           /\ \A s \in Sessions :
                 /\ mem'[s].status = mem[s].status /\ mem'[s].ask = mem[s].ask
                 /\ disk'[s] = disk[s]
           /\ UNCHANGED <<handles, main>>
<1>1. run[r].queue /= <<>> /\ run' = [run EXCEPT ![r] = [run[r] EXCEPT !.queue = Tail(@)]]
    BY DEF PumpPush, RunOK, Run
<1>2. run[r] /= FreeRun /\ run[r].pc /= "free"
    BY <1>1 DEF FreeRun, RunsHold
<1>3. run[r].of \in Sessions
    BY <1>2 DEF RunsHold
<1>4. \A q \in Runs :
          /\ run'[q].pc = run[q].pc /\ run'[q].of = run[q].of
          /\ run'[q].inbox = run[q].inbox /\ run'[q].out = run[q].out
          /\ q /= r => run'[q] = run[q]
    <2>. DEFINE rec == [run[r] EXCEPT !.queue = Tail(@)]
    <2>1. /\ rec.pc = run[r].pc /\ rec.of = run[r].of
          /\ rec.inbox = run[r].inbox /\ rec.out = run[r].out
        BY DEF RunOK, Run
    <2>2. run' = [run EXCEPT ![r] = rec]
        BY <1>1
    <2>. HIDE DEF rec
    <2>. QED
        BY <2>1, <2>2 DEF RunOK
<1>5. CASE Head(run[r].queue) = "asked"
    <2>1. Write(Pump(r), run[r].of, Asked) /\ UNCHANGED <<call, handles, main>>
        BY <1>5 DEF PumpPush
    <2>2. Asked \in Line /\ Asked.kind = "asked"
        BY DEF Asked, Line
    <2>. QED
        BY <1>2, <1>3, <1>4, <2>1, <2>2, WriteKeeps
<1>6. CASE Head(run[r].queue) /= "asked"
    <2>1. /\ call' = Woken(run[r].of, call) /\ UNCHANGED <<mem, disk, handles, main>>
        BY <1>6 DEF PumpPush, Publish
    <2>. QED
        BY <1>2, <1>4, <2>1, WokenKeeps DEF CallOK
<1>. QED
    BY <1>5, <1>6

(* RunningIsHosted, taken apart.                                            *)
HostsNow(s) ==
    \E r \in Runs : run[r].of = s /\ run[r].pc \in {"running", "asked", "decided"}
WillHost(s) ==
    \/ \E r \in Runs : run[r].of = s /\ run[r].pc \in {"made", "spawned"}
    \/ \E c \in Callers : call[c].at = "handle" /\ call[c].s = s

(* What a step must keep of the records, the runs and the calls.            *)
RecordsKept ==
    \A s \in Sessions :
        /\ mem'[s].status = "Running" => mem[s].status = "Running" \/ HostsNow(s)'
        /\ mem'[s].status = "Pending" => mem[s].status = "Pending" \/ WillHost(s)'
RunsKept ==
    \A r \in Runs :
        /\ run[r].pc \in {"running", "asked", "decided"} =>
              \/ run'[r].of = run[r].of /\ run'[r].pc \in {"running", "asked", "decided"}
              \/ mem'[run[r].of].status /= "Running"
        /\ run[r].pc \in {"made", "spawned"} =>
              \/ run'[r].of = run[r].of /\ run'[r].pc \in {"made", "spawned"}
              \/ mem'[run[r].of].status /= "Pending"
StartsKept ==
    \A c \in Callers, s \in Sessions : call[c].at = "handle" /\ call[c].s = s =>
        (call'[c].at = "handle" /\ call'[c].s = s) \/ WillHost(s)'

LEMMA HostedKept ==
    ASSUME RunningIsHosted, RecordsKept, RunsKept, StartsKept
    PROVE  RunningIsHosted'
<1>1. \A s \in Sessions : mem'[s].status = "Running" => HostsNow(s)'
    <2>. SUFFICES ASSUME NEW s \in Sessions, mem'[s].status = "Running", ~HostsNow(s)'
                  PROVE  FALSE
        OBVIOUS
    <2>1. PICK r \in Runs : run[r].of = s /\ run[r].pc \in {"running", "asked", "decided"}
        BY DEF RunningIsHosted, RecordsKept
    <2>2. run'[r].of = s /\ run'[r].pc \in {"running", "asked", "decided"}
        BY <2>1 DEF RunsKept
    <2>. QED
        BY <2>2 DEF HostsNow
<1>2. \A s \in Sessions : mem'[s].status = "Pending" => WillHost(s)'
    <2>. SUFFICES ASSUME NEW s \in Sessions, mem'[s].status = "Pending", ~WillHost(s)'
                  PROVE  FALSE
        OBVIOUS
    <2>1. CASE \E r \in Runs : run[r].of = s /\ run[r].pc \in {"made", "spawned"}
        <3>1. PICK r \in Runs : run[r].of = s /\ run[r].pc \in {"made", "spawned"}
            BY <2>1
        <3>2. run'[r].of = s /\ run'[r].pc \in {"made", "spawned"}
            BY <3>1 DEF RunsKept
        <3>. QED
            BY <3>2 DEF WillHost
    <2>2. CASE \E c \in Callers : call[c].at = "handle" /\ call[c].s = s
        <3>1. PICK c \in Callers : call[c].at = "handle" /\ call[c].s = s
            BY <2>2
        <3>2. call'[c].at = "handle" /\ call'[c].s = s
            BY <3>1 DEF StartsKept
        <3>. QED
            BY <3>2 DEF WillHost
    <2>. QED
        BY <2>1, <2>2 DEF RunningIsHosted, RecordsKept
<1>. QED
    BY <1>1, <1>2 DEF RunningIsHosted, HostsNow, WillHost

(* The types, part by part.                                                 *)
LEMMA StoreTyped == IInv /\ [Next]_vars => StoreOK'
<1>. SUFFICES ASSUME IInv, [Next]_vars PROVE StoreOK'
    OBVIOUS
<1>. USE DEF IInv, TypeOK
<1>1. ASSUME NEW r \in Runs, HostRun(r) PROVE StoreOK'
    BY <1>1, WriteTyped, LinesTyped, ActorsKnown
    DEF HostRun, HostAt, Step, store, handles, main, Statuses, Ended, RunOK, Run, RunsHold,
        OutDecided, FreeRun
<1>2. ASSUME NEW r \in Runs, HostRecord(r) PROVE StoreOK'
    BY <1>2, WriteTyped, LinesTyped, ActorsKnown
    DEF HostRecord, HostAt, Step, store, handles, main, Statuses, Ended, RunOK, Run,
        RunsHold, OutDecided, FreeRun
<1>3. ASSUME NEW r \in Runs, PumpPush(r) PROVE StoreOK'
  <2>1. /\ run[r].of \in Sessions /\ Pump(r) \in Actors
        /\ run[r].out \in Statuses \cup {"Absent"}
      BY <1>3, PumpKeeps, ActorsKnown DEF RunOK, Run, RunsHold, Statuses, Ended
  <2>2. CASE Head(run[r].queue) = "asked"
      BY <1>3, <2>1, <2>2, WriteTyped, LinesTyped DEF PumpPush
  <2>3. CASE Head(run[r].queue) /= "asked"
      BY <1>3, <2>1, <2>3 DEF PumpPush, Publish, StoreOK
  <2>. QED
      BY <2>2, <2>3
<1>4. ASSUME NEW c \in Callers, NEW s \in Sessions, NEW ask \in Grants,
           StartSession(c, s, ask)
       PROVE  StoreOK'
    BY <1>4, GrantsAssumption
    DEF StartSession, Ready, At, Begin, store, handles, main, StoreOK, NewHeader, Header,
        Statuses
<1>5. ASSUME NEW c \in Callers, Echo(c) PROVE StoreOK'
    BY <1>5, WriteTyped, LinesTyped, ActorsKnown
    DEF Echo, At, End, IdleCall, store, handles, main, Statuses, Ended, CallsHold, Callers
<1>6. ASSUME NEW c \in Callers, Answer(c) PROVE StoreOK'
    BY <1>6, WriteTyped, LinesTyped, ActorsKnown
    DEF Answer, At, Go, store, handles, main, Statuses, Ended, CallsHold, Callers
<1>7. ASSUME NEW c \in Callers, FinishParked(c) PROVE StoreOK'
    BY <1>7, WriteTyped, LinesTyped, ActorsKnown
    DEF FinishParked, At, Go, store, handles, main, Statuses, Ended, CallsHold, Callers
<1>8. ASSUME NEW c \in Callers, PublishCancelled(c) PROVE StoreOK'
    BY <1>8
    DEF PublishCancelled, At, Publish, store, handles, main, StoreOK, Statuses, Ended,
        CallsHold, Callers
<1>9. CASE ForcePark
    BY <1>9, WriteTyped, LinesTyped, ActorsKnown
    DEF ForcePark, At, End, IdleCall, store, handles, main, Statuses, Ended, CallsHold,
        Callers
<1>10. ASSUME NEW a \in Actors, AppendLine(a) PROVE StoreOK'
    BY <1>10, AppliedTyped
    DEF AppendLine, store, handles, main, StoreOK
<1>11. ASSUME NEW a \in Actors, LoseLine(a) PROVE StoreOK'
    BY <1>11
    DEF LoseLine, store, handles, main, StoreOK
<1>12. CASE StopProcess
    BY <1>12, RestoredTyped
    DEF StopProcess, Enter, store, handles, main, StoreOK
<1>13. CASE UNCHANGED store
    BY <1>13
    DEF store, handles, main, StoreOK
<1>. QED
  <2>1. CASE \E r \in Runs : HostStep(r)
      BY <2>1, <1>1, <1>2, <1>3, <1>13
      DEF HostStep, HostAsk, HostHear, HostReturn, HostAnnounce, HostUnhandle, HostEnd,
          store, handles, main
  <2>2. CASE \E c \in Callers : CallStep(c)
    <3>1. PICK c \in Callers : CallStep(c)
        BY <2>2
    <3>2. CASE \E s \in Sessions :
                \/ \E ask \in Grants : StartSession(c, s, ask)
                \/ MessageLive(c, s) \/ MessageParked(c, s) \/ CancelLive(c, s)
                \/ CancelStored(c, s) \/ Park(c, s) \/ Await(c, s)
        BY <3>2, <1>4, <1>13
        DEF MessageLive, MessageParked, CancelLive, CancelStored, Park, Await, store,
            handles, main
    <3>3. CASE \/ \E r \in Runs : PutHandle(c, r)
             \/ Launch(c) \/ Echo(c) \/ Resume(c) \/ Answer(c) \/ Cancel(c)
        BY <3>3, <1>5, <1>6, <1>13
        DEF PutHandle, Launch, Resume, Cancel, store, handles, main
    <3>4. CASE \/ FinishParked(c) \/ PublishCancelled(c) \/ Intend(c) \/ Signal(c)
             \/ AwaitReturn(c)
        BY <3>4, <1>7, <1>8, <1>13
        DEF Intend, Signal, AwaitReturn, store, handles, main
    <3>. QED
        BY <3>1, <3>2, <3>3, <3>4 DEF CallStep
  <2>3. CASE MainStep
      BY <2>3, <1>9, <1>13
      DEF MainStep, Reconcile, DrainPark, ForceCheck, Serve, BeginDrain, EndGrace,
          EndSettle, EndDrain, store, handles, main, Visit, Enter
  <2>4. CASE \E a \in Actors : AppendLine(a) \/ LoseLine(a)
      BY <2>4, <1>10, <1>11
  <2>5. CASE StopProcess
      BY <2>5, <1>12
  <2>6. CASE UNCHANGED vars
      BY <2>6, <1>13
      DEF vars, store, handles, main
  <2>. QED
      BY <2>1, <2>2, <2>3, <2>4, <2>5, <2>6 DEF Next

(* No channel of a run exceeds its capacity.                                 *)
LEMMA RunTyped == IInv /\ [Next]_vars => RunOK'
<1>. SUFFICES ASSUME IInv, [Next]_vars PROVE RunOK'
    OBVIOUS
<1>. USE DEF IInv, TypeOK
<1>1. ASSUME NEW r \in Runs, HostRun(r) PROVE RunOK'
  <2>. DEFINE rec == [run[r] EXCEPT !.pc = "running"]
  <2>1. r \in Runs /\ run[r] \in Run /\ Len(run[r].queue) <= QueueSize
      BY <1>1 DEF HostRun, RunOK
  <2>2. rec \in Run /\ Len(rec.queue) <= QueueSize
      BY <2>1 DEF Run
  <2>3. run' = [run EXCEPT ![r] = rec]
      BY <1>1, <2>1 DEF HostRun, HostAt, Step, RunOK, Run
  <2>. QED
      BY <2>1, <2>2, <2>3, RunUpdate
<1>2. ASSUME NEW r \in Runs, HostAsk(r) PROVE RunOK'
    BY <1>2, HubAssumption
    DEF HostAsk, HostAt, Room, store, handles, main, RunOK, Run
<1>3. ASSUME NEW r \in Runs, HostHear(r) PROVE RunOK'
    BY <1>3, HubAssumption
    DEF HostHear, HostAt, store, handles, main, RunOK, Run
<1>4. ASSUME NEW r \in Runs, NEW out \in Outcomes \cup {"Parked", "Cancelled"},
           HostReturn(r, out)
       PROVE  RunOK'
  <2>. DEFINE rec == [run[r] EXCEPT !.pc = "decided", !.out = out, !.inbox = 0]
  <2>1. r \in Runs /\ run[r] \in Run /\ Len(run[r].queue) <= QueueSize
      BY <1>4 DEF HostReturn, RunOK
  <2>4. out \in Ended \cup {"Parked"} /\ 0 \in 0 .. InboxSize
      BY <1>4, HubAssumption DEF HostReturn, Disposition, Ended
  <2>2. rec \in Run /\ Len(rec.queue) <= QueueSize
      BY <2>1, <2>4 DEF Run
  <2>3. run' = [run EXCEPT ![r] = rec]
      BY <1>4, <2>1 DEF HostReturn, HostAt, Disposition, RunOK, Run
  <2>. QED
      BY <2>1, <2>2, <2>3, RunUpdate
<1>5. ASSUME NEW r \in Runs, HostRecord(r) PROVE RunOK'
  <2>. DEFINE rec == [run[r] EXCEPT !.pc = "recorded"]
  <2>1. r \in Runs /\ run[r] \in Run /\ Len(run[r].queue) <= QueueSize
      BY <1>5 DEF HostRecord, RunOK
  <2>2. rec \in Run /\ Len(rec.queue) <= QueueSize
      BY <2>1 DEF Run
  <2>3. run' = [run EXCEPT ![r] = rec]
      BY <1>5, <2>1 DEF HostRecord, HostAt, Step, RunOK, Run
  <2>. QED
      BY <2>1, <2>2, <2>3, RunUpdate
<1>6. ASSUME NEW r \in Runs, HostAnnounce(r) PROVE RunOK'
    BY <1>6, HubAssumption
    DEF HostAnnounce, HostAt, Room, store, handles, main, RunOK, Run
<1>7. ASSUME NEW r \in Runs, PumpPush(r) PROVE RunOK'
  <2>. DEFINE rec == [run[r] EXCEPT !.queue = Tail(@)]
  <2>1. r \in Runs /\ run[r] \in Run /\ Len(run[r].queue) <= QueueSize
      BY <1>7 DEF PumpPush, RunOK
  <2>4. run[r].queue \in Seq({"asked", "finished"}) /\ run[r].queue /= << >>
      BY <1>7, <2>1 DEF PumpPush, Run
  <2>5. /\ Tail(run[r].queue) \in Seq({"asked", "finished"})
        /\ Len(Tail(run[r].queue)) <= QueueSize
      BY <2>1, <2>4, QueueTyped, HubAssumption
  <2>2. rec \in Run /\ Len(rec.queue) <= QueueSize
      BY <2>1, <2>5 DEF Run
  <2>3. run' = [run EXCEPT ![r] = rec]
      BY <1>7, <2>1 DEF PumpPush, Publish, RunOK, Run
  <2>. QED
      BY <2>1, <2>2, <2>3, RunUpdate
<1>8. ASSUME NEW r \in Runs, HostUnhandle(r) PROVE RunOK'
  <2>. DEFINE rec == [run[r] EXCEPT !.pc = "unhandled"]
  <2>1. r \in Runs /\ run[r] \in Run /\ Len(run[r].queue) <= QueueSize
      BY <1>8 DEF HostUnhandle, RunOK
  <2>2. rec \in Run /\ Len(rec.queue) <= QueueSize
      BY <2>1 DEF Run
  <2>3. run' = [run EXCEPT ![r] = rec]
      BY <1>8, <2>1 DEF HostUnhandle, HostAt, Step, RunOK, Run
  <2>. QED
      BY <2>1, <2>2, <2>3, RunUpdate
<1>9. ASSUME NEW r \in Runs, HostEnd(r) PROVE RunOK'
    BY <1>9, HubAssumption
    DEF HostEnd, HostAt, store, handles, main, RunOK, Run, FreeRun
<1>10. ASSUME NEW c \in Callers, NEW s \in Sessions, MessageLive(c, s) PROVE RunOK'
  <2>. DEFINE rec == [run[inputs[s]] EXCEPT !.inbox = @ + 1]
  <2>1. inputs[s] \in Runs /\ run[inputs[s]] \in Run /\ Len(run[inputs[s]].queue) <=
      QueueSize
      BY <1>10, HubAssumption DEF MessageLive, HandlesOK, RunOK
  <2>4. run[inputs[s]].inbox + 1 \in 0 .. InboxSize
      BY <1>10, <2>1, HubAssumption DEF MessageLive, Run
  <2>2. rec \in Run /\ Len(rec.queue) <= QueueSize
      BY <2>1, <2>4 DEF Run
  <2>3. run' = [run EXCEPT ![inputs[s]] = rec]
      BY <1>10, <2>1 DEF MessageLive, Asks, Ready, At, Begin, RunOK, Run
  <2>. QED
      BY <2>1, <2>2, <2>3, RunUpdate
<1>11. ASSUME NEW c \in Callers, NEW s \in Sessions, CancelLive(c, s) PROVE RunOK'
  <2>. DEFINE rec == [run[cancels[s]] EXCEPT !.stop = TRUE]
  <2>1. cancels[s] \in Runs /\ run[cancels[s]] \in Run /\ Len(run[cancels[s]].queue) <=
      QueueSize
      BY <1>11, HubAssumption DEF CancelLive, HandlesOK, RunOK
  <2>2. rec \in Run /\ Len(rec.queue) <= QueueSize
      BY <2>1 DEF Run
  <2>3. run' = [run EXCEPT ![cancels[s]] = rec]
      BY <1>11, <2>1 DEF CancelLive, Asks, Ready, At, RunOK, Run
  <2>. QED
      BY <2>1, <2>2, <2>3, RunUpdate
<1>12. ASSUME NEW c \in Callers, NEW r \in Runs, PutHandle(c, r) PROVE RunOK'
    BY <1>12, HubAssumption
    DEF PutHandle, At, Unused, FreeRun, store, handles, main, RunOK, Run, CallsHold
<1>13. ASSUME NEW c \in Callers, Launch(c) PROVE RunOK'
  <2>. DEFINE rec == [run[call[c].r] EXCEPT !.pc = "spawned"]
  <2>1. call[c].r \in Runs /\ run[call[c].r] \in Run /\ Len(run[call[c].r].queue) <=
      QueueSize
      BY <1>13 DEF Launch, At, CallsHold, RunOK
  <2>2. rec \in Run /\ Len(rec.queue) <= QueueSize
      BY <2>1 DEF Run
  <2>3. run' = [run EXCEPT ![call[c].r] = rec]
      BY <1>13, <2>1 DEF Launch, At, End, Step, IdleCall, RunOK, Run
  <2>. QED
      BY <2>1, <2>2, <2>3, RunUpdate
<1>14. ASSUME NEW c \in Callers, Signal(c) PROVE RunOK'
  <2>1. CASE run[call[c].r].pc = "free"
      BY <1>14, <2>1 DEF Signal, RunOK
  <2>2. CASE run[call[c].r].pc /= "free"
    <3>. DEFINE rec == [run[call[c].r] EXCEPT !.stop = TRUE]
    <3>1. call[c].r \in Runs
        BY <1>14 DEF Signal, At, CallsHold
    <3>2. rec \in Run /\ Len(rec.queue) <= QueueSize
        BY <3>1, ZenonT(60) DEF RunOK, Run
    <3>3. run' = [run EXCEPT ![call[c].r] = rec]
        BY <1>14, <2>2, <3>1 DEF Signal, RunOK, Run
    <3>. QED
        BY <3>1, <3>2, <3>3, RunUpdate
  <2>. QED
      BY <2>1, <2>2
<1>15. CASE StopProcess
    BY <1>15, HubAssumption
    DEF StopProcess, Enter, store, handles, main, RunOK, Run, FreeRun
<1>16. CASE UNCHANGED run
    BY <1>16
    DEF RunOK
<1>. QED
  <2>1. CASE \E r \in Runs : HostStep(r)
      BY <2>1, <1>1, <1>2, <1>3, <1>4, <1>5, <1>6, <1>7, <1>8, <1>9
      DEF HostStep
  <2>2. CASE \E c \in Callers : CallStep(c)
    <3>1. PICK c \in Callers : CallStep(c)
        BY <2>2
    <3>2. CASE \E s \in Sessions :
                \/ \E ask \in Grants : StartSession(c, s, ask)
                \/ MessageLive(c, s) \/ MessageParked(c, s) \/ CancelLive(c, s)
                \/ CancelStored(c, s) \/ Park(c, s) \/ Await(c, s)
        BY <3>2, <1>10, <1>11, <1>16
        DEF StartSession, MessageParked, CancelStored, Park, Await, store, handles, main
    <3>3. CASE \/ \E r \in Runs : PutHandle(c, r)
             \/ Launch(c) \/ Echo(c) \/ Resume(c) \/ Answer(c) \/ Cancel(c)
        BY <3>3, <1>12, <1>13, <1>16
        DEF Echo, Resume, Answer, Cancel, store, handles, main
    <3>4. CASE \/ FinishParked(c) \/ PublishCancelled(c) \/ Intend(c) \/ Signal(c)
             \/ AwaitReturn(c)
        BY <3>4, <1>14, <1>16
        DEF FinishParked, PublishCancelled, Intend, AwaitReturn, store, handles, main
    <3>. QED
        BY <3>1, <3>2, <3>3, <3>4 DEF CallStep
  <2>3. CASE MainStep
      BY <2>3, <1>16
      DEF MainStep, Reconcile, DrainPark, ForceCheck, Serve, BeginDrain, EndGrace,
          EndSettle, ForcePark, EndDrain, store, handles, main, Visit, Enter
  <2>4. CASE \E a \in Actors : AppendLine(a) \/ LoseLine(a)
      BY <2>4, <1>16
      DEF AppendLine, LoseLine, store, handles, main
  <2>5. CASE StopProcess
      BY <2>5, <1>15
  <2>6. CASE UNCHANGED vars
      BY <2>6, <1>16
      DEF vars, store, handles, main
  <2>. QED
      BY <2>1, <2>2, <2>3, <2>4, <2>5, <2>6 DEF Next

(* Handles name runs of the table.                                           *)
LEMMA HandlesTyped == IInv /\ [Next]_vars => HandlesOK'
<1>. SUFFICES ASSUME IInv, [Next]_vars PROVE HandlesOK'
    OBVIOUS
<1>. USE DEF IInv, TypeOK
<1>1. ASSUME NEW r \in Runs, NEW out \in Outcomes \cup {"Parked", "Cancelled"},
           HostReturn(r, out)
       PROVE  HandlesOK'
    BY <1>1
    DEF HostReturn, HostAt, Disposition, store, handles, main, HandlesOK
<1>2. ASSUME NEW r \in Runs, HostUnhandle(r) PROVE HandlesOK'
    BY <1>2
    DEF HostUnhandle, HostAt, Step, store, handles, main, HandlesOK
<1>3. ASSUME NEW r \in Runs, HostEnd(r) PROVE HandlesOK'
    BY <1>3
    DEF HostEnd, HostAt, store, handles, main, HandlesOK
<1>4. ASSUME NEW c \in Callers, NEW r \in Runs, PutHandle(c, r) PROVE HandlesOK'
    BY <1>4
    DEF PutHandle, At, Unused, FreeRun, store, handles, main, HandlesOK, CallsHold
<1>5. ASSUME NEW c \in Callers, Launch(c) PROVE HandlesOK'
    BY <1>5
    DEF Launch, At, End, Step, IdleCall, store, handles, main, HandlesOK, CallsHold
<1>6. ASSUME NEW c \in Callers, Intend(c) PROVE HandlesOK'
    BY <1>6
    DEF Intend, At, Go, store, handles, main, HandlesOK, CallsHold
<1>7. CASE StopProcess
    BY <1>7
    DEF StopProcess, Enter, store, handles, main, HandlesOK
<1>8. CASE UNCHANGED <<cancels, inputs, parkReq>>
    BY <1>8
    DEF handles, HandlesOK
<1>. QED
  <2>1. CASE \E r \in Runs : HostStep(r)
      BY <2>1, <1>1, <1>2, <1>3, <1>8
      DEF HostStep, HostRun, HostAsk, HostHear, HostRecord, HostAnnounce, PumpPush, store,
          handles, main
  <2>2. CASE \E c \in Callers : CallStep(c)
    <3>1. PICK c \in Callers : CallStep(c)
        BY <2>2
    <3>2. CASE \E s \in Sessions :
                \/ \E ask \in Grants : StartSession(c, s, ask)
                \/ MessageLive(c, s) \/ MessageParked(c, s) \/ CancelLive(c, s)
                \/ CancelStored(c, s) \/ Park(c, s) \/ Await(c, s)
        BY <3>2, <1>8
        DEF StartSession, MessageLive, MessageParked, CancelLive, CancelStored, Park, Await,
            store, handles, main
    <3>3. CASE \/ \E r \in Runs : PutHandle(c, r)
             \/ Launch(c) \/ Echo(c) \/ Resume(c) \/ Answer(c) \/ Cancel(c)
        BY <3>3, <1>4, <1>5, <1>8
        DEF Echo, Resume, Answer, Cancel, store, handles, main
    <3>4. CASE \/ FinishParked(c) \/ PublishCancelled(c) \/ Intend(c) \/ Signal(c)
             \/ AwaitReturn(c)
        BY <3>4, <1>6, <1>8
        DEF FinishParked, PublishCancelled, Signal, AwaitReturn, store, handles, main
    <3>. QED
        BY <3>1, <3>2, <3>3, <3>4 DEF CallStep
  <2>3. CASE MainStep
      BY <2>3, <1>8
      DEF MainStep, Reconcile, DrainPark, ForceCheck, Serve, BeginDrain, EndGrace,
          EndSettle, ForcePark, EndDrain, store, handles, main, Visit, Enter
  <2>4. CASE \E a \in Actors : AppendLine(a) \/ LoseLine(a)
      BY <2>4, <1>8
      DEF AppendLine, LoseLine, store, handles, main
  <2>5. CASE StopProcess
      BY <2>5, <1>7
  <2>6. CASE UNCHANGED vars
      BY <2>6, <1>8
      DEF vars, store, handles, main
  <2>. QED
      BY <2>1, <2>2, <2>3, <2>4, <2>5, <2>6 DEF Next

(* A caller is at a step of its call.                                        *)
LEMMA CallTyped == IInv /\ [Next]_vars => CallOK'
<1>. SUFFICES ASSUME IInv, [Next]_vars PROVE CallOK'
    OBVIOUS
<1>. USE DEF IInv, TypeOK
<1>1. ASSUME NEW r \in Runs, PumpPush(r) PROVE CallOK'
  <2>1. CASE Head(run[r].queue) = "asked"
      BY <1>1, <2>1 DEF PumpPush, CallOK
  <2>2. CASE Head(run[r].queue) /= "asked"
      BY <1>1, <2>2, WokenTyped DEF PumpPush, Publish, CallOK
  <2>. QED
      BY <2>1, <2>2
<1>2. ASSUME NEW c \in Callers, NEW s \in Sessions, NEW ask \in Grants,
           StartSession(c, s, ask)
       PROVE  CallOK'
    BY <1>2
    DEF StartSession, Ready, At, Begin, store, handles, main, CallOK, Call, Callers
<1>3. ASSUME NEW c \in Callers, NEW s \in Sessions, MessageLive(c, s) PROVE CallOK'
    BY <1>3
    DEF MessageLive, Asks, Ready, At, Begin, store, handles, main, CallOK, Call, Callers
<1>4. ASSUME NEW c \in Callers, NEW s \in Sessions, MessageParked(c, s) PROVE CallOK'
    BY <1>4
    DEF MessageParked, Asks, Ready, At, Begin, store, handles, main, CallOK, Call, Callers
<1>5. ASSUME NEW c \in Callers, NEW s \in Sessions, CancelStored(c, s) PROVE CallOK'
    BY <1>5
    DEF CancelStored, Asks, Ready, At, Begin, store, handles, main, CallOK, Call, Callers
<1>6. ASSUME NEW c \in Callers, NEW s \in Sessions, Park(c, s) PROVE CallOK'
    BY <1>6
    DEF Park, Asks, Ready, At, Begin, store, handles, main, CallOK, Call, Callers, HandlesOK
<1>7. ASSUME NEW c \in Callers, NEW s \in Sessions, Await(c, s) PROVE CallOK'
    BY <1>7
    DEF Await, Asks, Ready, At, Begin, store, handles, main, CallOK, Call, Callers
<1>8. ASSUME NEW c \in Callers, NEW r \in Runs, PutHandle(c, r) PROVE CallOK'
    BY <1>8
    DEF PutHandle, At, Unused, FreeRun, store, handles, main, CallOK, Call, Callers
<1>9. ASSUME NEW c \in Callers, Launch(c) PROVE CallOK'
    BY <1>9
    DEF Launch, At, End, Step, IdleCall, store, handles, main, CallOK, Call, Callers
<1>10. ASSUME NEW c \in Callers, Echo(c) PROVE CallOK'
    BY <1>10
    DEF Echo, At, End, IdleCall, store, handles, main, CallOK, Call, Callers
<1>11. ASSUME NEW c \in Callers, Resume(c) PROVE CallOK'
    BY <1>11
    DEF Resume, At, Go, End, IdleCall, store, handles, main, CallOK, Call, Callers
<1>12. ASSUME NEW c \in Callers, Answer(c) PROVE CallOK'
    BY <1>12
    DEF Answer, At, Go, store, handles, main, CallOK, Call, Callers
<1>13. ASSUME NEW c \in Callers, Cancel(c) PROVE CallOK'
    BY <1>13
    DEF Cancel, At, Go, End, IdleCall, store, handles, main, CallOK, Call, Callers
<1>14. ASSUME NEW c \in Callers, FinishParked(c) PROVE CallOK'
    BY <1>14
    DEF FinishParked, At, Go, store, handles, main, CallOK, Call, Callers
<1>15. ASSUME NEW c \in Callers, PublishCancelled(c) PROVE CallOK'
    BY <1>15, WokenTyped
    DEF PublishCancelled, At, Publish, store, handles, main, CallOK, Call, Callers, IdleCall
<1>16. ASSUME NEW c \in Callers, Intend(c) PROVE CallOK'
    BY <1>16
    DEF Intend, At, Go, store, handles, main, CallOK, Call, Callers
<1>17. ASSUME NEW c \in Callers, Signal(c) PROVE CallOK'
    BY <1>17
    DEF Signal, At, End, IdleCall, store, handles, main, CallOK, Call, Callers
<1>18. ASSUME NEW c \in Callers, AwaitReturn(c) PROVE CallOK'
    BY <1>18
    DEF AwaitReturn, At, End, IdleCall, store, handles, main, CallOK, Call, Callers
<1>19. ASSUME NEW s \in Sessions, Reconcile(s) PROVE CallOK'
    BY <1>19
    DEF Reconcile, Visit, Begin, Resumable, MainIdle, At, store, handles, main, CallOK,
        Call, Callers, IdleCall
<1>20. ASSUME NEW s \in Sessions, DrainPark(s) PROVE CallOK'
    BY <1>20
    DEF DrainPark, Visit, Begin, MainIdle, At, store, handles, main, CallOK, Call, Callers,
        HandlesOK, IdleCall
<1>21. ASSUME NEW s \in Sessions, ForceCheck(s) PROVE CallOK'
    BY <1>21
    DEF ForceCheck, Visit, Begin, MainIdle, At, store, handles, main, CallOK, Call, Callers,
        IdleCall
<1>22. CASE ForcePark
    BY <1>22
    DEF ForcePark, At, End, IdleCall, store, handles, main, CallOK, Call, Callers
<1>23. CASE StopProcess
    BY <1>23
    DEF StopProcess, Enter, store, handles, main, CallOK, Call, Callers, IdleCall
<1>24. CASE UNCHANGED call
    BY <1>24
    DEF CallOK
<1>. QED
  <2>1. CASE \E r \in Runs : HostStep(r)
      BY <2>1, <1>1, <1>24
      DEF HostStep, HostRun, HostAsk, HostHear, HostReturn, HostRecord, HostAnnounce,
          HostUnhandle, HostEnd, store, handles, main
  <2>2. CASE \E c \in Callers : CallStep(c)
      BY <2>2, <1>2, <1>3, <1>4, <1>5, <1>6, <1>7, <1>8, <1>9, <1>10, <1>11, <1>12, <1>13,
          <1>14, <1>15, <1>16, <1>17, <1>18, <1>24
      DEF CallStep, CancelLive, store, handles, main
  <2>3. CASE MainStep
      BY <2>3, <1>19, <1>20, <1>21, <1>22, <1>24
      DEF MainStep, Serve, BeginDrain, EndGrace, EndSettle, EndDrain, store, handles, main,
          Visit, Enter
  <2>4. CASE \E a \in Actors : AppendLine(a) \/ LoseLine(a)
      BY <2>4, <1>24
      DEF AppendLine, LoseLine, store, handles, main
  <2>5. CASE StopProcess
      BY <2>5, <1>23
  <2>6. CASE UNCHANGED vars
      BY <2>6, <1>24
      DEF vars, store, handles, main
  <2>. QED
      BY <2>1, <2>2, <2>3, <2>4, <2>5, <2>6 DEF Next

(* The main task is in a phase of its own.                                   *)
LEMMA MainTyped == IInv /\ [Next]_vars => MainOK'
<1>. SUFFICES ASSUME IInv, [Next]_vars PROVE MainOK'
    OBVIOUS
<1>. USE DEF IInv, TypeOK
<1>1. ASSUME NEW s \in Sessions, Reconcile(s) PROVE MainOK'
    BY <1>1, HubAssumption
    DEF Reconcile, Visit, Begin, Resumable, MainIdle, At, store, handles, main, MainOK
<1>2. ASSUME NEW s \in Sessions, DrainPark(s) PROVE MainOK'
    BY <1>2, HubAssumption
    DEF DrainPark, Visit, Begin, MainIdle, At, store, handles, main, MainOK
<1>3. ASSUME NEW s \in Sessions, ForceCheck(s) PROVE MainOK'
    BY <1>3, HubAssumption
    DEF ForceCheck, Visit, Begin, MainIdle, At, store, handles, main, MainOK
<1>4. CASE Serve
    BY <1>4, HubAssumption
    DEF Serve, Enter, MainIdle, At, store, handles, main, MainOK
<1>5. CASE BeginDrain
    BY <1>5, HubAssumption
    DEF BeginDrain, Enter, store, handles, main, MainOK
<1>6. CASE EndGrace
    BY <1>6, HubAssumption
    DEF EndGrace, Enter, Hosted, store, handles, main, MainOK
<1>7. CASE EndSettle
    BY <1>7, HubAssumption
    DEF EndSettle, Enter, Hosted, store, handles, main, MainOK
<1>8. CASE EndDrain
    BY <1>8, HubAssumption
    DEF EndDrain, Enter, store, handles, main, MainOK
<1>9. ASSUME NEW a \in Actors, LoseLine(a) PROVE MainOK'
    BY <1>9, HubAssumption
    DEF LoseLine, store, handles, main, MainOK
<1>10. CASE StopProcess
    BY <1>10, HubAssumption
    DEF StopProcess, Enter, store, handles, main, MainOK
<1>11. CASE UNCHANGED <<main, faults>>
    BY <1>11, HubAssumption
    DEF store, handles, main, MainOK
<1>. QED
  <2>1. CASE \E r \in Runs : HostStep(r)
      BY <2>1, <1>11
      DEF HostStep, HostRun, HostAsk, HostHear, HostReturn, HostRecord, HostAnnounce,
          PumpPush, HostUnhandle, HostEnd, store, handles, main
  <2>2. CASE \E c \in Callers : CallStep(c)
    <3>1. PICK c \in Callers : CallStep(c)
        BY <2>2
    <3>2. CASE \E s \in Sessions :
                \/ \E ask \in Grants : StartSession(c, s, ask)
                \/ MessageLive(c, s) \/ MessageParked(c, s) \/ CancelLive(c, s)
                \/ CancelStored(c, s) \/ Park(c, s) \/ Await(c, s)
        BY <3>2, <1>11
        DEF StartSession, MessageLive, MessageParked, CancelLive, CancelStored, Park, Await,
            store, handles, main
    <3>3. CASE \/ \E r \in Runs : PutHandle(c, r)
             \/ Launch(c) \/ Echo(c) \/ Resume(c) \/ Answer(c) \/ Cancel(c)
        BY <3>3, <1>11
        DEF PutHandle, Launch, Echo, Resume, Answer, Cancel, store, handles, main
    <3>4. CASE \/ FinishParked(c) \/ PublishCancelled(c) \/ Intend(c) \/ Signal(c)
             \/ AwaitReturn(c)
        BY <3>4, <1>11
        DEF FinishParked, PublishCancelled, Intend, Signal, AwaitReturn, store, handles,
            main
    <3>. QED
        BY <3>1, <3>2, <3>3, <3>4 DEF CallStep
  <2>3. CASE MainStep
      BY <2>3, <1>1, <1>2, <1>3, <1>4, <1>5, <1>6, <1>7, <1>8, <1>11
      DEF MainStep, ForcePark, store, handles, main, Visit, Enter
  <2>4. CASE \E a \in Actors : AppendLine(a) \/ LoseLine(a)
      BY <2>4, <1>9, <1>11
      DEF AppendLine, store, handles, main
  <2>5. CASE StopProcess
      BY <2>5, <1>10
  <2>6. CASE UNCHANGED vars
      BY <2>6, <1>11
      DEF vars, store, handles, main
  <2>. QED
      BY <2>1, <2>2, <2>3, <2>4, <2>5, <2>6 DEF Next

(* A slot is blank exactly when it hosts nothing.                            *)
LEMMA RunsHoldKept == IInv /\ [Next]_vars => RunsHold'
<1>. SUFFICES ASSUME IInv, [Next]_vars PROVE RunsHold'
    OBVIOUS
<1>. USE DEF IInv, TypeOK
<1>1. ASSUME NEW r \in Runs, HostRun(r) PROVE RunsHold'
    BY <1>1
    DEF HostRun, HostAt, Step, store, handles, main, RunsHold, RunOK, Run, FreeRun
<1>2. ASSUME NEW r \in Runs, HostAsk(r) PROVE RunsHold'
    BY <1>2
    DEF HostAsk, HostAt, Room, store, handles, main, RunsHold, RunOK, Run, FreeRun
<1>3. ASSUME NEW r \in Runs, HostHear(r) PROVE RunsHold'
    BY <1>3
    DEF HostHear, HostAt, store, handles, main, RunsHold, RunOK, Run, FreeRun
<1>4. ASSUME NEW r \in Runs, NEW out \in Outcomes \cup {"Parked", "Cancelled"},
           HostReturn(r, out)
       PROVE  RunsHold'
    BY <1>4
    DEF HostReturn, HostAt, Disposition, store, handles, main, RunsHold, RunOK, Run, FreeRun
<1>5. ASSUME NEW r \in Runs, HostRecord(r) PROVE RunsHold'
    BY <1>5
    DEF HostRecord, HostAt, Step, store, handles, main, RunsHold, RunOK, Run, FreeRun
<1>6. ASSUME NEW r \in Runs, HostAnnounce(r) PROVE RunsHold'
    BY <1>6
    DEF HostAnnounce, HostAt, Room, store, handles, main, RunsHold, RunOK, Run, FreeRun
<1>7. ASSUME NEW r \in Runs, PumpPush(r) PROVE RunsHold'
    BY <1>7, PumpKeeps
    DEF RunsHold
<1>8. ASSUME NEW r \in Runs, HostUnhandle(r) PROVE RunsHold'
    BY <1>8
    DEF HostUnhandle, HostAt, Step, store, handles, main, RunsHold, RunOK, Run, FreeRun
<1>9. ASSUME NEW r \in Runs, HostEnd(r) PROVE RunsHold'
    BY <1>9
    DEF HostEnd, HostAt, store, handles, main, RunsHold, RunOK, Run, FreeRun
<1>10. ASSUME NEW c \in Callers, NEW s \in Sessions, MessageLive(c, s) PROVE RunsHold'
  <2>1. inputs[s] \in Runs /\ run[inputs[s]].pc /= "free" /\ run[inputs[s]].of \in Sessions
      BY <1>10, HubAssumption DEF MessageLive, HandlesOK, HandlesAreLive, RunsHold
  <2>. QED
      BY <1>10, <2>1 DEF MessageLive, RunsHold, RunOK, Run
<1>11. ASSUME NEW c \in Callers, NEW s \in Sessions, CancelLive(c, s) PROVE RunsHold'
  <2>1. cancels[s] \in Runs /\ run[cancels[s]].pc /= "free" /\ run[cancels[s]].of \in
      Sessions
      BY <1>11, HubAssumption DEF CancelLive, HandlesOK, HandlesAreLive, RunsHold
  <2>. QED
      BY <1>11, <2>1 DEF CancelLive, RunsHold, RunOK, Run
<1>12. ASSUME NEW c \in Callers, NEW r \in Runs, PutHandle(c, r) PROVE RunsHold'
    BY <1>12
    DEF PutHandle, At, Unused, FreeRun, store, handles, main, RunsHold, RunOK, Run,
        CallsHold
<1>13. ASSUME NEW c \in Callers, Launch(c) PROVE RunsHold'
    BY <1>13, ZenonT(60)
    DEF Launch, At, End, Step, IdleCall, store, handles, main, RunsHold, RunOK, Run,
        FreeRun, CallsHold, Callers, LaunchOwns, Launching
<1>14. ASSUME NEW c \in Callers, Signal(c) PROVE RunsHold'
    BY <1>14, ZenonT(60)
    DEF Signal, At, End, IdleCall, store, handles, main, RunsHold, RunOK, Run, FreeRun,
        CallsHold, Callers
<1>15. CASE StopProcess
    BY <1>15
    DEF StopProcess, Enter, store, handles, main, RunsHold, RunOK, Run, FreeRun
<1>16. CASE UNCHANGED run
    BY <1>16
    DEF store, handles, main, RunsHold, RunOK, Run, FreeRun
<1>. QED
  <2>1. CASE \E r \in Runs : HostStep(r)
      BY <2>1, <1>1, <1>2, <1>3, <1>4, <1>5, <1>6, <1>7, <1>8, <1>9
      DEF HostStep
  <2>2. CASE \E c \in Callers : CallStep(c)
    <3>1. PICK c \in Callers : CallStep(c)
        BY <2>2
    <3>2. CASE \E s \in Sessions :
                \/ \E ask \in Grants : StartSession(c, s, ask)
                \/ MessageLive(c, s) \/ MessageParked(c, s) \/ CancelLive(c, s)
                \/ CancelStored(c, s) \/ Park(c, s) \/ Await(c, s)
        BY <3>2, <1>10, <1>11, <1>16
        DEF StartSession, MessageParked, CancelStored, Park, Await, store, handles, main
    <3>3. CASE \/ \E r \in Runs : PutHandle(c, r)
             \/ Launch(c) \/ Echo(c) \/ Resume(c) \/ Answer(c) \/ Cancel(c)
        BY <3>3, <1>12, <1>13, <1>16
        DEF Echo, Resume, Answer, Cancel, store, handles, main
    <3>4. CASE \/ FinishParked(c) \/ PublishCancelled(c) \/ Intend(c) \/ Signal(c)
             \/ AwaitReturn(c)
        BY <3>4, <1>14, <1>16
        DEF FinishParked, PublishCancelled, Intend, AwaitReturn, store, handles, main
    <3>. QED
        BY <3>1, <3>2, <3>3, <3>4 DEF CallStep
  <2>3. CASE MainStep
      BY <2>3, <1>16
      DEF MainStep, Reconcile, DrainPark, ForceCheck, Serve, BeginDrain, EndGrace,
          EndSettle, ForcePark, EndDrain, store, handles, main, Visit, Enter
  <2>4. CASE \E a \in Actors : AppendLine(a) \/ LoseLine(a)
      BY <2>4, <1>16
      DEF AppendLine, LoseLine, store, handles, main
  <2>5. CASE StopProcess
      BY <2>5, <1>15
  <2>6. CASE UNCHANGED vars
      BY <2>6, <1>16
      DEF vars, store, handles, main
  <2>. QED
      BY <2>1, <2>2, <2>3, <2>4, <2>5, <2>6 DEF Next

(* A call keeps the session and the run it is about.                         *)
LEMMA CallsHoldKept == IInv /\ [Next]_vars => CallsHold'
<1>. SUFFICES ASSUME IInv, [Next]_vars PROVE CallsHold'
    OBVIOUS
<1>. USE DEF IInv, TypeOK
<1>1. ASSUME NEW r \in Runs, PumpPush(r) PROVE CallsHold'
    BY <1>1, PumpKeeps
    DEF CallsHold, IdleCall
<1>2. ASSUME NEW c \in Callers, NEW s \in Sessions, NEW ask \in Grants,
           StartSession(c, s, ask)
       PROVE  CallsHold'
    BY <1>2
    DEF StartSession, Ready, At, Begin, store, handles, main, CallsHold, CallOK, Call,
        Callers, IdleCall
<1>3. ASSUME NEW c \in Callers, NEW s \in Sessions, MessageLive(c, s) PROVE CallsHold'
    BY <1>3
    DEF MessageLive, Asks, Ready, At, Begin, store, handles, main, CallsHold, CallOK, Call,
        Callers, IdleCall
<1>4. ASSUME NEW c \in Callers, NEW s \in Sessions, MessageParked(c, s) PROVE CallsHold'
    BY <1>4
    DEF MessageParked, Asks, Ready, At, Begin, store, handles, main, CallsHold, CallOK,
        Call, Callers, IdleCall
<1>5. ASSUME NEW c \in Callers, NEW s \in Sessions, CancelStored(c, s) PROVE CallsHold'
    BY <1>5
    DEF CancelStored, Asks, Ready, At, Begin, store, handles, main, CallsHold, CallOK, Call,
        Callers, IdleCall
<1>6. ASSUME NEW c \in Callers, NEW s \in Sessions, Park(c, s) PROVE CallsHold'
    BY <1>6
    DEF Park, Asks, Ready, At, Begin, store, handles, main, CallsHold, CallOK, Call,
        Callers, IdleCall, HandlesOK
<1>7. ASSUME NEW c \in Callers, NEW s \in Sessions, Await(c, s) PROVE CallsHold'
    BY <1>7
    DEF Await, Asks, Ready, At, Begin, store, handles, main, CallsHold, CallOK, Call,
        Callers, IdleCall
<1>8. ASSUME NEW c \in Callers, NEW r \in Runs, PutHandle(c, r) PROVE CallsHold'
    BY <1>8
    DEF PutHandle, At, Unused, FreeRun, store, handles, main, CallsHold, CallOK, Call,
        Callers, IdleCall
<1>9. ASSUME NEW c \in Callers, Launch(c) PROVE CallsHold'
    BY <1>9
    DEF Launch, At, End, Step, IdleCall, store, handles, main, CallsHold, CallOK, Call,
        Callers
<1>10. ASSUME NEW c \in Callers, Echo(c) PROVE CallsHold'
    BY <1>10
    DEF Echo, At, End, IdleCall, store, handles, main, CallsHold, CallOK, Call, Callers
<1>11. ASSUME NEW c \in Callers, Resume(c) PROVE CallsHold'
    BY <1>11
    DEF Resume, At, Go, End, IdleCall, store, handles, main, CallsHold, CallOK, Call,
        Callers
<1>12. ASSUME NEW c \in Callers, Answer(c) PROVE CallsHold'
    BY <1>12
    DEF Answer, At, Go, store, handles, main, CallsHold, CallOK, Call, Callers, IdleCall
<1>13. ASSUME NEW c \in Callers, Cancel(c) PROVE CallsHold'
    BY <1>13
    DEF Cancel, At, Go, End, IdleCall, store, handles, main, CallsHold, CallOK, Call,
        Callers
<1>14. ASSUME NEW c \in Callers, FinishParked(c) PROVE CallsHold'
    BY <1>14
    DEF FinishParked, At, Go, store, handles, main, CallsHold, CallOK, Call, Callers,
        IdleCall
<1>15. ASSUME NEW c \in Callers, PublishCancelled(c) PROVE CallsHold'
    BY <1>15
    DEF PublishCancelled, At, Publish, store, handles, main, CallsHold, CallOK, Call,
        Callers, IdleCall, Woken
<1>16. ASSUME NEW c \in Callers, Intend(c) PROVE CallsHold'
    BY <1>16
    DEF Intend, At, Go, store, handles, main, CallsHold, CallOK, Call, Callers, IdleCall
<1>17. ASSUME NEW c \in Callers, Signal(c) PROVE CallsHold'
    BY <1>17
    DEF Signal, At, End, IdleCall, store, handles, main, CallsHold, CallOK, Call, Callers
<1>18. ASSUME NEW c \in Callers, AwaitReturn(c) PROVE CallsHold'
    BY <1>18
    DEF AwaitReturn, At, End, IdleCall, store, handles, main, CallsHold, CallOK, Call,
        Callers
<1>19. ASSUME NEW s \in Sessions, Reconcile(s) PROVE CallsHold'
    BY <1>19
    DEF Reconcile, Visit, Begin, Resumable, MainIdle, At, store, handles, main, CallsHold,
        CallOK, Call, Callers, IdleCall
<1>20. ASSUME NEW s \in Sessions, DrainPark(s) PROVE CallsHold'
    BY <1>20
    DEF DrainPark, Visit, Begin, MainIdle, At, store, handles, main, CallsHold, CallOK,
        Call, Callers, IdleCall, HandlesOK
<1>21. ASSUME NEW s \in Sessions, ForceCheck(s) PROVE CallsHold'
    BY <1>21
    DEF ForceCheck, Visit, Begin, MainIdle, At, store, handles, main, CallsHold, CallOK,
        Call, Callers, IdleCall
<1>22. CASE ForcePark
    BY <1>22
    DEF ForcePark, At, End, IdleCall, store, handles, main, CallsHold, CallOK, Call, Callers
<1>23. CASE StopProcess
    BY <1>23
    DEF StopProcess, Enter, store, handles, main, CallsHold, CallOK, Call, Callers, IdleCall
<1>24. CASE UNCHANGED call
    BY <1>24
    DEF store, handles, main, CallsHold, CallOK, Call, Callers, IdleCall
<1>. QED
  <2>1. CASE \E r \in Runs : HostStep(r)
      BY <2>1, <1>1, <1>24
      DEF HostStep, HostRun, HostAsk, HostHear, HostReturn, HostRecord, HostAnnounce,
          HostUnhandle, HostEnd, store, handles, main
  <2>2. CASE \E c \in Callers : CallStep(c)
      BY <2>2, <1>2, <1>3, <1>4, <1>5, <1>6, <1>7, <1>8, <1>9, <1>10, <1>11, <1>12, <1>13,
          <1>14, <1>15, <1>16, <1>17, <1>18, <1>24
      DEF CallStep, CancelLive, store, handles, main
  <2>3. CASE MainStep
      BY <2>3, <1>19, <1>20, <1>21, <1>22, <1>24
      DEF MainStep, Serve, BeginDrain, EndGrace, EndSettle, EndDrain, store, handles, main,
          Visit, Enter
  <2>4. CASE \E a \in Actors : AppendLine(a) \/ LoseLine(a)
      BY <2>4, <1>24
      DEF AppendLine, LoseLine, store, handles, main
  <2>5. CASE StopProcess
      BY <2>5, <1>23
  <2>6. CASE UNCHANGED vars
      BY <2>6, <1>24
      DEF vars, store, handles, main
  <2>. QED
      BY <2>1, <2>2, <2>3, <2>4, <2>5, <2>6 DEF Next

(* No other task moves a run on between its handle and its launch.           *)
LEMMA LaunchOwnsKept == IInv /\ [Next]_vars => LaunchOwns'
<1>. SUFFICES ASSUME IInv, [Next]_vars PROVE LaunchOwns'
    OBVIOUS
<1>. USE DEF IInv, TypeOK
<1>1. ASSUME NEW r \in Runs, HostRun(r) PROVE LaunchOwns'
    BY <1>1
    DEF HostRun, HostAt, Step, store, handles, main, LaunchOwns, Launching, CallOK, Call,
        RunOK, Run, Callers, CallsHold
<1>2. ASSUME NEW r \in Runs, HostAsk(r) PROVE LaunchOwns'
    BY <1>2
    DEF HostAsk, HostAt, Room, store, handles, main, LaunchOwns, Launching, CallOK, Call,
        RunOK, Run, Callers, CallsHold
<1>3. ASSUME NEW r \in Runs, HostHear(r) PROVE LaunchOwns'
    BY <1>3, SMTT(60)
    DEF HostHear, HostAt, store, handles, main, LaunchOwns, Launching, CallOK, Call, RunOK,
        Run, Callers, CallsHold
<1>4. ASSUME NEW r \in Runs, NEW out \in Outcomes \cup {"Parked", "Cancelled"},
           HostReturn(r, out)
       PROVE  LaunchOwns'
    BY <1>4
    DEF HostReturn, HostAt, Disposition, store, handles, main, LaunchOwns, Launching,
        CallOK, Call, RunOK, Run, Callers, CallsHold
<1>5. ASSUME NEW r \in Runs, HostRecord(r) PROVE LaunchOwns'
    BY <1>5
    DEF HostRecord, HostAt, Step, store, handles, main, LaunchOwns, Launching, CallOK, Call,
        RunOK, Run, Callers, CallsHold
<1>6. ASSUME NEW r \in Runs, HostAnnounce(r) PROVE LaunchOwns'
    BY <1>6
    DEF HostAnnounce, HostAt, Room, store, handles, main, LaunchOwns, Launching, CallOK,
        Call, RunOK, Run, Callers, CallsHold
<1>7. ASSUME NEW r \in Runs, PumpPush(r) PROVE LaunchOwns'
    BY <1>7, PumpKeeps
    DEF LaunchOwns, Launching, CallsHold
<1>8. ASSUME NEW r \in Runs, HostUnhandle(r) PROVE LaunchOwns'
    BY <1>8
    DEF HostUnhandle, HostAt, Step, store, handles, main, LaunchOwns, Launching, CallOK,
        Call, RunOK, Run, Callers, CallsHold
<1>9. ASSUME NEW r \in Runs, HostEnd(r) PROVE LaunchOwns'
    BY <1>9
    DEF HostEnd, HostAt, store, handles, main, LaunchOwns, Launching, CallOK, Call, RunOK,
        Run, Callers, CallsHold, FreeRun
<1>10. ASSUME NEW c \in Callers, NEW s \in Sessions, NEW ask \in Grants,
           StartSession(c, s, ask)
       PROVE  LaunchOwns'
    BY <1>10
    DEF StartSession, Ready, At, Begin, store, handles, main, LaunchOwns, Launching, CallOK,
        Call, RunOK, Run, Callers, CallsHold
<1>11. ASSUME NEW c \in Callers, NEW s \in Sessions, MessageLive(c, s) PROVE LaunchOwns'
    BY <1>11
    DEF MessageLive, Asks, Ready, At, Begin, store, handles, main, LaunchOwns, Launching,
        CallOK, Call, RunOK, Run, Callers, CallsHold
<1>12. ASSUME NEW c \in Callers, NEW s \in Sessions, MessageParked(c, s) PROVE LaunchOwns'
    BY <1>12
    DEF MessageParked, Asks, Ready, At, Begin, store, handles, main, LaunchOwns, Launching,
        CallOK, Call, RunOK, Run, Callers, CallsHold
<1>13. ASSUME NEW c \in Callers, NEW s \in Sessions, CancelLive(c, s) PROVE LaunchOwns'
    BY <1>13
    DEF CancelLive, Asks, Ready, At, store, handles, main, LaunchOwns, Launching, CallOK,
        Call, RunOK, Run, Callers, CallsHold
<1>14. ASSUME NEW c \in Callers, NEW s \in Sessions, CancelStored(c, s) PROVE LaunchOwns'
    BY <1>14
    DEF CancelStored, Asks, Ready, At, Begin, store, handles, main, LaunchOwns, Launching,
        CallOK, Call, RunOK, Run, Callers, CallsHold
<1>15. ASSUME NEW c \in Callers, NEW s \in Sessions, Park(c, s) PROVE LaunchOwns'
    BY <1>15
    DEF Park, Asks, Ready, At, Begin, store, handles, main, LaunchOwns, Launching, CallOK,
        Call, RunOK, Run, Callers, CallsHold
<1>16. ASSUME NEW c \in Callers, NEW s \in Sessions, Await(c, s) PROVE LaunchOwns'
    BY <1>16
    DEF Await, Asks, Ready, At, Begin, store, handles, main, LaunchOwns, Launching, CallOK,
        Call, RunOK, Run, Callers, CallsHold
<1>17. ASSUME NEW c \in Callers, NEW r \in Runs, PutHandle(c, r) PROVE LaunchOwns'
    BY <1>17
    DEF PutHandle, At, Unused, FreeRun, store, handles, main, LaunchOwns, Launching, CallOK,
        Call, RunOK, Run, Callers, CallsHold
<1>18. ASSUME NEW c \in Callers, Launch(c) PROVE LaunchOwns'
    BY <1>18
    DEF Launch, At, End, Step, IdleCall, store, handles, main, LaunchOwns, Launching,
        CallOK, Call, RunOK, Run, Callers, CallsHold
<1>19. ASSUME NEW c \in Callers, Echo(c) PROVE LaunchOwns'
    BY <1>19
    DEF Echo, At, End, IdleCall, store, handles, main, LaunchOwns, Launching, CallOK, Call,
        RunOK, Run, Callers, CallsHold
<1>20. ASSUME NEW c \in Callers, Resume(c) PROVE LaunchOwns'
  <2>1. CASE Go(c, "answer") /\ UNCHANGED run
      BY <1>20, <2>1
      DEF Resume, Go, End, IdleCall, LaunchOwns, Launching, CallOK, Call, RunOK, Run,
          Callers, CallsHold
  <2>2. CASE End(c) /\ UNCHANGED run
      BY <1>20, <2>2
      DEF Resume, Go, End, IdleCall, LaunchOwns, Launching, CallOK, Call, RunOK, Run,
          Callers, CallsHold
  <2>. QED
      BY <1>20, <2>1, <2>2
      DEF Resume
<1>21. ASSUME NEW c \in Callers, Answer(c) PROVE LaunchOwns'
    BY <1>21
    DEF Answer, At, Go, store, handles, main, LaunchOwns, Launching, CallOK, Call, RunOK,
        Run, Callers, CallsHold
<1>22. ASSUME NEW c \in Callers, Cancel(c) PROVE LaunchOwns'
  <2>1. CASE Go(c, "finish") /\ UNCHANGED run
      BY <1>22, <2>1
      DEF Cancel, Go, End, IdleCall, LaunchOwns, Launching, CallOK, Call, RunOK, Run,
          Callers, CallsHold
  <2>2. CASE End(c) /\ UNCHANGED run
      BY <1>22, <2>2
      DEF Cancel, Go, End, IdleCall, LaunchOwns, Launching, CallOK, Call, RunOK, Run,
          Callers, CallsHold
  <2>. QED
      BY <1>22, <2>1, <2>2
      DEF Cancel
<1>23. ASSUME NEW c \in Callers, FinishParked(c) PROVE LaunchOwns'
    BY <1>23
    DEF FinishParked, At, Go, store, handles, main, LaunchOwns, Launching, CallOK, Call,
        RunOK, Run, Callers, CallsHold
<1>24. ASSUME NEW c \in Callers, PublishCancelled(c) PROVE LaunchOwns'
    BY <1>24
    DEF PublishCancelled, At, Publish, store, handles, main, LaunchOwns, Launching, CallOK,
        Call, RunOK, Run, Callers, CallsHold, Woken, IdleCall
<1>25. ASSUME NEW c \in Callers, Intend(c) PROVE LaunchOwns'
    BY <1>25
    DEF Intend, At, Go, store, handles, main, LaunchOwns, Launching, CallOK, Call, RunOK,
        Run, Callers, CallsHold
<1>26. ASSUME NEW c \in Callers, Signal(c) PROVE LaunchOwns'
    BY <1>26
    DEF Signal, At, End, IdleCall, store, handles, main, LaunchOwns, Launching, CallOK,
        Call, RunOK, Run, Callers, CallsHold
<1>27. ASSUME NEW c \in Callers, AwaitReturn(c) PROVE LaunchOwns'
    BY <1>27
    DEF AwaitReturn, At, End, IdleCall, store, handles, main, LaunchOwns, Launching, CallOK,
        Call, RunOK, Run, Callers, CallsHold
<1>28. ASSUME NEW s \in Sessions, Reconcile(s) PROVE LaunchOwns'
    BY <1>28
    DEF Reconcile, Visit, Begin, Resumable, MainIdle, At, store, handles, main, LaunchOwns,
        Launching, CallOK, Call, RunOK, Run, Callers, CallsHold
<1>29. ASSUME NEW s \in Sessions, DrainPark(s) PROVE LaunchOwns'
    BY <1>29
    DEF DrainPark, Visit, Begin, MainIdle, At, store, handles, main, LaunchOwns, Launching,
        CallOK, Call, RunOK, Run, Callers, CallsHold
<1>30. ASSUME NEW s \in Sessions, ForceCheck(s) PROVE LaunchOwns'
    BY <1>30
    DEF ForceCheck, Visit, Begin, MainIdle, At, store, handles, main, LaunchOwns, Launching,
        CallOK, Call, RunOK, Run, Callers, CallsHold
<1>31. CASE ForcePark
    BY <1>31
    DEF ForcePark, At, End, IdleCall, store, handles, main, LaunchOwns, Launching, CallOK,
        Call, RunOK, Run, Callers, CallsHold
<1>32. CASE StopProcess
    BY <1>32
    DEF StopProcess, Enter, store, handles, main, LaunchOwns, Launching, CallOK, Call,
        RunOK, Run, Callers, CallsHold, IdleCall
<1>33. CASE UNCHANGED <<run, call>>
    BY <1>33
    DEF store, handles, main, LaunchOwns, Launching, CallOK, Call, RunOK, Run, Callers,
        CallsHold
<1>. QED
  <2>1. CASE \E r \in Runs : HostStep(r)
      BY <2>1, <1>1, <1>2, <1>3, <1>4, <1>5, <1>6, <1>7, <1>8, <1>9
      DEF HostStep
  <2>2. CASE \E c \in Callers : CallStep(c)
      BY <2>2, <1>10, <1>11, <1>12, <1>13, <1>14, <1>15, <1>16, <1>17, <1>18, <1>19, <1>20,
          <1>21, <1>22, <1>23, <1>24, <1>25, <1>26, <1>27
      DEF CallStep
  <2>3. CASE MainStep
      BY <2>3, <1>28, <1>29, <1>30, <1>31, <1>33
      DEF MainStep, Serve, BeginDrain, EndGrace, EndSettle, EndDrain, store, handles, main,
          Visit, Enter
  <2>4. CASE \E a \in Actors : AppendLine(a) \/ LoseLine(a)
      BY <2>4, <1>33
      DEF AppendLine, LoseLine, store, handles, main
  <2>5. CASE StopProcess
      BY <2>5, <1>32
  <2>6. CASE UNCHANGED vars
      BY <2>6, <1>33
      DEF vars, store, handles, main
  <2>. QED
      BY <2>1, <2>2, <2>3, <2>4, <2>5, <2>6 DEF Next

(* A pack returns one of its outcomes or the disposition of a stop.          *)
LEMMA OutDecidedKept == IInv /\ [Next]_vars => OutDecided'
<1>. SUFFICES ASSUME IInv, [Next]_vars PROVE OutDecided'
    OBVIOUS
<1>. USE DEF IInv, TypeOK
<1>1. ASSUME NEW r \in Runs, HostRun(r) PROVE OutDecided'
    BY <1>1
    DEF HostRun, HostAt, Step, store, handles, main, OutDecided, RunOK, Run, Ended, FreeRun
<1>2. ASSUME NEW r \in Runs, HostAsk(r) PROVE OutDecided'
    BY <1>2
    DEF HostAsk, HostAt, Room, store, handles, main, OutDecided, RunOK, Run, Ended, FreeRun
<1>3. ASSUME NEW r \in Runs, HostHear(r) PROVE OutDecided'
    BY <1>3
    DEF HostHear, HostAt, store, handles, main, OutDecided, RunOK, Run, Ended, FreeRun
<1>4. ASSUME NEW r \in Runs, NEW out \in Outcomes \cup {"Parked", "Cancelled"},
           HostReturn(r, out)
       PROVE  OutDecided'
    BY <1>4, HubAssumption
    DEF HostReturn, HostAt, Disposition, store, handles, main, OutDecided, RunOK, Run,
        Ended, FreeRun
<1>5. ASSUME NEW r \in Runs, HostRecord(r) PROVE OutDecided'
    BY <1>5
    DEF HostRecord, HostAt, Step, store, handles, main, OutDecided, RunOK, Run, Ended,
        FreeRun
<1>6. ASSUME NEW r \in Runs, HostAnnounce(r) PROVE OutDecided'
    BY <1>6
    DEF HostAnnounce, HostAt, Room, store, handles, main, OutDecided, RunOK, Run, Ended,
        FreeRun
<1>7. ASSUME NEW r \in Runs, PumpPush(r) PROVE OutDecided'
    BY <1>7, PumpKeeps
    DEF OutDecided
<1>8. ASSUME NEW r \in Runs, HostUnhandle(r) PROVE OutDecided'
    BY <1>8
    DEF HostUnhandle, HostAt, Step, store, handles, main, OutDecided, RunOK, Run, Ended,
        FreeRun
<1>9. ASSUME NEW r \in Runs, HostEnd(r) PROVE OutDecided'
    BY <1>9
    DEF HostEnd, HostAt, store, handles, main, OutDecided, RunOK, Run, Ended, FreeRun
<1>10. ASSUME NEW c \in Callers, NEW s \in Sessions, MessageLive(c, s) PROVE OutDecided'
    BY <1>10
    DEF MessageLive, Asks, Ready, At, Begin, store, handles, main, OutDecided, RunOK, Run,
        Ended, FreeRun
<1>11. ASSUME NEW c \in Callers, NEW s \in Sessions, CancelLive(c, s) PROVE OutDecided'
    BY <1>11
    DEF CancelLive, Asks, Ready, At, store, handles, main, OutDecided, RunOK, Run, Ended,
        FreeRun
<1>12. ASSUME NEW c \in Callers, NEW r \in Runs, PutHandle(c, r) PROVE OutDecided'
    BY <1>12
    DEF PutHandle, At, Unused, FreeRun, store, handles, main, OutDecided, RunOK, Run, Ended
<1>13. ASSUME NEW c \in Callers, Launch(c) PROVE OutDecided'
    BY <1>13
    DEF Launch, At, End, Step, IdleCall, store, handles, main, OutDecided, RunOK, Run,
        Ended, FreeRun, CallsHold, Callers
<1>14. ASSUME NEW c \in Callers, Signal(c) PROVE OutDecided'
    BY <1>14
    DEF Signal, At, End, IdleCall, store, handles, main, OutDecided, RunOK, Run, Ended,
        FreeRun
<1>15. CASE StopProcess
    BY <1>15
    DEF StopProcess, Enter, store, handles, main, OutDecided, RunOK, Run, Ended, FreeRun
<1>16. CASE UNCHANGED run
    BY <1>16
    DEF store, handles, main, OutDecided, RunOK, Run, Ended, FreeRun
<1>. QED
  <2>1. CASE \E r \in Runs : HostStep(r)
      BY <2>1, <1>1, <1>2, <1>3, <1>4, <1>5, <1>6, <1>7, <1>8, <1>9
      DEF HostStep
  <2>2. CASE \E c \in Callers : CallStep(c)
    <3>1. PICK c \in Callers : CallStep(c)
        BY <2>2
    <3>2. CASE \E s \in Sessions :
                \/ \E ask \in Grants : StartSession(c, s, ask)
                \/ MessageLive(c, s) \/ MessageParked(c, s) \/ CancelLive(c, s)
                \/ CancelStored(c, s) \/ Park(c, s) \/ Await(c, s)
        BY <3>2, <1>10, <1>11, <1>16
        DEF StartSession, MessageParked, CancelStored, Park, Await, store, handles, main
    <3>3. CASE \/ \E r \in Runs : PutHandle(c, r)
             \/ Launch(c) \/ Echo(c) \/ Resume(c) \/ Answer(c) \/ Cancel(c)
        BY <3>3, <1>12, <1>13, <1>16
        DEF Echo, Resume, Answer, Cancel, store, handles, main
    <3>4. CASE \/ FinishParked(c) \/ PublishCancelled(c) \/ Intend(c) \/ Signal(c)
             \/ AwaitReturn(c)
        BY <3>4, <1>14, <1>16
        DEF FinishParked, PublishCancelled, Intend, AwaitReturn, store, handles, main
    <3>. QED
        BY <3>1, <3>2, <3>3, <3>4 DEF CallStep
  <2>3. CASE MainStep
      BY <2>3, <1>16
      DEF MainStep, Reconcile, DrainPark, ForceCheck, Serve, BeginDrain, EndGrace,
          EndSettle, ForcePark, EndDrain, store, handles, main, Visit, Enter
  <2>4. CASE \E a \in Actors : AppendLine(a) \/ LoseLine(a)
      BY <2>4, <1>16
      DEF AppendLine, LoseLine, store, handles, main
  <2>5. CASE StopProcess
      BY <2>5, <1>15
  <2>6. CASE UNCHANGED vars
      BY <2>6, <1>16
      DEF vars, store, handles, main
  <2>. QED
      BY <2>1, <2>2, <2>3, <2>4, <2>5, <2>6 DEF Next

(* Only a start writes the grant, and no line makes a session unknown.       *)
LEMMA AskKnownKept == IInv /\ [Next]_vars => AskKnown'
<1>. SUFFICES ASSUME IInv, [Next]_vars PROVE AskKnown'
    OBVIOUS
<1>. USE DEF IInv, TypeOK
<1>1. ASSUME NEW r \in Runs, HostRun(r) PROVE AskKnown'
  <2>1. run[r].of \in Sessions /\ StatusLine("Running") \in Line
      BY <1>1, LinesTyped DEF HostRun, HostAt, RunsHold, FreeRun, Statuses, Ended
  <2>. QED
      BY <1>1, <2>1, WriteKeeps DEF HostRun, AskKnown
<1>2. ASSUME NEW r \in Runs, HostRecord(r) PROVE AskKnown'
  <2>1. /\ run[r].of \in Sessions
        /\ StatusLine("Parked") \in Line /\ FinishLine(run[r].out) \in Line
      BY <1>2, LinesTyped DEF HostRecord, HostAt, RunsHold, FreeRun, OutDecided, Statuses,
          Ended
  <2>. QED
      BY <1>2, <2>1, WriteKeeps DEF HostRecord, AskKnown
<1>3. ASSUME NEW r \in Runs, PumpPush(r) PROVE AskKnown'
  <2>1. \A s \in Sessions : mem'[s].ask = mem[s].ask /\ mem'[s].status = mem[s].status
      BY <1>3, PumpKeeps
  <2>2. \A s \in Sessions : disk'[s] = disk[s]
      BY <1>3, PumpKeeps
  <2>. QED
      BY <2>1, <2>2 DEF AskKnown, Known
<1>4. ASSUME NEW c \in Callers, NEW s \in Sessions, NEW ask \in Grants,
           StartSession(c, s, ask)
       PROVE  AskKnown'
    BY <1>4
    DEF StartSession, Ready, At, Begin, store, handles, main, AskKnown, StoreOK, NewHeader,
        Known
<1>5. ASSUME NEW c \in Callers, Echo(c) PROVE AskKnown'
  <2>1. call[c].s \in Sessions /\ Answered \in Line
      BY <1>5, LinesTyped DEF Echo, At, CallsHold, Statuses, Ended
  <2>. QED
      BY <1>5, <2>1, WriteKeeps DEF Echo, AskKnown
<1>6. ASSUME NEW c \in Callers, Answer(c) PROVE AskKnown'
  <2>1. call[c].s \in Sessions /\ Answered \in Line
      BY <1>6, LinesTyped DEF Answer, At, CallsHold, Statuses, Ended
  <2>. QED
      BY <1>6, <2>1, WriteKeeps DEF Answer, AskKnown
<1>7. ASSUME NEW c \in Callers, FinishParked(c) PROVE AskKnown'
  <2>1. call[c].s \in Sessions /\ FinishLine("Cancelled") \in Line
      BY <1>7, LinesTyped DEF FinishParked, At, CallsHold, Statuses, Ended
  <2>. QED
      BY <1>7, <2>1, WriteKeeps DEF FinishParked, AskKnown
<1>8. CASE ForcePark
  <2>1. call[Main].s \in Sessions /\ StatusLine("Parked") \in Line
      BY <1>8, LinesTyped DEF ForcePark, At, CallsHold, Callers, Statuses, Ended
  <2>. QED
      BY <1>8, <2>1, WriteKeeps DEF ForcePark, AskKnown
<1>9. ASSUME NEW a \in Actors, AppendLine(a) PROVE AskKnown'
  <2>1. PICK p \in pen : disk' = [disk EXCEPT ![p.s] = Applied(@, p.line)] /\ mem' = mem
      BY <1>9 DEF AppendLine
  <2>2. p.s \in Sessions /\ p.line \in Line /\ disk[p.s] \in Header
      BY <2>1 DEF StoreOK
  <2>. QED
      BY <2>1, <2>2, AppliedKeeps DEF AskKnown, StoreOK
<1>10. CASE StopProcess
    BY <1>10, RestoredKeeps
    DEF StopProcess, Enter, store, handles, main, AskKnown, StoreOK
<1>11. CASE UNCHANGED <<mem, disk>>
    BY <1>11
    DEF store, handles, main, AskKnown, StoreOK
<1>. QED
  <2>1. CASE \E r \in Runs : HostStep(r)
      BY <2>1, <1>1, <1>2, <1>3, <1>11
      DEF HostStep, HostAsk, HostHear, HostReturn, HostAnnounce, HostUnhandle, HostEnd,
          store, handles, main
  <2>2. CASE \E c \in Callers : CallStep(c)
    <3>1. PICK c \in Callers : CallStep(c)
        BY <2>2
    <3>2. CASE \E s \in Sessions :
                \/ \E ask \in Grants : StartSession(c, s, ask)
                \/ MessageLive(c, s) \/ MessageParked(c, s) \/ CancelLive(c, s)
                \/ CancelStored(c, s) \/ Park(c, s) \/ Await(c, s)
        BY <3>2, <1>4, <1>11
        DEF MessageLive, MessageParked, CancelLive, CancelStored, Park, Await, store,
            handles, main
    <3>3. CASE \/ \E r \in Runs : PutHandle(c, r)
             \/ Launch(c) \/ Echo(c) \/ Resume(c) \/ Answer(c) \/ Cancel(c)
        BY <3>3, <1>5, <1>6, <1>11
        DEF PutHandle, Launch, Resume, Cancel, store, handles, main
    <3>4. CASE \/ FinishParked(c) \/ PublishCancelled(c) \/ Intend(c) \/ Signal(c)
             \/ AwaitReturn(c)
        BY <3>4, <1>7, <1>11
        DEF PublishCancelled, Intend, Signal, AwaitReturn, store, handles, main, Publish
    <3>. QED
        BY <3>1, <3>2, <3>3, <3>4 DEF CallStep
  <2>3. CASE MainStep
      BY <2>3, <1>8, <1>11
      DEF MainStep, Reconcile, DrainPark, ForceCheck, Serve, BeginDrain, EndGrace,
          EndSettle, EndDrain, store, handles, main, Visit, Enter
  <2>4. CASE \E a \in Actors : AppendLine(a) \/ LoseLine(a)
      BY <2>4, <1>9, <1>11
      DEF LoseLine, store, handles, main
  <2>5. CASE StopProcess
      BY <2>5, <1>10
  <2>6. CASE UNCHANGED vars
      BY <2>6, <1>11
      DEF vars, store, handles, main
  <2>. QED
      BY <2>1, <2>2, <2>3, <2>4, <2>5, <2>6 DEF Next

(* A handle is put in after its run is made and removed before it is gone.   *)
LEMMA HandlesAreLiveKept == IInv /\ [Next]_vars => HandlesAreLive'
<1>. SUFFICES ASSUME IInv, [Next]_vars PROVE HandlesAreLive'
    OBVIOUS
<1>. USE DEF IInv, TypeOK
<1>1. ASSUME NEW r \in Runs, HostRun(r) PROVE HandlesAreLive'
    BY <1>1
    DEF HostRun, HostAt, Step, store, handles, main, HandlesAreLive, HandlesOK, RunOK, Run,
        FreeRun
<1>2. ASSUME NEW r \in Runs, HostAsk(r) PROVE HandlesAreLive'
    BY <1>2
    DEF HostAsk, HostAt, Room, store, handles, main, HandlesAreLive, HandlesOK, RunOK, Run,
        FreeRun
<1>3. ASSUME NEW r \in Runs, HostHear(r) PROVE HandlesAreLive'
    BY <1>3
    DEF HostHear, HostAt, store, handles, main, HandlesAreLive, HandlesOK, RunOK, Run,
        FreeRun
<1>4. ASSUME NEW r \in Runs, NEW out \in Outcomes \cup {"Parked", "Cancelled"},
           HostReturn(r, out)
       PROVE  HandlesAreLive'
    BY <1>4
    DEF HostReturn, HostAt, Disposition, store, handles, main, HandlesAreLive, HandlesOK,
        RunOK, Run, FreeRun
<1>5. ASSUME NEW r \in Runs, HostRecord(r) PROVE HandlesAreLive'
    BY <1>5
    DEF HostRecord, HostAt, Step, store, handles, main, HandlesAreLive, HandlesOK, RunOK,
        Run, FreeRun
<1>6. ASSUME NEW r \in Runs, HostAnnounce(r) PROVE HandlesAreLive'
    BY <1>6
    DEF HostAnnounce, HostAt, Room, store, handles, main, HandlesAreLive, HandlesOK, RunOK,
        Run, FreeRun
<1>7. ASSUME NEW r \in Runs, PumpPush(r) PROVE HandlesAreLive'
    BY <1>7, PumpKeeps
    DEF HandlesAreLive, HandlesOK, handles
<1>8. ASSUME NEW r \in Runs, HostUnhandle(r) PROVE HandlesAreLive'
    BY <1>8
    DEF HostUnhandle, HostAt, Step, store, handles, main, HandlesAreLive, HandlesOK, RunOK,
        Run, FreeRun
<1>9. ASSUME NEW r \in Runs, HostEnd(r) PROVE HandlesAreLive'
    BY <1>9
    DEF HostEnd, HostAt, store, handles, main, HandlesAreLive, HandlesOK, RunOK, Run,
        FreeRun
<1>10. ASSUME NEW c \in Callers, NEW s \in Sessions, MessageLive(c, s) PROVE HandlesAreLive'
    BY <1>10
    DEF MessageLive, Asks, Ready, At, Begin, store, handles, main, HandlesAreLive,
        HandlesOK, RunOK, Run, FreeRun
<1>11. ASSUME NEW c \in Callers, NEW s \in Sessions, CancelLive(c, s) PROVE HandlesAreLive'
    BY <1>11
    DEF CancelLive, Asks, Ready, At, store, handles, main, HandlesAreLive, HandlesOK, RunOK,
        Run, FreeRun
<1>12. ASSUME NEW c \in Callers, NEW r \in Runs, PutHandle(c, r) PROVE HandlesAreLive'
    BY <1>12, HubAssumption
    DEF PutHandle, At, Unused, FreeRun, store, handles, main, HandlesAreLive, HandlesOK,
        RunOK, Run, CallsHold
<1>13. ASSUME NEW c \in Callers, Launch(c) PROVE HandlesAreLive'
    BY <1>13, HubAssumption
    DEF Launch, At, End, Step, IdleCall, store, handles, main, HandlesAreLive, HandlesOK,
        RunOK, Run, FreeRun, LaunchOwns, Launching, CallsHold, Callers
<1>14. ASSUME NEW c \in Callers, Signal(c) PROVE HandlesAreLive'
    BY <1>14
    DEF Signal, At, End, IdleCall, store, handles, main, HandlesAreLive, HandlesOK, RunOK,
        Run, FreeRun, CallsHold, Callers
<1>15. CASE StopProcess
    BY <1>15
    DEF StopProcess, Enter, store, handles, main, HandlesAreLive, HandlesOK, RunOK, Run,
        FreeRun
<1>16. CASE UNCHANGED <<run, handles>>
    BY <1>16
    DEF store, handles, main, HandlesAreLive, HandlesOK, RunOK, Run, FreeRun
<1>. QED
  <2>1. CASE \E r \in Runs : HostStep(r)
      BY <2>1, <1>1, <1>2, <1>3, <1>4, <1>5, <1>6, <1>7, <1>8, <1>9
      DEF HostStep
  <2>2. CASE \E c \in Callers : CallStep(c)
    <3>1. PICK c \in Callers : CallStep(c)
        BY <2>2
    <3>2. CASE \E s \in Sessions :
                \/ \E ask \in Grants : StartSession(c, s, ask)
                \/ MessageLive(c, s) \/ MessageParked(c, s) \/ CancelLive(c, s)
                \/ CancelStored(c, s) \/ Park(c, s) \/ Await(c, s)
        BY <3>2, <1>10, <1>11, <1>16
        DEF StartSession, MessageParked, CancelStored, Park, Await, store, handles, main
    <3>3. CASE \/ \E r \in Runs : PutHandle(c, r)
             \/ Launch(c) \/ Echo(c) \/ Resume(c) \/ Answer(c) \/ Cancel(c)
        BY <3>3, <1>12, <1>13, <1>16
        DEF Echo, Resume, Answer, Cancel, store, handles, main
    <3>4. CASE \/ FinishParked(c) \/ PublishCancelled(c) \/ Intend(c) \/ Signal(c)
             \/ AwaitReturn(c)
        BY <3>4, <1>14, <1>16
        DEF FinishParked, PublishCancelled, Intend, AwaitReturn, store, handles, main
    <3>. QED
        BY <3>1, <3>2, <3>3, <3>4 DEF CallStep
  <2>3. CASE MainStep
      BY <2>3, <1>16
      DEF MainStep, Reconcile, DrainPark, ForceCheck, Serve, BeginDrain, EndGrace,
          EndSettle, ForcePark, EndDrain, store, handles, main, Visit, Enter
  <2>4. CASE \E a \in Actors : AppendLine(a) \/ LoseLine(a)
      BY <2>4, <1>16
      DEF AppendLine, LoseLine, store, handles, main
  <2>5. CASE StopProcess
      BY <2>5, <1>15
  <2>6. CASE UNCHANGED vars
      BY <2>6, <1>16
      DEF vars, store, handles, main
  <2>. QED
      BY <2>1, <2>2, <2>3, <2>4, <2>5, <2>6 DEF Next

(* A record of Running or Pending changes before its task is gone.           *)
LEMMA RunningIsHostedKept == IInv /\ [Next]_vars => RunningIsHosted'
<1>. SUFFICES ASSUME IInv, [Next]_vars PROVE RunningIsHosted'
    OBVIOUS
<1>. USE DEF IInv, TypeOK
<1>1. ASSUME NEW r \in Runs, HostRun(r) PROVE RunningIsHosted'
  <2>4. run[r].of \in Sessions /\ StatusLine("Running") \in Line
      BY <1>1, LinesTyped DEF HostRun, HostAt, RunsHold, FreeRun, Statuses, Ended
  <2>1. RecordsKept
      BY <1>1, <2>4, WriteKeeps
      DEF HostRun, StatusLine, FinishLine, Answered, Ended, OutDecided, HostAt, Step,
          HostsNow, RunOK, Run, RecordsKept
  <2>2. RunsKept
      BY <1>1, <2>4, WriteKeeps, SMTT(60)
      DEF HostRun, HostAt, Step, store, handles, main, RunOK, Run, StatusLine, FinishLine,
          Ended, OutDecided, RunsKept
  <2>3. StartsKept
      BY <1>1
      DEF HostRun, store, handles, main, StartsKept
  <2>. QED
      BY <2>1, <2>2, <2>3, HostedKept
<1>2. ASSUME NEW r \in Runs, HostAsk(r) PROVE RunningIsHosted'
  <2>1. RecordsKept
      BY <1>2
      DEF HostAsk, HostAt, Room, store, handles, main, RecordsKept
  <2>2. RunsKept
      BY <1>2
      DEF HostAsk, HostAt, Room, store, handles, main, RunOK, Run, RunsKept
  <2>3. StartsKept
      BY <1>2
      DEF HostAsk, store, handles, main, StartsKept
  <2>. QED
      BY <2>1, <2>2, <2>3, HostedKept
<1>3. ASSUME NEW r \in Runs, HostHear(r) PROVE RunningIsHosted'
  <2>1. RecordsKept
      BY <1>3
      DEF HostHear, HostAt, store, handles, main, RecordsKept
  <2>2. RunsKept
      BY <1>3
      DEF HostHear, HostAt, store, handles, main, RunOK, Run, RunsKept
  <2>3. StartsKept
      BY <1>3
      DEF HostHear, store, handles, main, StartsKept
  <2>. QED
      BY <2>1, <2>2, <2>3, HostedKept
<1>4. ASSUME NEW r \in Runs, NEW out \in Outcomes \cup {"Parked", "Cancelled"},
           HostReturn(r, out)
       PROVE  RunningIsHosted'
  <2>1. RecordsKept
      BY <1>4
      DEF HostReturn, HostAt, Disposition, store, handles, main, RecordsKept
  <2>2. RunsKept
      BY <1>4
      DEF HostReturn, HostAt, Disposition, store, handles, main, RunOK, Run, RunsKept
  <2>3. StartsKept
      BY <1>4
      DEF HostReturn, store, handles, main, StartsKept
  <2>. QED
      BY <2>1, <2>2, <2>3, HostedKept
<1>5. ASSUME NEW r \in Runs, HostRecord(r) PROVE RunningIsHosted'
  <2>4. /\ run[r].of \in Sessions
        /\ StatusLine("Parked") \in Line /\ FinishLine(run[r].out) \in Line
      BY <1>5, LinesTyped DEF HostRecord, HostAt, RunsHold, FreeRun, OutDecided, Statuses,
          Ended
  <2>5. mem'[run[r].of].status \in Ended \cup {"Parked"}
      BY <1>5, <2>4, WriteKeeps
      DEF HostRecord, HostAt, OutDecided, StatusLine, FinishLine
  <2>1. RecordsKept
      BY <1>5, <2>4, WriteKeeps
      DEF HostRecord, StatusLine, FinishLine, Answered, Ended, OutDecided, HostAt,
          RecordsKept
  <2>2. RunsKept
      BY <1>5, <2>5
      DEF HostRecord, HostAt, Step, RunOK, Run, Ended, RunsKept
  <2>3. StartsKept
      BY <1>5
      DEF HostRecord, store, handles, main, StartsKept
  <2>. QED
      BY <2>1, <2>2, <2>3, HostedKept
<1>6. ASSUME NEW r \in Runs, HostAnnounce(r) PROVE RunningIsHosted'
  <2>1. RecordsKept
      BY <1>6
      DEF HostAnnounce, HostAt, Room, store, handles, main, RecordsKept
  <2>2. RunsKept
      BY <1>6
      DEF HostAnnounce, HostAt, Room, store, handles, main, RunOK, Run, RunsKept
  <2>3. StartsKept
      BY <1>6
      DEF HostAnnounce, store, handles, main, StartsKept
  <2>. QED
      BY <2>1, <2>2, <2>3, HostedKept
<1>7. ASSUME NEW r \in Runs, PumpPush(r) PROVE RunningIsHosted'
  <2>1. RecordsKept
      BY <1>7, PumpKeeps
      DEF RecordsKept
  <2>2. RunsKept
      BY <1>7, PumpKeeps
      DEF RunsKept
  <2>3. StartsKept
      BY <1>7, PumpKeeps
      DEF StartsKept
  <2>. QED
      BY <2>1, <2>2, <2>3, HostedKept
<1>8. ASSUME NEW r \in Runs, HostUnhandle(r) PROVE RunningIsHosted'
  <2>1. RecordsKept
      BY <1>8
      DEF HostUnhandle, HostAt, Step, store, handles, main, RecordsKept
  <2>2. RunsKept
      BY <1>8
      DEF HostUnhandle, HostAt, Step, store, handles, main, RunOK, Run, RunsKept
  <2>3. StartsKept
      BY <1>8
      DEF HostUnhandle, store, handles, main, StartsKept
  <2>. QED
      BY <2>1, <2>2, <2>3, HostedKept
<1>9. ASSUME NEW r \in Runs, HostEnd(r) PROVE RunningIsHosted'
  <2>1. RecordsKept
      BY <1>9
      DEF HostEnd, HostAt, store, handles, main, RecordsKept
  <2>2. RunsKept
      BY <1>9
      DEF HostEnd, HostAt, store, handles, main, RunOK, Run, RunsKept
  <2>3. StartsKept
      BY <1>9
      DEF HostEnd, store, handles, main, StartsKept
  <2>. QED
      BY <2>1, <2>2, <2>3, HostedKept
<1>10. ASSUME NEW c \in Callers, NEW s \in Sessions, NEW ask \in Grants,
           StartSession(c, s, ask)
       PROVE  RunningIsHosted'
  <2>1. RecordsKept
      BY <1>10
      DEF StartSession, Ready, At, Begin, store, handles, main, WillHost, CallOK, Call,
          StoreOK, NewHeader, Callers, RecordsKept
  <2>2. RunsKept
      BY <1>10
      DEF StartSession, Step, store, handles, main, RunsKept
  <2>3. StartsKept
      BY <1>10
      DEF StartSession, Ready, At, Begin, store, handles, main, CallOK, Call, StartsKept
  <2>. QED
      BY <2>1, <2>2, <2>3, HostedKept
<1>11. ASSUME NEW c \in Callers, NEW s \in Sessions,
           MessageLive(c, s)
       PROVE  RunningIsHosted'
  <2>1. RecordsKept
      BY <1>11
      DEF MessageLive, Asks, Ready, At, Begin, store, handles, main, RecordsKept
  <2>2. RunsKept
      BY <1>11
      DEF MessageLive, Asks, Ready, At, Begin, store, handles, main, RunOK, Run, HandlesOK,
          RunsKept
  <2>3. StartsKept
      BY <1>11
      DEF MessageLive, Asks, Ready, At, Begin, store, handles, main, CallOK, Call,
          StartsKept
  <2>. QED
      BY <2>1, <2>2, <2>3, HostedKept
<1>12. ASSUME NEW c \in Callers, NEW s \in Sessions,
           MessageParked(c, s)
       PROVE  RunningIsHosted'
  <2>1. RecordsKept
      BY <1>12
      DEF MessageParked, Asks, Ready, At, Begin, store, handles, main, RecordsKept
  <2>2. RunsKept
      BY <1>12
      DEF MessageParked, Step, store, handles, main, RunsKept
  <2>3. StartsKept
      BY <1>12
      DEF MessageParked, Asks, Ready, At, Begin, store, handles, main, CallOK, Call,
          StartsKept
  <2>. QED
      BY <2>1, <2>2, <2>3, HostedKept
<1>13. ASSUME NEW c \in Callers, NEW s \in Sessions, CancelLive(c, s) PROVE RunningIsHosted'
  <2>1. RecordsKept
      BY <1>13
      DEF CancelLive, Asks, Ready, At, store, handles, main, RecordsKept
  <2>2. RunsKept
      BY <1>13
      DEF CancelLive, Asks, Ready, At, store, handles, main, RunOK, Run, HandlesOK, RunsKept
  <2>3. StartsKept
      BY <1>13
      DEF CancelLive, store, handles, main, StartsKept
  <2>. QED
      BY <2>1, <2>2, <2>3, HostedKept
<1>14. ASSUME NEW c \in Callers, NEW s \in Sessions,
           CancelStored(c, s)
       PROVE  RunningIsHosted'
  <2>1. RecordsKept
      BY <1>14
      DEF CancelStored, Asks, Ready, At, Begin, store, handles, main, RecordsKept
  <2>2. RunsKept
      BY <1>14
      DEF CancelStored, Step, store, handles, main, RunsKept
  <2>3. StartsKept
      BY <1>14
      DEF CancelStored, Asks, Ready, At, Begin, store, handles, main, CallOK, Call,
          StartsKept
  <2>. QED
      BY <2>1, <2>2, <2>3, HostedKept
<1>15. ASSUME NEW c \in Callers, NEW s \in Sessions, Park(c, s) PROVE RunningIsHosted'
  <2>1. RecordsKept
      BY <1>15
      DEF Park, Asks, Ready, At, Begin, store, handles, main, RecordsKept
  <2>2. RunsKept
      BY <1>15
      DEF Park, Step, store, handles, main, RunsKept
  <2>3. StartsKept
      BY <1>15
      DEF Park, Asks, Ready, At, Begin, store, handles, main, CallOK, Call, StartsKept
  <2>. QED
      BY <2>1, <2>2, <2>3, HostedKept
<1>16. ASSUME NEW c \in Callers, NEW s \in Sessions, Await(c, s) PROVE RunningIsHosted'
  <2>1. RecordsKept
      BY <1>16
      DEF Await, Asks, Ready, At, Begin, store, handles, main, RecordsKept
  <2>2. RunsKept
      BY <1>16
      DEF Await, Step, store, handles, main, RunsKept
  <2>3. StartsKept
      BY <1>16
      DEF Await, Asks, Ready, At, Begin, store, handles, main, CallOK, Call, StartsKept
  <2>. QED
      BY <2>1, <2>2, <2>3, HostedKept
<1>17. ASSUME NEW c \in Callers, NEW r \in Runs, PutHandle(c, r) PROVE RunningIsHosted'
  <2>1. RecordsKept
      BY <1>17
      DEF PutHandle, At, Unused, FreeRun, store, handles, main, RecordsKept
  <2>2. RunsKept
      BY <1>17
      DEF PutHandle, At, Unused, FreeRun, store, handles, main, RunOK, Run, RunsKept
  <2>3. StartsKept
      BY <1>17
      DEF PutHandle, At, Unused, FreeRun, store, handles, main, CallOK, Call, WillHost,
          RunOK, Run, StartsKept
  <2>. QED
      BY <2>1, <2>2, <2>3, HostedKept
<1>18. ASSUME NEW c \in Callers, Launch(c) PROVE RunningIsHosted'
  <2>1. RecordsKept
      BY <1>18
      DEF Launch, At, End, Step, IdleCall, store, handles, main, RecordsKept
  <2>2. RunsKept
      BY <1>18
      DEF Launch, At, End, Step, IdleCall, store, handles, main, RunOK, Run, CallsHold,
          LaunchOwns, Launching, RunsKept
  <2>3. StartsKept
      BY <1>18
      DEF Launch, At, End, Step, IdleCall, store, handles, main, CallOK, Call, StartsKept
  <2>. QED
      BY <2>1, <2>2, <2>3, HostedKept
<1>19. ASSUME NEW c \in Callers, Echo(c) PROVE RunningIsHosted'
  <2>4. call[c].s \in Sessions /\ Answered \in Line
      BY <1>19, LinesTyped DEF Echo, At, CallsHold, Statuses, Ended
  <2>1. RecordsKept
      BY <1>19, <2>4, WriteKeeps
      DEF Echo, StatusLine, FinishLine, Answered, Ended, OutDecided, HostAt, RecordsKept
  <2>2. RunsKept
      BY <1>19
      DEF Echo, Step, store, handles, main, RunsKept
  <2>3. StartsKept
      BY <1>19
      DEF Echo, At, End, IdleCall, store, handles, main, CallOK, Call, StartsKept
  <2>. QED
      BY <2>1, <2>2, <2>3, HostedKept
<1>20. ASSUME NEW c \in Callers, Resume(c) PROVE RunningIsHosted'
  <2>1. RecordsKept
      BY <1>20
      DEF Resume, At, Go, End, IdleCall, store, handles, main, RecordsKept
  <2>2. RunsKept
      BY <1>20
      DEF Resume, Step, store, handles, main, RunsKept
  <2>3. StartsKept
      BY <1>20
      DEF Resume, At, Go, End, IdleCall, store, handles, main, CallOK, Call, StartsKept
  <2>. QED
      BY <2>1, <2>2, <2>3, HostedKept
<1>21. ASSUME NEW c \in Callers, Answer(c) PROVE RunningIsHosted'
  <2>4. call[c].s \in Sessions /\ Answered \in Line
      BY <1>21, LinesTyped DEF Answer, At, CallsHold, Statuses, Ended
  <2>1. RecordsKept
      BY <1>21, <2>4, WriteKeeps
      DEF Answer, StatusLine, FinishLine, Answered, Ended, OutDecided, HostAt, RecordsKept
  <2>2. RunsKept
      BY <1>21
      DEF Answer, Step, store, handles, main, RunsKept
  <2>3. StartsKept
      BY <1>21
      DEF Answer, At, Go, store, handles, main, CallOK, Call, StartsKept
  <2>. QED
      BY <2>1, <2>2, <2>3, HostedKept
<1>22. ASSUME NEW c \in Callers, Cancel(c) PROVE RunningIsHosted'
  <2>1. RecordsKept
      BY <1>22
      DEF Cancel, At, Go, End, IdleCall, store, handles, main, RecordsKept
  <2>2. RunsKept
      BY <1>22
      DEF Cancel, Step, store, handles, main, RunsKept
  <2>3. StartsKept
      BY <1>22
      DEF Cancel, At, Go, End, IdleCall, store, handles, main, CallOK, Call, StartsKept
  <2>. QED
      BY <2>1, <2>2, <2>3, HostedKept
<1>23. ASSUME NEW c \in Callers, FinishParked(c) PROVE RunningIsHosted'
  <2>4. call[c].s \in Sessions /\ FinishLine("Cancelled") \in Line
      BY <1>23, LinesTyped DEF FinishParked, At, CallsHold, Statuses, Ended
  <2>1. RecordsKept
      BY <1>23, <2>4, WriteKeeps
      DEF FinishParked, StatusLine, FinishLine, Answered, Ended, OutDecided, HostAt,
          RecordsKept
  <2>2. RunsKept
      BY <1>23
      DEF FinishParked, Step, store, handles, main, RunsKept
  <2>3. StartsKept
      BY <1>23
      DEF FinishParked, At, Go, store, handles, main, CallOK, Call, StartsKept
  <2>. QED
      BY <2>1, <2>2, <2>3, HostedKept
<1>24. ASSUME NEW c \in Callers, PublishCancelled(c) PROVE RunningIsHosted'
  <2>1. RecordsKept
      BY <1>24
      DEF PublishCancelled, At, Publish, store, handles, main, RecordsKept
  <2>2. RunsKept
      BY <1>24
      DEF PublishCancelled, Step, store, handles, main, RunsKept
  <2>3. StartsKept
      BY <1>24
      DEF PublishCancelled, At, Publish, store, handles, main, CallOK, Call, IdleCall,
          Woken, StartsKept
  <2>. QED
      BY <2>1, <2>2, <2>3, HostedKept
<1>25. ASSUME NEW c \in Callers, Intend(c) PROVE RunningIsHosted'
  <2>1. RecordsKept
      BY <1>25
      DEF Intend, At, Go, store, handles, main, RecordsKept
  <2>2. RunsKept
      BY <1>25
      DEF Intend, Step, store, handles, main, RunsKept
  <2>3. StartsKept
      BY <1>25
      DEF Intend, At, Go, store, handles, main, CallOK, Call, StartsKept
  <2>. QED
      BY <2>1, <2>2, <2>3, HostedKept
<1>26. ASSUME NEW c \in Callers, Signal(c) PROVE RunningIsHosted'
  <2>1. RecordsKept
      BY <1>26
      DEF Signal, At, End, IdleCall, store, handles, main, RecordsKept
  <2>2. RunsKept
      BY <1>26
      DEF Signal, At, End, IdleCall, store, handles, main, RunOK, Run, CallsHold, RunsKept
  <2>3. StartsKept
      BY <1>26
      DEF Signal, At, End, IdleCall, store, handles, main, CallOK, Call, StartsKept
  <2>. QED
      BY <2>1, <2>2, <2>3, HostedKept
<1>27. ASSUME NEW c \in Callers, AwaitReturn(c) PROVE RunningIsHosted'
  <2>1. RecordsKept
      BY <1>27
      DEF AwaitReturn, At, End, IdleCall, store, handles, main, RecordsKept
  <2>2. RunsKept
      BY <1>27
      DEF AwaitReturn, Step, store, handles, main, RunsKept
  <2>3. StartsKept
      BY <1>27
      DEF AwaitReturn, At, End, IdleCall, store, handles, main, CallOK, Call, StartsKept
  <2>. QED
      BY <2>1, <2>2, <2>3, HostedKept
<1>28. ASSUME NEW s \in Sessions, Reconcile(s) PROVE RunningIsHosted'
  <2>1. RecordsKept
      BY <1>28
      DEF Reconcile, Visit, Begin, Resumable, MainIdle, At, store, handles, main,
          RecordsKept
  <2>2. RunsKept
      BY <1>28
      DEF Reconcile, Step, store, handles, main, RunsKept
  <2>3. StartsKept
      BY <1>28
      DEF Reconcile, Visit, Begin, Resumable, MainIdle, At, store, handles, main, CallOK,
          Call, StartsKept
  <2>. QED
      BY <2>1, <2>2, <2>3, HostedKept
<1>29. ASSUME NEW s \in Sessions, DrainPark(s) PROVE RunningIsHosted'
  <2>1. RecordsKept
      BY <1>29
      DEF DrainPark, Visit, Begin, MainIdle, At, store, handles, main, RecordsKept
  <2>2. RunsKept
      BY <1>29
      DEF DrainPark, Step, store, handles, main, RunsKept
  <2>3. StartsKept
      BY <1>29
      DEF DrainPark, Visit, Begin, MainIdle, At, store, handles, main, CallOK, Call,
          StartsKept
  <2>. QED
      BY <2>1, <2>2, <2>3, HostedKept
<1>30. ASSUME NEW s \in Sessions, ForceCheck(s) PROVE RunningIsHosted'
  <2>1. RecordsKept
      BY <1>30
      DEF ForceCheck, Visit, Begin, MainIdle, At, store, handles, main, RecordsKept
  <2>2. RunsKept
      BY <1>30
      DEF ForceCheck, Step, store, handles, main, RunsKept
  <2>3. StartsKept
      BY <1>30
      DEF ForceCheck, Visit, Begin, MainIdle, At, store, handles, main, CallOK, Call,
          StartsKept
  <2>. QED
      BY <2>1, <2>2, <2>3, HostedKept
<1>31. CASE ForcePark
  <2>4. call[Main].s \in Sessions /\ StatusLine("Parked") \in Line
      BY <1>31, LinesTyped DEF ForcePark, At, CallsHold, Callers, Statuses, Ended
  <2>1. RecordsKept
      BY <1>31, <2>4, WriteKeeps
      DEF ForcePark, StatusLine, FinishLine, Answered, Ended, OutDecided, HostAt,
          RecordsKept
  <2>2. RunsKept
      BY <1>31
      DEF ForcePark, Step, store, handles, main, RunsKept
  <2>3. StartsKept
      BY <1>31
      DEF ForcePark, At, End, IdleCall, store, handles, main, CallOK, Call, StartsKept
  <2>. QED
      BY <2>1, <2>2, <2>3, HostedKept
<1>32. CASE StopProcess
    BY <1>32, RestoredKeeps
    DEF StopProcess, Enter, store, handles, main, RunningIsHosted, StoreOK
<1>33. CASE UNCHANGED <<mem, run, call>>
    BY <1>33
    DEF RunningIsHosted
<1>. QED
  <2>1. CASE \E r \in Runs : HostStep(r)
      BY <2>1, <1>1, <1>2, <1>3, <1>4, <1>5, <1>6, <1>7, <1>8, <1>9
      DEF HostStep
  <2>2. CASE \E c \in Callers : CallStep(c)
      BY <2>2, <1>10, <1>11, <1>12, <1>13, <1>14, <1>15, <1>16, <1>17, <1>18, <1>19, <1>20,
          <1>21, <1>22, <1>23, <1>24, <1>25, <1>26, <1>27
      DEF CallStep
  <2>3. CASE MainStep
      BY <2>3, <1>28, <1>29, <1>30, <1>31, <1>33
      DEF MainStep, Serve, BeginDrain, EndGrace, EndSettle, EndDrain, store, handles, main,
          Visit, Enter
  <2>4. CASE \E a \in Actors : AppendLine(a) \/ LoseLine(a)
      BY <2>4, <1>33
      DEF AppendLine, LoseLine, store, handles, main
  <2>5. CASE StopProcess
      BY <2>5, <1>32
  <2>6. CASE UNCHANGED vars
      BY <2>6, <1>33
      DEF vars, store, handles, main
  <2>. QED
      BY <2>1, <2>2, <2>3, <2>4, <2>5, <2>6 DEF Next

(* Every way to human input looks at the grant.                              *)
LEMMA NeverUnaskedKept == IInv /\ [Next]_vars => NeverUnasked'
<1>. SUFFICES ASSUME IInv, [Next]_vars PROVE NeverUnasked'
    OBVIOUS
<1>. USE DEF IInv, TypeOK
<1>1. ASSUME NEW r \in Runs, HostRun(r) PROVE NeverUnasked'
  <2>1. run[r].of \in Sessions /\ StatusLine("Running") \in Line
      BY <1>1, LinesTyped DEF HostRun, HostAt, RunsHold, FreeRun, Statuses, Ended
  <2>2. \A s \in Sessions : mem'[s].ask = mem[s].ask
      BY <1>1, <2>1, WriteKeeps DEF HostRun
  <2>. QED
      BY <1>1, <2>1, <2>2, ZenonT(60) DEF HostRun, HostAt, Step, store, handles, main, NeverUnasked,
          RunOK, Run, CallOK, Call, IdleCall
<1>2. ASSUME NEW r \in Runs, HostAsk(r) PROVE NeverUnasked'
    BY <1>2, HubAssumption
    DEF HostAsk, HostAt, Room, store, handles, main, NeverUnasked, RunOK, Run, StoreOK,
        CallOK, Call, Callers, IdleCall
<1>3. ASSUME NEW r \in Runs, HostHear(r) PROVE NeverUnasked'
    BY <1>3, HubAssumption
    DEF HostHear, HostAt, store, handles, main, NeverUnasked, RunOK, Run, StoreOK, CallOK,
        Call, Callers, IdleCall
<1>4. ASSUME NEW r \in Runs, NEW out \in Outcomes \cup {"Parked", "Cancelled"},
           HostReturn(r, out)
       PROVE  NeverUnasked'
    BY <1>4, HubAssumption
    DEF HostReturn, HostAt, Disposition, store, handles, main, NeverUnasked, RunOK, Run,
        StoreOK, CallOK, Call, Callers, IdleCall
<1>5. ASSUME NEW r \in Runs, HostRecord(r) PROVE NeverUnasked'
  <2>1. /\ run[r].of \in Sessions
        /\ StatusLine("Parked") \in Line /\ FinishLine(run[r].out) \in Line
      BY <1>5, LinesTyped DEF HostRecord, HostAt, RunsHold, FreeRun, OutDecided, Statuses,
          Ended
  <2>2. \A s \in Sessions : mem'[s].ask = mem[s].ask
      BY <1>5, <2>1, WriteKeeps DEF HostRecord
  <2>. QED
      BY <1>5, <2>1, <2>2, SMTT(60) DEF HostRecord, HostAt, Step, store, handles, main, NeverUnasked,
          RunOK, Run, CallOK, Call, IdleCall
<1>6. ASSUME NEW r \in Runs, HostAnnounce(r) PROVE NeverUnasked'
    BY <1>6, HubAssumption
    DEF HostAnnounce, HostAt, Room, store, handles, main, NeverUnasked, RunOK, Run, StoreOK,
        CallOK, Call, Callers, IdleCall
<1>7. ASSUME NEW r \in Runs, PumpPush(r) PROVE NeverUnasked'
    BY <1>7, PumpKeeps
    DEF NeverUnasked, handles
<1>8. ASSUME NEW r \in Runs, HostUnhandle(r) PROVE NeverUnasked'
    BY <1>8, HubAssumption
    DEF HostUnhandle, HostAt, Step, store, handles, main, NeverUnasked, RunOK, Run, StoreOK,
        CallOK, Call, Callers, IdleCall
<1>9. ASSUME NEW r \in Runs, HostEnd(r) PROVE NeverUnasked'
    BY <1>9, HubAssumption
    DEF HostEnd, HostAt, store, handles, main, NeverUnasked, RunOK, Run, StoreOK, CallOK,
        Call, Callers, FreeRun, IdleCall, CallsHold, Woken
<1>10. ASSUME NEW c \in Callers, NEW s \in Sessions, NEW ask \in Grants,
           StartSession(c, s, ask)
       PROVE  NeverUnasked'
    BY <1>10, HubAssumption
    DEF StartSession, Ready, At, Begin, store, handles, main, NeverUnasked, RunOK, Run,
        StoreOK, CallOK, Call, Callers, NewHeader, Known, AskKnown, IdleCall
<1>11. ASSUME NEW c \in Callers, NEW s \in Sessions, MessageLive(c, s) PROVE NeverUnasked'
    BY <1>11, HubAssumption
    DEF MessageLive, Asks, Ready, At, Begin, store, handles, main, NeverUnasked, RunOK, Run,
        StoreOK, CallOK, Call, Callers, HandlesOK, HandlesAreLive, IdleCall
<1>12. ASSUME NEW c \in Callers, NEW s \in Sessions, MessageParked(c, s) PROVE NeverUnasked'
    BY <1>12, HubAssumption
    DEF MessageParked, Asks, Ready, At, Begin, store, handles, main, NeverUnasked, RunOK,
        Run, StoreOK, CallOK, Call, Callers, IdleCall
<1>13. ASSUME NEW c \in Callers, NEW s \in Sessions, CancelLive(c, s) PROVE NeverUnasked'
    BY <1>13, HubAssumption
    DEF CancelLive, Asks, Ready, At, store, handles, main, NeverUnasked, RunOK, Run,
        StoreOK, CallOK, Call, Callers, HandlesOK, IdleCall
<1>14. ASSUME NEW c \in Callers, NEW s \in Sessions, CancelStored(c, s) PROVE NeverUnasked'
    BY <1>14, HubAssumption
    DEF CancelStored, Asks, Ready, At, Begin, store, handles, main, NeverUnasked, RunOK,
        Run, StoreOK, CallOK, Call, Callers, IdleCall
<1>15. ASSUME NEW c \in Callers, NEW s \in Sessions, Park(c, s) PROVE NeverUnasked'
    BY <1>15, HubAssumption
    DEF Park, Asks, Ready, At, Begin, store, handles, main, NeverUnasked, RunOK, Run,
        StoreOK, CallOK, Call, Callers, IdleCall
<1>16. ASSUME NEW c \in Callers, NEW s \in Sessions, Await(c, s) PROVE NeverUnasked'
    BY <1>16, HubAssumption
    DEF Await, Asks, Ready, At, Begin, store, handles, main, NeverUnasked, RunOK, Run,
        StoreOK, CallOK, Call, Callers, IdleCall
<1>17. ASSUME NEW c \in Callers, NEW r \in Runs, PutHandle(c, r) PROVE NeverUnasked'
    BY <1>17, HubAssumption
    DEF PutHandle, At, Unused, FreeRun, store, handles, main, NeverUnasked, RunOK, Run,
        StoreOK, CallOK, Call, Callers, IdleCall, CallsHold, Woken
<1>18. ASSUME NEW c \in Callers, Launch(c) PROVE NeverUnasked'
    BY <1>18, HubAssumption
    DEF Launch, At, End, Step, IdleCall, store, handles, main, NeverUnasked, RunOK, Run,
        StoreOK, CallOK, Call, Callers, LaunchOwns, Launching, CallsHold
<1>19. ASSUME NEW c \in Callers, Echo(c) PROVE NeverUnasked'
  <2>1. call[c].s \in Sessions /\ Answered \in Line
      BY <1>19, LinesTyped DEF Echo, At, CallsHold, Statuses, Ended
  <2>2. \A s \in Sessions : mem'[s].ask = mem[s].ask
      BY <1>19, <2>1, WriteKeeps DEF Echo
  <2>. QED
      BY <1>19, <2>1, <2>2 DEF Echo, At, End, IdleCall, store, handles, main, NeverUnasked,
          RunOK, Run, CallOK, Call
<1>20. ASSUME NEW c \in Callers, Resume(c) PROVE NeverUnasked'
  <2>1. CASE mem[call[c].s].ask /\ Go(c, "answer") /\ UNCHANGED <<mem, run, inputs>>
      BY <1>20, <2>1, HubAssumption
      DEF At, Go, End, IdleCall, CallsHold, NeverUnasked, RunOK, Run, StoreOK, CallOK, Call,
          Callers
  <2>2. CASE End(c) /\ UNCHANGED <<mem, run, inputs>>
      BY <1>20, <2>2, HubAssumption
      DEF At, Go, End, IdleCall, CallsHold, NeverUnasked, RunOK, Run, StoreOK, CallOK, Call,
          Callers
  <2>. QED
      BY <1>20, <2>1, <2>2
      DEF Resume, At, store, handles
<1>21. ASSUME NEW c \in Callers, Answer(c) PROVE NeverUnasked'
  <2>1. call[c].s \in Sessions /\ Answered \in Line
      BY <1>21, LinesTyped DEF Answer, At, CallsHold, Statuses, Ended
  <2>2. \A s \in Sessions : mem'[s].ask = mem[s].ask
      BY <1>21, <2>1, WriteKeeps DEF Answer
  <2>. QED
      BY <1>21, <2>1, <2>2 DEF Answer, At, Go, store, handles, main, NeverUnasked, RunOK,
          Run, CallOK, Call, IdleCall
<1>22. ASSUME NEW c \in Callers, Cancel(c) PROVE NeverUnasked'
  <2>1. CASE Go(c, "finish") /\ UNCHANGED <<mem, run, inputs>>
      BY <1>22, <2>1, HubAssumption
      DEF At, Go, End, IdleCall, CallsHold, NeverUnasked, RunOK, Run, StoreOK, CallOK, Call,
          Callers
  <2>2. CASE End(c) /\ UNCHANGED <<mem, run, inputs>>
      BY <1>22, <2>2, HubAssumption
      DEF At, Go, End, IdleCall, CallsHold, NeverUnasked, RunOK, Run, StoreOK, CallOK, Call,
          Callers
  <2>. QED
      BY <1>22, <2>1, <2>2
      DEF Cancel, At, store, handles
<1>23. ASSUME NEW c \in Callers, FinishParked(c) PROVE NeverUnasked'
  <2>1. call[c].s \in Sessions /\ FinishLine("Cancelled") \in Line
      BY <1>23, LinesTyped DEF FinishParked, At, CallsHold, Statuses, Ended
  <2>2. \A s \in Sessions : mem'[s].ask = mem[s].ask
      BY <1>23, <2>1, WriteKeeps DEF FinishParked
  <2>. QED
      BY <1>23, <2>1, <2>2 DEF FinishParked, At, Go, store, handles, main, NeverUnasked,
          RunOK, Run, CallOK, Call, IdleCall
<1>24. ASSUME NEW c \in Callers, PublishCancelled(c) PROVE NeverUnasked'
    BY <1>24, HubAssumption
    DEF PublishCancelled, At, Publish, store, handles, main, NeverUnasked, RunOK, Run,
        StoreOK, CallOK, Call, Callers, FreeRun, IdleCall, CallsHold, Woken
<1>25. ASSUME NEW c \in Callers, Intend(c) PROVE NeverUnasked'
    BY <1>25, HubAssumption
    DEF Intend, At, Go, store, handles, main, NeverUnasked, RunOK, Run, StoreOK, CallOK,
        Call, Callers, IdleCall
<1>26. ASSUME NEW c \in Callers, Signal(c) PROVE NeverUnasked'
    BY <1>26, HubAssumption
    DEF Signal, At, End, IdleCall, store, handles, main, NeverUnasked, RunOK, Run, StoreOK,
        CallOK, Call, Callers, CallsHold
<1>27. ASSUME NEW c \in Callers, AwaitReturn(c) PROVE NeverUnasked'
    BY <1>27, HubAssumption
    DEF AwaitReturn, At, End, IdleCall, store, handles, main, NeverUnasked, RunOK, Run,
        StoreOK, CallOK, Call, Callers
<1>28. ASSUME NEW s \in Sessions, Reconcile(s) PROVE NeverUnasked'
    BY <1>28, HubAssumption
    DEF Reconcile, Visit, Begin, Resumable, MainIdle, At, store, handles, main,
        NeverUnasked, RunOK, Run, StoreOK, CallOK, Call, Callers, IdleCall
<1>29. ASSUME NEW s \in Sessions, DrainPark(s) PROVE NeverUnasked'
    BY <1>29, HubAssumption
    DEF DrainPark, Visit, Begin, MainIdle, At, store, handles, main, NeverUnasked, RunOK,
        Run, StoreOK, CallOK, Call, Callers, IdleCall
<1>30. ASSUME NEW s \in Sessions, ForceCheck(s) PROVE NeverUnasked'
    BY <1>30, HubAssumption
    DEF ForceCheck, Visit, Begin, MainIdle, At, store, handles, main, NeverUnasked, RunOK,
        Run, StoreOK, CallOK, Call, Callers, IdleCall
<1>31. CASE ForcePark
  <2>1. call[Main].s \in Sessions /\ StatusLine("Parked") \in Line
      BY <1>31, LinesTyped DEF ForcePark, At, CallsHold, Callers, Statuses, Ended
  <2>2. \A s \in Sessions : mem'[s].ask = mem[s].ask
      BY <1>31, <2>1, WriteKeeps DEF ForcePark
  <2>. QED
      BY <1>31, <2>1, <2>2 DEF ForcePark, At, End, IdleCall, store, handles, main,
          NeverUnasked, RunOK, Run, CallOK, Call
<1>32. CASE StopProcess
    BY <1>32, RestoredKeeps, HubAssumption
    DEF StopProcess, Enter, store, handles, main, NeverUnasked, FreeRun, IdleCall
<1>33. CASE UNCHANGED <<mem, run, inputs, call>>
    BY <1>33
    DEF NeverUnasked
<1>. QED
  <2>1. CASE \E r \in Runs : HostStep(r)
      BY <2>1, <1>1, <1>2, <1>3, <1>4, <1>5, <1>6, <1>7, <1>8, <1>9
      DEF HostStep
  <2>2. CASE \E c \in Callers : CallStep(c)
      BY <2>2, <1>10, <1>11, <1>12, <1>13, <1>14, <1>15, <1>16, <1>17, <1>18, <1>19, <1>20,
          <1>21, <1>22, <1>23, <1>24, <1>25, <1>26, <1>27
      DEF CallStep
  <2>3. CASE MainStep
      BY <2>3, <1>28, <1>29, <1>30, <1>31, <1>33
      DEF MainStep, Serve, BeginDrain, EndGrace, EndSettle, EndDrain, store, handles, main,
          Visit, Enter
  <2>4. CASE \E a \in Actors : AppendLine(a) \/ LoseLine(a)
      BY <2>4, <1>33
      DEF AppendLine, LoseLine, store, handles, main
  <2>5. CASE StopProcess
      BY <2>5, <1>32
  <2>6. CASE UNCHANGED vars
      BY <2>6, <1>33
      DEF vars, store, handles, main
  <2>. QED
      BY <2>1, <2>2, <2>3, <2>4, <2>5, <2>6 DEF Next

(* Until the start is done nothing is hosted and only the main task acts.   *)
LEMMA BootQuietKept == IInv /\ [Next]_vars => BootQuiet'
<1>. SUFFICES ASSUME IInv, [Next]_vars, phase' = "boot" PROVE BootQuiet'
    BY DEF BootQuiet
<1>. USE DEF IInv, TypeOK
<1>1. CASE StopProcess
  <2>1. \A s \in Sessions : mem'[s] = Restored(disk[s]) /\ Restored(disk[s]) \in Header
      BY <1>1, RestoredTyped DEF StopProcess, StoreOK
  <2>2. \A s \in Sessions : Known(mem'[s]) => Over(mem'[s]) \/ mem'[s].status = "Parked"
      BY <2>1, RestoredKeeps DEF Known, Over, Header, Statuses, StoreOK
  <2>. QED
      BY <1>1, <2>2 DEF StopProcess, Enter, BootQuiet, Callers, IdleCall
<1>2. CASE phase = "boot" /\ ~StopProcess
  <2>1. /\ \A r \in Runs : run[r] = FreeRun
        /\ \A c \in Clients : call[c].at = "idle"
        /\ call[Main].at \in {"idle", "finish", "publish"}
      BY <1>2 DEF BootQuiet, IdleCall
  <2>2. Main \in Callers /\ Clients \subseteq Callers /\ Main \notin Clients
      BY HubAssumption DEF Callers
  <2>3. ASSUME NEW r \in Runs, HostStep(r) PROVE FALSE
    <3>1. run[r].pc = "free" /\ run[r].queue = <<>>
        BY <2>1 DEF FreeRun
    <3>. QED
        BY <2>3, <3>1
        DEF HostStep, HostRun, HostAsk, HostHear, HostReturn, HostRecord, HostAnnounce,
            PumpPush, HostUnhandle, HostEnd, HostAt
  <2>4. ASSUME NEW c \in Callers, CallStep(c)
        PROVE  c = Main /\ (FinishParked(c) \/ PublishCancelled(c))
      BY <1>2, <2>1, <2>4
      DEF CallStep, StartSession, MessageLive, MessageParked, CancelLive, CancelStored, Park,
          Await, PutHandle, Launch, Echo, Resume, Answer, Cancel, FinishParked,
          PublishCancelled, Intend, Signal, AwaitReturn, Asks, Ready, At, Callers
  <2>5. ASSUME FinishParked(Main) PROVE BootQuiet'
    <3>1. /\ call[Main].s \in Sessions /\ FinishLine("Cancelled") \in Line
          /\ call[Main].at = "finish"
        BY <2>2, <2>5, LinesTyped DEF FinishParked, At, CallsHold, Statuses, Ended
    <3>2. \A s \in Sessions : IF s = call[Main].s THEN mem'[s].status = "Cancelled"
                              ELSE mem'[s] = mem[s]
        BY <2>5, <3>1, WriteKeeps DEF FinishParked, FinishLine
    <3>3. call'[Main].at = "publish" /\ \A d \in Clients : call'[d] = call[d]
        BY <2>2, <2>5 DEF FinishParked, Go, CallOK, Call
    <3>4. UNCHANGED <<run, phase, todo>>
        BY <2>5 DEF FinishParked, main
    <3>. QED
        BY <1>2, <3>1, <3>2, <3>3, <3>4 DEF BootQuiet, Over, Ended, Known
  <2>6. ASSUME PublishCancelled(Main) PROVE BootQuiet'
    <3>. DEFINE calls == [call EXCEPT ![Main] = IdleCall]
    <3>1. /\ call' = Woken(call[Main].s, calls) /\ call[Main].at = "publish"
          /\ UNCHANGED <<run, mem, phase, todo>>
        BY <2>6 DEF PublishCancelled, Publish, At, main
    <3>2. calls \in [Callers -> Call] /\ calls[Main].at = "idle"
        BY <2>2 DEF CallOK, Call, IdleCall
    <3>3. \A d \in Clients : calls[d] = call[d] /\ calls[d].at = "idle"
        BY <2>1, <2>2 DEF CallOK
    <3>4. call'[Main].at = "idle" /\ \A d \in Clients : call'[d] = call[d]
        BY <2>2, <3>1, <3>2, <3>3 DEF Woken
    <3>. QED
        BY <1>2, <3>1, <3>4 DEF BootQuiet
  <2>7. ASSUME NEW s \in Sessions, Reconcile(s) PROVE BootQuiet'
    <3>1. /\ call[Main].at = "idle" /\ todo' = todo \ {s} /\ UNCHANGED <<run, mem, phase>>
          /\ \/ mem[s].ask /\ call' = call
             \/ call' = [call EXCEPT ![Main] = [at |-> "finish", s |-> s, r |-> NoRun]]
        BY <2>7 DEF Reconcile, Visit, Begin, Resumable, MainIdle, At, store
    <3>. QED
        BY <1>2, <2>2, <3>1 DEF BootQuiet, CallOK, Call
  <2>8. ASSUME MainStep PROVE \E s \in Sessions : Reconcile(s)
      BY <1>2, <2>1, <2>8
      DEF MainStep, DrainPark, ForceCheck, Serve, BeginDrain, EndGrace, EndSettle, ForcePark,
          EndDrain, Enter, At
  <2>9. ASSUME NEW a \in Actors, AppendLine(a) \/ LoseLine(a) PROVE BootQuiet'
      BY <1>2, <2>9 DEF AppendLine, LoseLine, BootQuiet, main
  <2>10. CASE UNCHANGED vars
      BY <1>2, <2>10 DEF BootQuiet, vars, main, store
  <2>. QED
      BY <1>2, <2>3, <2>4, <2>5, <2>6, <2>7, <2>8, <2>9, <2>10 DEF Next
<1>3. phase = "boot" \/ StopProcess
  <2>1. CASE \E r \in Runs : HostStep(r)
      BY <2>1
      DEF HostStep, HostRun, HostAsk, HostHear, HostReturn, HostRecord, HostAnnounce,
          PumpPush, HostUnhandle, HostEnd, main
  <2>2. CASE \E c \in Callers : CallStep(c)
    <3>1. PICK c \in Callers : CallStep(c)
        BY <2>2
    <3>2. UNCHANGED main
        BY <3>1
        DEF CallStep, StartSession, MessageLive, MessageParked, CancelLive, CancelStored,
            Park, Await, PutHandle, Launch, Echo, Resume, Answer, Cancel, FinishParked,
            PublishCancelled, Intend, Signal, AwaitReturn
    <3>. QED
        BY <3>2 DEF main
  <2>3. CASE MainStep
      BY <2>3
      DEF MainStep, Reconcile, DrainPark, ForceCheck, Serve, BeginDrain, EndGrace, EndSettle,
          ForcePark, EndDrain, Enter, Visit, main
  <2>4. CASE (\E a \in Actors : AppendLine(a) \/ LoseLine(a)) \/ UNCHANGED vars
      BY <2>4 DEF AppendLine, LoseLine, vars, main
  <2>. QED
      BY <2>1, <2>2, <2>3, <2>4 DEF Next
<1>. QED
    BY <1>1, <1>2, <1>3

-----------------------------------------------------------------------------
(* The start satisfies the invariant.                                       *)
LEMMA InitIInv == Init => IInv
<1>. SUFFICES ASSUME Init PROVE IInv
    OBVIOUS
<1>1. NoHeader \in Header /\ ~Known(NoHeader) /\ ~NoHeader.ask
    BY DEF NoHeader, Header, Known
<1>2. StoreOK
    BY <1>1 DEF Init, StoreOK
<1>3. RunOK
    BY BlankTyped, HubAssumption DEF Init, RunOK
<1>4. HandlesOK /\ CallOK /\ MainOK
    BY HubAssumption DEF Init, HandlesOK, CallOK, Call, MainOK, IdleCall
<1>5. RunsHold /\ CallsHold /\ LaunchOwns /\ OutDecided
    BY DEF Init, RunsHold, CallsHold, LaunchOwns, Launching, OutDecided, FreeRun, IdleCall
<1>6. AskKnown /\ HandlesAreLive /\ RunningIsHosted
    BY <1>1 DEF Init, AskKnown, HandlesAreLive, RunningIsHosted, NoHeader
<1>7. NeverUnasked /\ BootQuiet
    BY <1>1 DEF Init, NeverUnasked, BootQuiet, FreeRun, IdleCall, NoHeader, Callers
<1>. QED
    BY <1>2, <1>3, <1>4, <1>5, <1>6, <1>7 DEF IInv, TypeOK

(* IInv is an inductive invariant of the hub, for any number of sessions,   *)
(* runs and callers (hub.rs, server/src/shutdown.rs, jsonl.rs).             *)
THEOREM Inductive == Spec => []IInv
<1>1. IInv /\ [Next]_vars => IInv'
    BY StoreTyped, RunTyped, HandlesTyped, CallTyped, MainTyped, RunsHoldKept, CallsHoldKept,
       LaunchOwnsKept, OutDecidedKept, AskKnownKept, HandlesAreLiveKept, RunningIsHostedKept,
       NeverUnaskedKept, BootQuietKept DEF IInv, TypeOK
<1>. QED
    BY InitIInv, <1>1, PTL DEF Spec

(* Every variable keeps its type; no channel exceeds its capacity.          *)
THEOREM TypesHold == Spec => []TypeOK
<1>1. IInv => TypeOK
    BY DEF IInv
<1>. QED
    BY Inductive, <1>1, PTL

(* A handle in the hub's maps is always of a run still hosted for that      *)
(* session, although run_session removes handles by session id.             *)
THEOREM HandlesAlwaysLive == Spec => []HandlesAreLive
<1>1. IInv => HandlesAreLive
    BY DEF IInv
<1>. QED
    BY Inductive, <1>1, PTL

(* What is recorded Running or Pending has a task that will record its end, *)
(* whatever resumes, parks, drains and stops came in between.               *)
THEOREM RunningAlwaysHosted == Spec => []RunningIsHosted
<1>1. IInv => RunningIsHosted
    BY DEF IInv
<1>. QED
    BY Inductive, <1>1, PTL

(* No human input ever reaches a session whose grant omits AskHuman.        *)
THEOREM NeverUnaskedAlways == Spec => []NeverUnasked
<1>1. IInv => NeverUnasked
    BY DEF IInv
<1>. QED
    BY Inductive, <1>1, PTL

(* When a start begins to serve, the loop of reconcile_parked_at_startup    *)
(* has left nothing that is neither over nor resumable by a human.          *)
THEOREM BootAlwaysSettles == Spec => BootSettles
<1>. DEFINE Settled ==
        phase = "boot" /\ phase' = "up" =>
            \A s \in Sessions : Known(mem'[s]) =>
               Over(mem'[s]) \/ (mem'[s].status = "Parked" /\ mem'[s].ask)
<1>1. IInv /\ [Next]_vars => [Settled]_vars
    <2>. SUFFICES ASSUME IInv, Next, phase = "boot", phase' = "up"
                  PROVE  \A s \in Sessions : Known(mem'[s]) =>
                            Over(mem'[s]) \/ (mem'[s].status = "Parked" /\ mem'[s].ask)
        OBVIOUS
    <2>1. Serve
        BY DEF Next, HostStep, CallStep, MainStep, HostRun, HostAsk, HostHear, HostReturn,
               HostRecord, HostAnnounce, PumpPush, HostUnhandle, HostEnd, StartSession,
               MessageLive, MessageParked, CancelLive, CancelStored, Park, Await, PutHandle,
               Launch, Echo, Resume, Answer, Cancel, FinishParked, PublishCancelled, Intend,
               Signal, AwaitReturn, Reconcile, DrainPark, ForceCheck, BeginDrain, EndGrace,
               EndSettle, ForcePark, EndDrain, AppendLine, LoseLine, StopProcess, Visit,
               Enter, main
    <2>2. todo = {} /\ call[Main].at = "idle" /\ mem' = mem
        BY <2>1 DEF Serve, MainIdle, At, store
    <2>. QED
        BY <2>2 DEF IInv, BootQuiet
<1>. QED
    BY Inductive, <1>1, PTL DEF Spec, BootSettles
================================================================================
