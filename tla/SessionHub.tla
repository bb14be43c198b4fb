------------------------------ MODULE SessionHub ------------------------------
(***************************************************************************)
(* The goal-session hub (crates/session/src/hub.rs) over the session log:  *)
(* the task that hosts a run of a session and the pump that carries its    *)
(* events into the store, the callers that start, answer, park, cancel,    *)
(* resume and await it through the HTTP API or from other tasks, and the   *)
(* daemon's own main task, which reconciles parked sessions at a start and *)
(* drains the hub at a shutdown.  The process may stop at any step.  Each  *)
(* step is one lock of one map; a change of the store is two, the header   *)
(* in memory and the line in the log, because no lock spans both.          *)
(***************************************************************************)
EXTENDS SessionLog, Naturals, Sequences

CONSTANTS
    Sessions, NoSession,
    Runs, NoRun,        \* slots for runs that are hosted at the same time
    Clients, Main,      \* callers of the hub; Main is the daemon's own task
    Requests,           \* the calls clients make
    Outcomes,           \* what a pack may return besides a cancel
    QueueSize,          \* the pump's channel (64 in the code)
    InboxSize,          \* INPUT_CHANNEL_CAPACITY (16 in the code)
    Drains,             \* whether the process is ever asked to shut down
    MaxStops,           \* bound on restarts
    MaxLost             \* bound on appends the disk refuses

ASSUME HubAssumption ==
    /\ NoSession \notin Sessions /\ NoRun \notin Runs /\ Main \notin Clients
    /\ Requests \subseteq {"message", "cancel", "park", "await"}
    /\ Outcomes \subseteq Ended
    /\ QueueSize \in Nat \ {0} /\ InboxSize \in Nat \ {0}
    /\ Drains \in BOOLEAN /\ MaxStops \in Nat /\ MaxLost \in Nat

Callers == Clients \cup {Main}

VARIABLES
    mem,      \* the headers in memory
    disk,     \* the headers the logs fold to
    pen,      \* lines whose change in memory is done and whose append is not
    told,     \* the status of the last SessionFinished published
    run,      \* the hosted runs
    cancels,  \* whose stop signal the hub holds, by session
    inputs,   \* whose input sender the hub holds, by session
    parkReq,  \* the park intents
    call,     \* where each caller is in its call
    phase,    \* what the main task is doing
    todo,     \* the sessions its loop has still to visit
    faults    \* history: stops and lost lines so far

store == <<mem, disk, pen, told>>
handles == <<cancels, inputs>>
main == <<phase, todo>>
vars == <<store, run, handles, parkReq, call, main, faults>>

FreeRun == [pc |-> "free", of |-> NoSession, stop |-> FALSE,
            queue |-> <<>>, inbox |-> 0, out |-> "Absent"]
IdleCall == [at |-> "idle", s |-> NoSession, r |-> NoRun]

Host(r) == <<"host", r>>
Pump(r) == <<"pump", r>>
Caller(c) == <<"caller", c>>

Init ==
    /\ mem = [s \in Sessions |-> NoHeader] /\ disk = mem
    /\ pen = {} /\ told = [s \in Sessions |-> "Absent"]
    /\ run = [r \in Runs |-> FreeRun]
    /\ cancels = [s \in Sessions |-> NoRun] /\ inputs = cancels
    /\ parkReq = {}
    /\ call = [c \in Callers |-> IdleCall]
    /\ phase = "boot" /\ todo = {}
    /\ faults = [stops |-> 0, lost |-> 0]

-----------------------------------------------------------------------------
(* The store.  Whoever has changed a header appends its line before it does *)
(* anything else, but others may act in between.                            *)

Busy(a) == \E p \in pen : p.by = a

Write(a, s, line) ==
    /\ mem' = [mem EXCEPT ![s] = Applied(@, line)]
    /\ pen' = pen \cup {[by |-> a, s |-> s, line |-> line]}
    /\ UNCHANGED <<disk, told>>

AppendLine(a) ==
    /\ \E p \in pen :
          /\ p.by = a
          /\ pen' = pen \ {p}
          /\ disk' = [disk EXCEPT ![p.s] = Applied(@, p.line)]
    /\ UNCHANGED <<mem, told, run, handles, parkReq, call, main, faults>>

(* The append is best effort: what the disk refuses is logged and dropped.  *)
LoseLine(a) ==
    /\ faults.lost < MaxLost
    /\ faults' = [faults EXCEPT !.lost = @ + 1]
    /\ \E p \in pen : p.by = a /\ pen' = pen \ {p}
    /\ UNCHANGED <<mem, disk, told, run, handles, parkReq, call, main>>

(* SessionFinished reaches the bus; whoever awaits the session wakes.       *)
Woken(s, calls) ==
    [c \in Callers |-> IF calls[c].at = "waiting" /\ calls[c].s = s
                       THEN [calls[c] EXCEPT !.at = "woken"] ELSE calls[c]]

Publish(s, st, calls) ==
    /\ told' = [told EXCEPT ![s] = st]
    /\ call' = Woken(s, calls)
    /\ UNCHANGED <<mem, disk, pen>>

-----------------------------------------------------------------------------
(* A hosted run and the pump of its events.                                 *)

HostAt(r, pcs) == run[r].pc \in pcs /\ ~Busy(Host(r))
Step(r, pc) == run' = [run EXCEPT ![r].pc = pc]
(* Mutant: the pump's channel has no bound.                                 *)
RoomAlways(r) == TRUE

Room(r) == Len(run[r].queue) < QueueSize

HostRun(r) ==
    /\ HostAt(r, {"spawned"})
    /\ Step(r, "running")
    /\ Write(Host(r), run[r].of, StatusLine("Running"))
    /\ UNCHANGED <<handles, parkReq, call, main, faults>>

(* The pack asks its human and waits for the answer.                        *)
HostAsk(r) ==
    /\ HostAt(r, {"running"}) /\ Room(r)
    /\ run' = [run EXCEPT ![r].pc = "asked", ![r].queue = Append(@, "asked")]
    /\ UNCHANGED <<store, handles, parkReq, call, main, faults>>

(* ask() looks at the signal again before it takes the answer.              *)
HostHear(r) ==
    /\ HostAt(r, {"asked"}) /\ run[r].inbox > 0 /\ ~run[r].stop
    /\ run' = [run EXCEPT ![r].pc = "running", ![r].inbox = @ - 1]
    /\ UNCHANGED <<store, handles, parkReq, call, main, faults>>

(* A pack gives up when its stop signal is set, or when it waits for input  *)
(* and the sender of either channel is gone.                                *)
Orphaned(r) ==
    \/ inputs[run[r].of] # r /\ run[r].inbox = 0
    \/ cancels[run[r].of] # r /\ \A c \in Callers : call[c].r # r

(* Mutant: the signal is polled between steps and not while waiting.        *)
CutBetweenSteps(r) == run[r].stop /\ run[r].pc = "running"

Cut(r) == run[r].stop \/ (run[r].pc = "asked" /\ Orphaned(r))

Disposition(r) == IF run[r].of \in parkReq THEN "Parked" ELSE "Cancelled"

HostReturn(r, out) ==
    /\ HostAt(r, {"running", "asked"})
    /\ out \in Outcomes \/ (Cut(r) /\ out = Disposition(r))
    /\ run' = [run EXCEPT ![r].pc = "decided", ![r].out = out, ![r].inbox = 0]
    /\ parkReq' = parkReq \ {run[r].of}
    /\ UNCHANGED <<store, handles, call, main, faults>>

HostRecord(r) ==
    /\ HostAt(r, {"decided"})
    /\ Step(r, "recorded")
    /\ Write(Host(r), run[r].of,
             IF run[r].out = "Parked" THEN StatusLine("Parked") ELSE FinishLine(run[r].out))
    /\ UNCHANGED <<handles, parkReq, call, main, faults>>

(* Mutant: the event does not wait for the line in the log.                 *)
HostAnnounceUnlogged(r) ==
    /\ run[r].pc = "recorded" /\ Room(r)
    /\ run' = [run EXCEPT ![r].pc = "closing", ![r].queue = Append(@, "finished")]
    /\ UNCHANGED <<store, handles, parkReq, call, main, faults>>

HostAnnounce(r) ==
    /\ HostAt(r, {"recorded"}) /\ Room(r)
    /\ run' = [run EXCEPT ![r].pc = "closing", ![r].queue = Append(@, "finished")]
    /\ UNCHANGED <<store, handles, parkReq, call, main, faults>>

(* The pump may take its time: it awaits the alert of an unwatched question *)
(* before it pushes the event.                                              *)
PumpPush(r) ==
    /\ run[r].queue # <<>> /\ ~Busy(Pump(r))
    /\ run' = [run EXCEPT ![r].queue = Tail(@)]
    /\ IF Head(run[r].queue) = "asked"
       THEN Write(Pump(r), run[r].of, Asked) /\ UNCHANGED call
       ELSE Publish(run[r].of, run[r].out, call)
    /\ UNCHANGED <<handles, parkReq, main, faults>>

HostUnhandle(r) ==
    /\ HostAt(r, {"closing"}) /\ run[r].queue = <<>> /\ ~Busy(Pump(r))
    /\ Step(r, "unhandled")
    /\ cancels' = [cancels EXCEPT ![run[r].of] = NoRun]
    /\ UNCHANGED <<store, inputs, parkReq, call, main, faults>>

(* Mutant: the teardown leaves the input sender in the map.                 *)
HostEndKeepsInput(r) ==
    /\ HostAt(r, {"unhandled"})
    /\ run' = [run EXCEPT ![r] = FreeRun]
    /\ UNCHANGED <<store, handles, parkReq, call, main, faults>>

HostEnd(r) ==
    /\ HostAt(r, {"unhandled"})
    /\ inputs' = [inputs EXCEPT ![run[r].of] = NoRun]
    /\ run' = [run EXCEPT ![r] = FreeRun]
    /\ UNCHANGED <<store, cancels, parkReq, call, main, faults>>

-----------------------------------------------------------------------------
(* Calls.  They are served once the start is done and until the drain is.   *)

At(c, at) == call[c].at = at /\ ~Busy(Caller(c))
Go(c, at) == call' = [call EXCEPT ![c].at = at]
Begin(c, at, s, r) == call' = [call EXCEPT ![c] = [at |-> at, s |-> s, r |-> r]]
End(c) == call' = [call EXCEPT ![c] = IdleCall]
Ready(c) == c # Main /\ At(c, "idle") /\ phase \notin {"boot", "over"}
Asks(c, request) == Ready(c) /\ request \in Requests

(* A slot no run and no cloned sender refers to.                            *)
Unused(r) == run[r] = FreeRun /\ \A c \in Callers : call[c].r # r

(* start_inner.  The HTTP route is closed once a drain began; background    *)
(* starts, which ask nobody, are not.                                       *)
StartSession(c, s, ask) ==
    /\ Ready(c) /\ ~Known(mem[s])
    /\ phase = "up" \/ ~ask
    /\ mem' = [mem EXCEPT ![s] = NewHeader(ask)]
    /\ disk' = [disk EXCEPT ![s] = NewHeader(ask)]
    /\ Begin(c, "handle", s, NoRun)
    /\ UNCHANGED <<pen, told, run, handles, parkReq, main, faults>>

PutHandle(c, r) ==
    /\ At(c, "handle") /\ Unused(r)
    /\ cancels' = [cancels EXCEPT ![call[c].s] = r]
    /\ run' = [run EXCEPT ![r] = [FreeRun EXCEPT !.pc = "made", !.of = call[c].s]]
    /\ call' = [call EXCEPT ![c].at = "launch", ![c].r = r]
    /\ UNCHANGED <<store, inputs, parkReq, main, faults>>

(* Mutant: the sender is registered whatever the grant says.                *)
LaunchOpen(c) ==
    /\ At(c, "launch")
    /\ inputs' = [inputs EXCEPT ![call[c].s] = call[c].r]
    /\ Step(call[c].r, "spawned")
    /\ End(c)
    /\ UNCHANGED <<store, cancels, parkReq, main, faults>>

(* register_input drops the sender of a session that may not ask.           *)
Launch(c) ==
    /\ At(c, "launch")
    /\ inputs' = IF mem[call[c].s].ask
                 THEN [inputs EXCEPT ![call[c].s] = call[c].r] ELSE inputs
    /\ Step(call[c].r, "spawned")
    /\ End(c)
    /\ UNCHANGED <<store, cancels, parkReq, main, faults>>

(* send_input: the pack holds the receiver until it returns.                *)
MessageLive(c, s) ==
    /\ Asks(c, "message") /\ inputs[s] # NoRun
    /\ run[inputs[s]].pc \in {"made", "spawned", "running", "asked"}
    /\ run[inputs[s]].inbox < InboxSize
    /\ run' = [run EXCEPT ![inputs[s]].inbox = @ + 1]
    /\ Begin(c, "echo", s, NoRun)
    /\ UNCHANGED <<store, handles, parkReq, main, faults>>

Echo(c) ==
    /\ At(c, "echo")
    /\ Write(Caller(c), call[c].s, Answered)
    /\ End(c)
    /\ UNCHANGED <<run, handles, parkReq, main, faults>>

(* goals_message falls through to resume when send_input found it parked.   *)
MessageParked(c, s) ==
    /\ Asks(c, "message") /\ inputs[s] = NoRun /\ mem[s].ask /\ mem[s].status = "Parked"
    /\ Begin(c, "resume", s, NoRun)
    /\ UNCHANGED <<store, run, handles, parkReq, main, faults>>

(* resume reads the record once more and asks the pack, which may refuse.   *)
Resume(c) ==
    /\ At(c, "resume")
    /\ \/ mem[call[c].s].ask /\ mem[call[c].s].status = "Parked" /\ Go(c, "answer")
       \/ End(c)
    /\ UNCHANGED <<store, run, handles, parkReq, main, faults>>

(* Mutant: resume records Running before there is a host.                   *)
AnswerRunning(c) ==
    /\ At(c, "answer")
    /\ Write(Caller(c), call[c].s, StatusLine("Running"))
    /\ Go(c, "handle")
    /\ UNCHANGED <<run, handles, parkReq, main, faults>>

Answer(c) ==
    /\ At(c, "answer")
    /\ Write(Caller(c), call[c].s, Answered)
    /\ Go(c, "handle")
    /\ UNCHANGED <<run, handles, parkReq, main, faults>>

CancelLive(c, s) ==
    /\ Asks(c, "cancel") /\ cancels[s] # NoRun
    /\ run' = [run EXCEPT ![cancels[s]].stop = TRUE]
    /\ UNCHANGED <<store, handles, parkReq, call, main, faults>>

CancelStored(c, s) ==
    /\ Asks(c, "cancel") /\ cancels[s] = NoRun /\ Known(mem[s])
    /\ Begin(c, "cancel", s, NoRun)
    /\ UNCHANGED <<store, run, handles, parkReq, main, faults>>

Cancel(c) ==
    /\ At(c, "cancel")
    /\ IF mem[call[c].s].status = "Parked" THEN Go(c, "finish") ELSE End(c)
    /\ UNCHANGED <<store, run, handles, parkReq, main, faults>>

(* finish_parked_as_cancelled, for a caller and for the start's reconcile.  *)
FinishParked(c) ==
    /\ At(c, "finish")
    /\ Write(Caller(c), call[c].s, FinishLine("Cancelled"))
    /\ Go(c, "publish")
    /\ UNCHANGED <<run, handles, parkReq, main, faults>>

PublishCancelled(c) ==
    /\ At(c, "publish")
    /\ Publish(call[c].s, "Cancelled", [call EXCEPT ![c] = IdleCall])
    /\ UNCHANGED <<run, handles, parkReq, main, faults>>

(* park clones the sender, then leaves the intent, then signals.            *)
Park(c, s) ==
    /\ Asks(c, "park") /\ cancels[s] # NoRun
    /\ Begin(c, "intend", s, cancels[s])
    /\ UNCHANGED <<store, run, handles, parkReq, main, faults>>

Intend(c) ==
    /\ At(c, "intend")
    /\ parkReq' = parkReq \cup {call[c].s}
    /\ Go(c, "signal")
    /\ UNCHANGED <<store, run, handles, main, faults>>

Signal(c) ==
    /\ At(c, "signal")
    /\ run' = IF run[call[c].r].pc = "free" THEN run
              ELSE [run EXCEPT ![call[c].r].stop = TRUE]
    /\ End(c)
    /\ UNCHANGED <<store, handles, parkReq, main, faults>>

(* await_terminal: it returns at once what is over, and waits otherwise.    *)
Await(c, s) ==
    /\ Asks(c, "await") /\ Known(mem[s]) /\ ~Over(mem[s])
    /\ Begin(c, "waiting", s, NoRun)
    /\ UNCHANGED <<store, run, handles, parkReq, main, faults>>

AwaitReturn(c) ==
    /\ At(c, "woken") \/ (At(c, "waiting") /\ Over(mem[call[c].s]))
    /\ End(c)
    /\ UNCHANGED <<store, run, handles, parkReq, main, faults>>

-----------------------------------------------------------------------------
(* The main task.                                                           *)

MainIdle == At(Main, "idle")
Visit(s) == todo' = todo \ {s} /\ UNCHANGED phase
Enter(p, ss) == phase' = p /\ todo' = ss

(* reconcile_parked_at_startup keeps what a human can still resume.         *)
Resumable(s) == mem[s].ask

Reconcile(s) ==
    /\ phase = "boot" /\ MainIdle /\ s \in todo /\ Visit(s)
    /\ \/ Resumable(s) /\ UNCHANGED call
       \/ Begin(Main, "finish", s, NoRun)
    /\ UNCHANGED <<store, run, handles, parkReq, faults>>

Serve ==
    /\ phase = "boot" /\ MainIdle /\ todo = {} /\ Enter("up", {})
    /\ UNCHANGED <<store, run, handles, parkReq, call, faults>>

(* drain_for_shutdown: wait for the hosted sessions, then park the rest.    *)
Hosted == {s \in Sessions : cancels[s] # NoRun}

BeginDrain ==
    /\ Drains /\ phase = "up" /\ Enter("grace", {})
    /\ UNCHANGED <<store, run, handles, parkReq, call, faults>>

EndGrace ==
    /\ phase = "grace"
    /\ IF Hosted = {} THEN Enter("over", {}) ELSE Enter("parking", Hosted)
    /\ UNCHANGED <<store, run, handles, parkReq, call, faults>>

DrainPark(s) ==
    /\ phase = "parking" /\ MainIdle /\ s \in todo /\ Visit(s)
    /\ IF cancels[s] = NoRun THEN UNCHANGED call ELSE Begin(Main, "intend", s, cancels[s])
    /\ UNCHANGED <<store, run, handles, parkReq, faults>>

EndSettle ==
    /\ phase = "parking" /\ MainIdle /\ todo = {} /\ Enter("forcing", Hosted)
    /\ UNCHANGED <<store, run, handles, parkReq, call, faults>>

(* force_park_still_hosted reads the record, then writes it.                *)
ForceCheck(s) ==
    /\ phase = "forcing" /\ MainIdle /\ s \in todo /\ Visit(s)
    /\ IF mem[s].status = "Running" THEN Begin(Main, "force", s, NoRun) ELSE UNCHANGED call
    /\ UNCHANGED <<store, run, handles, parkReq, faults>>

ForcePark ==
    /\ At(Main, "force")
    /\ Write(Caller(Main), call[Main].s, StatusLine("Parked"))
    /\ End(Main)
    /\ UNCHANGED <<run, handles, parkReq, main, faults>>

EndDrain ==
    /\ phase = "forcing" /\ MainIdle /\ todo = {} /\ Enter("over", {})
    /\ UNCHANGED <<store, run, handles, parkReq, call, faults>>

(* The process stops, whatever it was doing, and starts again: the logs are *)
(* replayed and everything else is gone.                                    *)
StopProcess ==
    /\ faults.stops < MaxStops
    /\ faults' = [faults EXCEPT !.stops = @ + 1]
    /\ mem' = [s \in Sessions |-> Restored(disk[s])]
    /\ pen' = {} /\ UNCHANGED <<disk, told>>
    /\ run' = [r \in Runs |-> FreeRun]
    /\ cancels' = [s \in Sessions |-> NoRun] /\ inputs' = cancels'
    /\ parkReq' = {} /\ call' = [c \in Callers |-> IdleCall]
    /\ Enter("boot", {s \in Sessions : mem'[s].status = "Parked"})

-----------------------------------------------------------------------------
HostStep(r) ==
    \/ HostRun(r) \/ HostAsk(r) \/ HostHear(r)
    \/ \E out \in Outcomes \cup {"Parked", "Cancelled"} : HostReturn(r, out)
    \/ HostRecord(r) \/ HostAnnounce(r) \/ PumpPush(r) \/ HostUnhandle(r) \/ HostEnd(r)

CallStep(c) ==
    \/ \E s \in Sessions :
          \/ \E ask \in Grants : StartSession(c, s, ask)
          \/ MessageLive(c, s) \/ MessageParked(c, s) \/ CancelLive(c, s)
          \/ CancelStored(c, s) \/ Park(c, s) \/ Await(c, s)
    \/ \E r \in Runs : PutHandle(c, r)
    \/ Launch(c) \/ Echo(c) \/ Resume(c) \/ Answer(c) \/ Cancel(c) \/ FinishParked(c)
    \/ PublishCancelled(c) \/ Intend(c) \/ Signal(c) \/ AwaitReturn(c)

MainStep ==
    \/ \E s \in Sessions : Reconcile(s) \/ DrainPark(s) \/ ForceCheck(s)
    \/ Serve \/ BeginDrain \/ EndGrace \/ EndSettle \/ ForcePark \/ EndDrain

Actors == {Host(r) : r \in Runs} \cup {Pump(r) : r \in Runs} \cup {Caller(c) : c \in Callers}

Next ==
    \/ \E r \in Runs : HostStep(r)
    \/ \E c \in Callers : CallStep(c)
    \/ MainStep
    \/ \E a \in Actors : AppendLine(a) \/ LoseLine(a)
    \/ StopProcess

Spec == Init /\ [][Next]_vars

(* The runtime polls every task that can go on, and a file write returns.  A *)
(* pack that waits for its human races its stop signal (ask() of the packs); *)
(* one at work polls it between steps only, and may wait in a model call for *)
(* ever.  Of callers, a call that has put its handle goes on to the spawn.   *)
HostStopped(r) ==
    /\ run[r].pc = "asked" /\ run[r].stop
    /\ \E out \in {"Parked", "Cancelled"} : HostReturn(r, out)

Fairness ==
    /\ \A r \in Runs :
        /\ WF_vars(HostRun(r)) /\ WF_vars(HostStopped(r)) /\ WF_vars(HostRecord(r))
        /\ WF_vars(HostAnnounce(r)) /\ WF_vars(PumpPush(r)) /\ WF_vars(HostUnhandle(r))
        /\ WF_vars(HostEnd(r))
        /\ WF_vars(AppendLine(Host(r))) /\ WF_vars(AppendLine(Pump(r)))
    /\ \A c \in Clients : WF_vars(Launch(c))

FairSpec == Spec /\ Fairness

-----------------------------------------------------------------------------
StoreOK ==
    /\ mem \in [Sessions -> Header] /\ disk \in [Sessions -> Header]
    /\ pen \subseteq [by : Actors, s : Sessions, line : Line]
    /\ told \in [Sessions -> Statuses \cup {"Absent"}]

Run == [pc : {"free", "made", "spawned", "running", "asked", "decided", "recorded",
              "closing", "unhandled"},
        of : Sessions \cup {NoSession}, stop : BOOLEAN,
        queue : Seq({"asked", "finished"}), inbox : 0 .. InboxSize,
        out : Ended \cup {"Parked", "Absent"}]

RunOK == run \in [Runs -> Run] /\ \A r \in Runs : Len(run[r].queue) <= QueueSize

HandlesOK ==
    /\ cancels \in [Sessions -> Runs \cup {NoRun}]
    /\ inputs \in [Sessions -> Runs \cup {NoRun}]
    /\ parkReq \subseteq Sessions

Call == [at : {"idle", "handle", "launch", "echo", "resume", "answer", "cancel", "finish",
               "publish", "intend", "signal", "waiting", "woken", "force"},
         s : Sessions \cup {NoSession}, r : Runs \cup {NoRun}]

CallOK == call \in [Callers -> Call]

MainOK ==
    /\ phase \in {"boot", "up", "grace", "parking", "forcing", "over"}
    /\ todo \subseteq Sessions
    /\ faults \in [stops : 0 .. MaxStops, lost : 0 .. MaxLost]

(* Every variable keeps its type: the headers are ones the store can hold,  *)
(* an append is pending for at most what its actor wrote, and no queue      *)
(* exceeds its capacity.                                                    *)
TypeOK == StoreOK /\ RunOK /\ HandlesOK /\ CallOK /\ MainOK

(* A session recorded Running has a task that will record how it ended, and *)
(* one recorded Pending has a task that will run it, whoever answers, parks *)
(* or drains it and wherever the process stopped before: the state "no host *)
(* and no way to act on it" is never in the store.                          *)
RunningIsHosted ==
    \A s \in Sessions :
        /\ mem[s].status = "Running" =>
              \E r \in Runs : run[r].of = s /\ run[r].pc \in {"running", "asked", "decided"}
        /\ mem[s].status = "Pending" =>
              \/ \E r \in Runs : run[r].of = s /\ run[r].pc \in {"made", "spawned"}
              \/ \E c \in Callers : call[c].at = "handle" /\ call[c].s = s

(* A handle in the hub's maps belongs to a run of that session which is     *)
(* still hosted: a drain never waits for, and an answer is never put into,  *)
(* what is gone, though two answers may start two runs of one session and   *)
(* a teardown removes handles by session id.                                *)
HandlesAreLive ==
    \A s \in Sessions :
        /\ cancels[s] # NoRun =>
              run[cancels[s]].of = s /\ run[cancels[s]].pc \notin {"free", "unhandled"}
        /\ inputs[s] # NoRun => run[inputs[s]].of = s /\ run[inputs[s]].pc # "free"

(* A session whose grant omits AskHuman never receives human input: no      *)
(* sender is registered for it by a start, no call resumes it, and none of  *)
(* its runs finds an answer in its channel, also after a restart.           *)
NeverUnasked ==
    \A s \in Sessions : ~mem[s].ask =>
        /\ inputs[s] = NoRun
        /\ \A r \in Runs : run[r].of = s => run[r].inbox = 0
        /\ \A c \in Callers : call[c].s = s => call[c].at \notin {"echo", "resume", "answer"}

(* The hub keeps what SessionLife promises whoever starts a background      *)
(* session, one whose grant omits AskHuman: it runs and ends once, and no   *)
(* cancel, late event or stop of the process changes what was announced.    *)
Background(f) == [s \in Sessions |-> IF mem[s].ask THEN "Absent" ELSE f[s]]

Life == INSTANCE SessionLife WITH
            status <- Background([s \in Sessions |-> mem[s].status]),
            announced <- Background(told)

ImplementsLife == Life!Spec

(* When a start begins to serve, what the stop before left is either over   *)
(* or parked with a human who may still resume it.                          *)
BootSettles ==
    [][phase = "boot" /\ phase' = "up" =>
         \A s \in Sessions : Known(mem'[s]) =>
            Over(mem'[s]) \/ (mem'[s].status = "Parked" /\ mem'[s].ask)]_vars

(* The other half, "How many goal sessions currently have a live host       *)
(* (cancel handle present)": a run that is hosted has a handle, so that a   *)
(* cancel reaches it and a drain waits for it.                              *)
HostedIsCounted ==
    \A r \in Runs : run[r].pc \in {"spawned", "running", "asked"} => cancels[run[r].of] # NoRun

(* A run that was told to stop, by a cancel, a park or a drain, is torn     *)
(* down in the end, its handles included, unless its pack never comes back  *)
(* from what it was doing: neither the wait for its human, nor a full pump, *)
(* nor a lost line keeps it.                                                *)
StopEnds ==
    \A r \in Runs : run[r].stop ~> (run[r].pc = "free" \/ [](run[r].pc = "running"))
===============================================================================
