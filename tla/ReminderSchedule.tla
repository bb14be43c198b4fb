--------------------------- MODULE ReminderSchedule ---------------------------
(***************************************************************************)
(* The cron source (crates/cron) and the daemon's reaction to a schedule   *)
(* whose job is a mechanical reminder (crates/daemon/src/jobs.rs): one     *)
(* timer loop over the next fire of every schedule, the catch-up that      *)
(* replaces a late fire by the latest one since the cursor the outbox      *)
(* keeps, the floor that keeps an instant from being sent twice, and the   *)
(* loop that enqueues the rows of an event and moves the cursor.  The      *)
(* computer may be suspended, and the process may stop, at any step.       *)
(* Instants are numbers, and a schedule is the set of instants it names.   *)
(***************************************************************************)
EXTENDS Naturals, Sequences, FiniteSets

CONSTANTS
    Schedules, NoSchedule,
    Reminding,      \* those whose job is in MECHANICAL_REMINDER_JOBS
    Fires,          \* the instants each schedule names
    Window,         \* [reminders].once_within
    MaxScan,        \* how many fires a catch-up looks at (512 in the code)
    MaxTime,        \* bound on the clock
    MaxSleeps,      \* bound on suspensions of the computer
    MaxStops,       \* bound on stops of the process
    MaxCuts         \* bound on writes of the database that fail

Never == 0
Time == 0 .. MaxTime

ASSUME ScheduleAssumption ==
    /\ NoSchedule \notin Schedules /\ Reminding \subseteq Schedules
    /\ Fires \in [Schedules -> SUBSET (Nat \ {Never})]
    /\ \A n \in Schedules : \A t \in Time : \E f \in Fires[n] : f > t
    /\ Window \in Nat /\ MaxScan \in Nat \ {0} /\ MaxTime \in Nat \ {0}
    /\ MaxSleeps \in Nat /\ MaxStops \in Nat /\ MaxCuts \in Nat

VARIABLES
    now,        \* the clock
    up,         \* whether the process runs
    next,       \* the heap: the next fire of every schedule
    cursor,     \* the outbox's schedule_cursor
    floor,      \* the last instant each schedule sent, in memory
    events,     \* the channel to the daemon
    owed,       \* what is enqueued and not yet recorded in the cursor
    sent,       \* history: what each schedule sent since the start
    enqueued,   \* history: how often rows of an instant were enqueued
    overtaken,  \* history: a schedule sent again before its cursor was recorded
    faults      \* history: suspensions, stops and failed writes so far

clock == <<now, up>>
source == <<next, floor, sent>>
daemon == <<events, owed, enqueued>>
history == <<overtaken, faults>>
vars == <<clock, source, cursor, daemon, history>>

Nothing == [of |-> NoSchedule, at |-> Never, stamp |-> Never]

Init ==
    /\ now = 1 /\ up = FALSE
    /\ next = [n \in Schedules |-> Never] /\ cursor = next /\ floor = next
    /\ events = <<>> /\ owed = Nothing
    /\ sent = [n \in Schedules |-> {}]
    /\ enqueued = [n \in Schedules |-> [t \in Time |-> 0]]
    /\ overtaken = FALSE
    /\ faults = [sleeps |-> 0, stops |-> 0, cuts |-> 0]

Fault(kind) == faults' = [faults EXCEPT ![kind] = @ + 1] /\ UNCHANGED overtaken

-----------------------------------------------------------------------------
(* The timer loop.                                                          *)

NextFire(n, t) == CHOOSE f \in Fires[n] : f > t /\ \A g \in Fires[n] : g > t => f <= g

(* The fires a catch-up looks at: at most MaxScan, the oldest first.        *)
Scan(n, c) ==
    {f \in Fires[n] : f > c /\ Cardinality({g \in Fires[n] : c < g /\ g <= f}) <= MaxScan}

(* Mutant: fires that are still to come are looked at too.                  *)
MissedAhead(n) == {f \in Scan(n, cursor[n]) : f + Window >= now}

Missed(n) == {f \in Scan(n, cursor[n]) : f <= now /\ f + Window >= now}

(* Mutant: the oldest missed fire is picked.                                *)
EarliestMissed(n) == CHOOSE f \in Missed(n) : \A g \in Missed(n) : f <= g

Latest(n) == CHOOSE f \in Missed(n) : \A g \in Missed(n) : g <= f

CatchesUp(n) == n \in Reminding /\ Missed(n) # {}
EmitAt(n) == IF CatchesUp(n) THEN Latest(n) ELSE next[n]

(* Mutant: the floor is remembered and never asked.                         *)
NeverBlocked(n) == FALSE

Blocked(n) == n \in Reminding /\ floor[n] = EmitAt(n)

Emit(n) ==
    /\ floor' = [floor EXCEPT ![n] = EmitAt(n)]
    /\ sent' = [sent EXCEPT ![n] = @ \cup {EmitAt(n)}]
    /\ events' = Append(events, [of |-> n, at |-> EmitAt(n), catchUp |-> CatchesUp(n)])

Due(n) == up /\ next[n] <= now /\ \A m \in Schedules : next[n] <= next[m]

Fire(n) ==
    /\ Due(n)
    /\ next' = [next EXCEPT ![n] = NextFire(n, now)]
    /\ IF Blocked(n) THEN UNCHANGED <<floor, sent, events>> ELSE Emit(n)
    /\ UNCHANGED <<clock, cursor, owed, enqueued, history>>

-----------------------------------------------------------------------------
(* The daemon's loop takes one event at a time.  A job may find nothing to  *)
(* say; a schedule without a reminder job dispatches a goal instead.        *)

Serving == up /\ owed = Nothing /\ events # <<>>

ReactQuiet ==
    /\ Serving
    /\ events' = Tail(events)
    /\ UNCHANGED <<clock, source, cursor, owed, enqueued, history>>

(* The rows are committed one by one; the instant the cursor will move to   *)
(* is the one at which the event is handled, for cron_fire_at finds no      *)
(* instant behind the last colon of a correlation id.                       *)
ReactEnqueue ==
    /\ Serving /\ Head(events).of \in Reminding
    /\ LET event == Head(events) IN
          /\ enqueued' = [enqueued EXCEPT ![event.of][event.at] = @ + 1]
          /\ owed' = [of |-> event.of, at |-> event.at, stamp |-> now]
    /\ events' = Tail(events)
    /\ UNCHANGED <<clock, source, cursor, history>>

Record ==
    /\ up /\ owed # Nothing
    /\ cursor' = [cursor EXCEPT ![owed.of] = IF owed.stamp > @ THEN owed.stamp ELSE @]
    /\ overtaken' = (overtaken \/ owed.stamp < floor[owed.of])
    /\ owed' = Nothing
    /\ UNCHANGED <<clock, source, events, enqueued, faults>>

(* The database refuses a row or the cursor: both are logged and forgotten. *)
RecordFails ==
    /\ up /\ owed # Nothing /\ faults.cuts < MaxCuts
    /\ owed' = Nothing
    /\ Fault("cuts")
    /\ UNCHANGED <<clock, source, cursor, events, enqueued>>

-----------------------------------------------------------------------------
(* Time.  A timer that is due fires before the next instant, unless the     *)
(* computer sleeps.                                                         *)

Tick ==
    /\ now < MaxTime /\ \A n \in Schedules : ~Due(n)
    /\ now' = now + 1
    /\ UNCHANGED <<up, source, cursor, daemon, history>>

Suspend ==
    /\ up /\ faults.sleeps < MaxSleeps
    /\ Fault("sleeps")
    /\ now' \in (now + 1) .. MaxTime
    /\ UNCHANGED <<up, source, cursor, daemon>>

(* Seed the cursors of the reminder jobs, then the heap from the clock.     *)
Start ==
    /\ ~up /\ up' = TRUE
    /\ cursor' = [n \in Schedules |->
                     IF n \in Reminding /\ cursor[n] = Never THEN now ELSE cursor[n]]
    /\ next' = [n \in Schedules |-> NextFire(n, now)]
    /\ UNCHANGED <<now, floor, sent, daemon, history>>

(* An enqueue whose cursor is not recorded is cut in two.                   *)
Stop ==
    /\ up /\ faults.stops < MaxStops /\ up' = FALSE
    /\ faults' = [faults EXCEPT !.stops = @ + 1,
                                !.cuts = IF owed = Nothing THEN @ ELSE @ + 1]
    /\ next' = [n \in Schedules |-> Never] /\ floor' = next'
    /\ sent' = [n \in Schedules |-> {}]
    /\ events' = <<>> /\ owed' = Nothing
    /\ UNCHANGED <<now, cursor, enqueued, overtaken>>

Next ==
    \/ \E n \in Schedules : Fire(n)
    \/ ReactQuiet \/ ReactEnqueue \/ Record \/ RecordFails
    \/ Tick \/ Suspend \/ Start \/ Stop

Spec == Init /\ [][Next]_vars

-----------------------------------------------------------------------------
Event == [of : Schedules, at : Time, catchUp : BOOLEAN]

(* Every variable keeps its type, and what is sent lies in the past.        *)
TypeOK ==
    /\ now \in Time \ {Never} /\ up \in BOOLEAN
    /\ next \in [Schedules -> Nat] /\ cursor \in [Schedules -> Time]
    /\ floor \in [Schedules -> Time]
    /\ events \in Seq(Event)
    /\ owed \in [of : Schedules \cup {NoSchedule}, at : Time, stamp : Time]
    /\ sent \in [Schedules -> SUBSET Time]
    /\ enqueued \in [Schedules -> [Time -> Nat]]
    /\ overtaken \in BOOLEAN
    /\ faults \in [sleeps : 0 .. MaxSleeps, stops : 0 .. MaxStops, cuts : 0 .. MaxCuts + MaxStops]

Sends == Len(events') > Len(events)
New == events'[Len(events')]

(* pick_emit_fire and floor_blocks: no schedule sends the same instant      *)
(* twice in the life of a process, although the floor remembers one instant *)
(* only and a catch-up that is cut short picks again what was sent before;  *)
(* unless a cursor was recorded after its schedule had sent again, which    *)
(* moves the scan back over instants the floor has forgotten.               *)
SentOnce == [][Sends /\ ~overtaken => New.at \notin sent[New.of]]_vars

Truncated(n) == \E f \in Fires[n] : cursor[n] < f /\ f <= now /\ f \notin Scan(n, cursor[n])
Pops(n) == up /\ up' /\ next'[n] # next[n]

(* A fire that comes due is sent, or a later one of its schedule is, and no *)
(* fire newer than the cursor and inside the window is passed over, however *)
(* long the computer slept: as long as a catch-up sees all of them.         *)
FireServed ==
    [][\A n \in Reminding : Pops(n) /\ ~Truncated(n) =>
          \E e \in sent'[n] :
             /\ e >= next[n]
             /\ \A f \in Fires[n] :
                   (f > e /\ f > cursor[n]) => (f > now \/ f + Window < now)]_vars

(* The rows of an instant are enqueued once, plus once per enqueue that was *)
(* cut off from its cursor by a stop or by a failed write, however the      *)
(* process stops, starts and sleeps, unless a cursor was overtaken.         *)
EnqueuedOnce ==
    ~overtaken => \A n \in Schedules, t \in Time : enqueued[n][t] <= 1 + faults.cuts
===============================================================================
