# Liberado: a TLA+ verification project

Liberado is a daemon that watches a Markdown vault and a clock, lets language
models act on what it sees under a capability system, asks its owner before
anything consequential, and talks to the owner through chat surfaces, Telegram,
Matrix and Web Push.  This project models its core state machines in TLA+,
checks small instances of them with TLC and proves the most important
properties for every value of the constants with TLAPS.

## The system

| Part | State | Operations | What is hard | Modules |
|---|---|---|---|---|
| Reminder outbox (`crates/outbox`, worker in `daemon/src/reminders`) | one SQLite table of reminders, schedule cursors, push subscriptions | enqueue, pass (prune, read due rows, lease, deliver, mark), resolve, snooze, ack, retry | a crash between a delivery and its record, ids held across awaits, reused row ids, the catch-up quota | `OutboxRows`, `Outbox` |
| Cron source (`crates/cron`, `daemon/src/jobs.rs`) | heap of next fires, floor of the last emission, cursor in the outbox | fire, catch up, enqueue, record the cursor | a computer that sleeps, restarts between emission, enqueue and cursor | `ReminderSchedule` |
| Session hub (`crates/session`) | cancel and input handles of live sessions, park requests | start, run, cancel, park, resume, send_input, drain | a resume during the teardown of the run before, stop signals that mean two things, a drain that races a finish | `SessionHub`, `SessionLife` |
| Session store (`crates/session-store`) | one append-only JSONL log per session, its replayed copy in memory | create, append, events, status, finish, fork, delete, sweep | memory and file are written under different locks; replay after a crash | `SessionLog`, `ChatTurns` |
| Chat turns (`crates/main-agent`) | a log of messages with parents, the running map, one lock per session | host a turn, post one, cancel, compact, fold in a note | aborts at any await, writers that take no lock, a cancel that races the end of a turn | `ChatTurns` |
| Proposals (`daemon/src/proposals.rs`) and the approval bot (`crates/telegram-approvals`, `crates/matrix`) | a note, the approval ledger, the archive | tap, revise, edit, execute, expire, archive | four parties write one note blindly; two surfaces answer one question; expiry races execution | `Proposals` |
| Daemon (`crates/daemon`, `crates/vault`) | debounce table, attribution of writes, event queue | watch, react | its own writes must not trigger it, a human's must | `Proposals`, `ReminderSchedule` |
| MCP supervisor (`crates/mcp`) | connector map and watch, peers, surface, latches | replace, reconcile, connect, hold, probe, release, call | a connect that returns after its peer was replaced; a failed call on an old session | `PeerSupervisor` |
| Dispatcher, orchestrator, executor | none between calls | decide, run a bounded tool loop, gate a call | guards may only lower a decision | |
| Providers, coding pack, clients, tools | outside the daemon's own protocols | | | |

`PROJECT.json` lists every component with its status, and the hazards of the
code with the line where each bites and the properties that cover it.

The parts meet in few places.  Cron emits an event; the daemon turns it into a
mechanical job, which enqueues outbox rows and then records the schedule's
cursor in the same database, or into a background session of the hub.  The
outbox worker runs beside the HTTP handlers that resolve, snooze and retry rows;
they share the table through one connection lock and nothing else.  The hub and
the chat write every session through the store, whose log is all that survives a
restart.  A chat turn calls tools through the supervisor's surface; a call above
its authority becomes a proposal, a note in the vault, and what the human decides
about it reaches the daemon as a change of that note.

## How the parts that are modelled meet the code

### The reminder outbox: `OutboxRows`, `Outbox`

`OutboxRows` is the table as a value: a record per row and one operator per SQL
statement of `rows.rs` and `row_detail.rs` (`Leased`, `Released`, `Accepted`,
`Dead`, `Retried`, `Reopened`, `Resolved`, `Pruned`), the `WHERE` of `due_rows`
(`Due`, `DueNormal`, `DueCatchup`, `CatchupSlices`), the id SQLite gives a new
row (`IsNextId`: one more than the largest id in the table, so a pruned id comes
back), and `plan.rs` (`Overdue`, `Digests`, `Batches`).

A stamp is stored as the ticks that remain until it matters.  The code compares
stamps with the present only, so no clock value is needed and time needs no
bound; `Less(ticks, age)` accounts for statements that write with the `now` of a
pass that began some ticks ago.

`Outbox` is the worker and everybody who shares the table with it.

| Code | Model |
|---|---|
| `run_pass`: prune, `due_rows`, `coalesce`, the loop (`pass.rs` 39-54) | `StartPass`, `TakeDue`, `EndPass`; `pc`, `todo` |
| `apply_one` (`pass.rs` 56-92) | `Hold`, `Lease`, `Deliver`, then `MarkAccepted`, `MarkDead`, `MarkRetry` or `Release`; `batch`, `answer` |
| `release` failing half way (`rows.rs` 142) | `ReleaseSome` |
| an answer that is lost, late or not understood after the channel took the batch, which `deliver` reports as `Retryable` (`delivery.rs` 68-89, 161-174) | `AnswerLost` |
| a stop of the daemon, or a database error, which ends the pass | `Crash`: the table stays, the pass is gone, other channels may be configured |
| `enqueue_mechanical`, `insert_reminder` | `Enqueue` |
| `try_resolve`, `owner_snooze`, `ack`, `retry` | `Resolve`, `Snooze`, `Ack`, `Retry` |
| the passage of time | `Tick` |

Each action is one acquisition of the connection lock, except `Deliver` and
`AnswerLost`, which are the return of an await outside it.  `sends`, `faults` and
`lost` are history: how often a channel took the row, how many stops and failed
writes there were, and how many answers were lost.  The code cannot tell a lost
answer from a refusal, and nothing in the table does either.

### The cron source: `ReminderSchedule`

The other end of the outbox: who enqueues, and when.  An instant is a number and
a schedule is the set of instants it names (`Fires`), so that cron expressions
and time zones are left to their parser while every question of order stays.

| Code | Model |
|---|---|
| the timer loop and its heap (`cron/src/run_loop.rs`) | `Fire` when the earliest `next` is due; `next` |
| `pick_emit_fire`, `missed_fires`, `floor_blocks` (`cron/src/catch_up.rs`) | `Scan`, `Missed`, `Latest`, `EmitAt`, `Blocked`, `Emit`; `floor` |
| the channel to the daemon | `events`; it and `owed` are lost by `Stop` |
| a mechanical job with rows to enqueue, then its cursor (`daemon/src/jobs.rs`) | `ReactEnqueue`, `Record` or `RecordFails`; `owed` |
| a job with nothing to say, or a schedule that dispatches a goal | `ReactQuiet` |
| the start: seed the cursors, arm the heap | `Start` |
| time, a suspended computer, a stop | `Tick`, `Suspend` (the clock jumps, no timer has run), `Stop` |

`Tick` waits for a timer that is due: a timer of the runtime is late only by a
suspension or by the process being down.  The stamp `Record` moves the cursor to
is the instant of `ReactEnqueue`, because `cron_fire_at` never parses the instant
in a correlation id (known divergence 8).  `sent`, `enqueued` and `overtaken` are
history; `overtaken` says that a cursor was recorded after its schedule had sent
again, which moves the next scan back over instants the floor has forgotten.

### The session hub: `SessionLog`, `SessionHub`, `SessionLife`

`SessionLog` is the record of a session as `session-store` keeps it: a header,
the log lines that change it (`Applied`), and what a start makes of the header it
replays (`Restored`: an open question makes it Parked, anything else unfinished
Failed).  A log is represented by the header its lines fold to.

`SessionHub` keeps `mem` (headers in memory), `disk` (what the logs fold to) and
`pen` (lines whose change in memory is done and whose append is not): the store
changes the header under one lock and appends under another, so every write of
the store is two steps, and another task may act in between.

| Code | Model |
|---|---|
| `push_event`, `set_status`, `finish` then `append_line` (`jsonl.rs`) | `Write` inside the action that calls it, then `AppendLine` or `LoseLine` of that actor |
| `run_session`, the host task (`hub.rs` 684-829) | `HostRun`, `HostAsk`, `HostHear`, `HostReturn`, `HostRecord`, `HostAnnounce`, `HostUnhandle`, `HostEnd`; a record of `run` |
| the pump and its bounded channel (`hub.rs` 696-717) | `PumpPush`; `queue` |
| what a raised stop signal means: the removal of the park intent (`hub.rs` 749-751) | `Disposition` inside `HostReturn` |
| `start_inner` and `register_input` (`hub.rs` 183-233, `hub_start.rs`) | `StartSession`, `PutHandle`, `Launch` |
| `goals_message`: `send_input`, else `resume` | `MessageLive`, `Echo`; `MessageParked`, `Resume`, `Answer`, then `PutHandle`, `Launch` |
| `cancel`, of a live or of a stored session | `CancelLive`; `CancelStored`, `Cancel`, `FinishParked`, `PublishCancelled` |
| `park` | `Park`, `Intend`, `Signal` |
| `await_terminal` | `Await`, `AwaitReturn` |
| `reconcile_parked_at_startup` | `Reconcile`, with `FinishParked` by `Main` |
| `drain_for_shutdown` (`server/src/shutdown.rs`), `force_park_still_hosted` | `BeginDrain`, `EndGrace`, `DrainPark`, `EndSettle`, `ForceCheck`, `ForcePark`, `EndDrain` |
| a stop of the process and its restart | `StopProcess` |

`cancels` and `inputs` are the hub's two maps, by session; their values are the
run whose channel they hold.  A run slot in `run` is reused when the run is torn
down and nobody holds a clone of its sender.  `told` is the status the last
`SessionFinished` of a session carried.

What a pack does is not modelled beyond the hub's seam: it may ask, hear, return
any outcome, or stop because its signal is raised.  A pack that waits for input
also returns when the sender of its channel is gone, and an answer is not heard once
the signal is up (`ask` in `coder-agent/src/session_pack.rs` 286-292 races the two and
looks at the signal first).

`SessionLife` is what the hub promises a caller that starts a background session
and awaits it, with no maps, tasks, pumps or logs: a session is recorded, begins,
ends once, and is announced with the outcome it then keeps; a stop of the daemon
may cut short only what was not announced, and leaves nothing Pending or Running.
`SessionHub` refines it by `status <- mem` and `announced <- told`, both hidden
for a session whose grant holds AskHuman (`Background`): an interactive session
may be resumed, and the divergences 3, 4 and 5 concern those.

### One conversation: `ChatTurns`

A conversation is `log`, a sequence of nodes that name their parent; a reader is
shown the path from the newest node to the root (`Path`), from its latest
compaction marker on (`View`).

| Code (`main-agent/src`) | Model |
|---|---|
| `start_or_attach`, the spawn, the abort handle stored after it (`sessions.rs`) | `Host`, `Arm`; `running`, `handle` |
| `cancel_turn` (`cancel_cascade.rs`) | `Cancel` removes the entry, and marks the turn in `aborted` if its handle is there |
| a direct turn of `POST /api/chat`, dropped with its request | `Post`, `Disconnect` |
| an abort, which takes effect at the next await | `Drop`: the lock guard and the place in the queue go with the future |
| the session lock, which is fair | `Enter`, `Granted`; `lock`, `queue` |
| `turn_stream`: load, maybe compact, the user's message, the model, `persist_tail` | `Load`, `Summarized` or `NoSummary`, `Mark`, `Copy`, `Ask`, `Answer` or `Fails`, `Persist`, `Returns` |
| `elision_boundary`, `elide_before_latest_marker` (`compaction.rs`) | `Kept`, `Elidable`, `View` |
| `turn_failure::record`, which reads the leaf again | `FailureReads`, `FailureLands` |
| the end of a hosted turn's task | `Flushed`, `Retire` (by key, whoever's entry is there) |
| `append_note`, `set_profile`, which take no lock | `NoteReads`, `NoteLands` |
| a restart of the daemon | `Restart`: the log is all that is left |

Every action runs from one await to the next.  An answer is a reply, or a tool
call with its result and a reply; more calls in a row add nodes of the same kinds.
Whether a history is long enough to compact is a count of tokens in the code and
a choice in `Load`.

### Proposals: `Proposals`

One proposal of one `kind`, from its note to the archive.  `phase` is 0 before the
deadline, 1 past it and 2 past the reaper's grace.  A note carries the version the
human was shown, and who wrote it last, which is all the attribution of the watcher
depends on.

| Code | Model |
|---|---|
| `PermissionResolver`, under its lock, for permission requests and schedule cards (`resolve.rs`, `resolve_schedule.rs`); `set_status`, under none, for ordinary proposals (`telegram-approvals/src/lib.rs`) | `TapReads`, `TapApplies`, `TapRecords`, `TapWrites`, `TapFails`; `LockFree` |
| a revision by the model, written over whatever the note became | `ReviseReads`, `ReviseWrites`, `ReviseFails` |
| an edit by hand, or a save that changes nothing | `Edit`, `Touch` |
| the quiet period and the attribution of what the path holds then | `Settle`; `dirty`, `queued` |
| the reaction: guards, ledger, deadline again, run, mark, file (`daemon/src/proposals.rs`) | `React`, `ReactorChecks`, `ReactorRechecks`, `Runs`, `RunFails`, `RunRefused`, `ReactorMarksDone`, `ReactorExpires`, `ReactorFiles`, `ReactorFails` |
| the reaper's sweep | `ReaperReads`, `ReaperExpires`, `ReaperFiles`, `ReaperFails` |
| the clock and a stop | `Tick`, `Stop`: what is in flight, the debounced path and the queue are lost |

Every write replaces the path blindly, as `Vault::write` without an expected hash
does.  `done` and `faults` are history; `faults.cuts` counts effects that were cut
off before the note said so.  `Tick` lets a reaction end before the grace passes:
the grace is chosen in the code to be far longer than an execution.

### The MCP supervisor: `PeerSupervisor`

| Code (`crates/mcp/src`) | Model |
|---|---|
| `replace_connectors`: the map under its lock, `bump_peers` after (`factory.rs`) | `Replace`, `Bump`; `connectors`, `owed`, `generation` |
| the last handle of the registry dropped | `DropRegistry` |
| `run_control`: the watch, then the map, then `stale_names` and `new_peers` under the data lock (`supervisor_peer.rs`) | `ReadGeneration`, `ReadConnectors`, `Reconcile`, `Wake`, `StopAll` |
| a peer task: `connect_once`, `mark_degraded`, backoff, `install`, `watch_until_drop`, `uninstall`, release | `Connects`, `ConnectFails`, `MarkDegraded`, `PublishDown`, `BackoffEnds`, `Install`, `PublishUp`, `Drops`, `Probes`, `ProbeAnswers`, `Uninstall`, `Release`, `Ends`; a task is a name and a generation |
| the cancel and death latches | `cancelled`, `tripped` |
| `invoke`: take a session and its latch from the surface, use it without a lock | `Lookup`, `Return` |
| a server that dies | `Dies` |
| `purge_expired_degraded` of the capability catalog | `HalfOpens` |
| the pool, which reports its own calls to the same catalog (`pool.rs` 325-340, 398-413) | `PoolFails`, `PoolRecovers` |

A connect answers or hangs, and so does the probe of a peer that is up but silent: only
the probe of a session whose transport has ended is sure to return (`ProbeFails`).

## What the runs show

| Run | Instance | Result |
|---|---|---|
| `outbox_safety` | two enqueuers, ids 1 and 2, all four answers of a channel, one lost answer, one fault (1.9 million states) | the type invariant; `PassHoldsOpenRows`, `SendsBounded`, `SnoozeKeyFree`, `ResolvedStaysQuiet` hold |
| `outbox_settles` | two targets, either of which may stay unready, ordinary and catch-up rows with a quota of one, a channel that never accepts, retries, one fault at any step (698 thousand states) | `Settles` holds under fairness |
| `hub_safety` | one session of either grant, one client that starts, answers, parks and awaits it, the drain and its forced park, one stop, one lost line (788 thousand states) | the type invariant; `NeverUnasked`, `RunningIsHosted`, `BootSettles` hold, `StopEnds` under fairness |
| `hub_resume` | two clients that start, answer and cancel one session, two runs that may overlap, one stop (903 thousand states) | `HandlesAreLive`, `RunningIsHosted` hold; the hub implements `SessionLife` |
| `hub_answers` | two clients that answer one parked session, two runs | `HostedIsCounted` fails |
| `reminder_schedule` | a schedule of every instant and a sparse one, each with a reminder; one suspension of any length, one stop, one failed write (1.9 million states) | the type invariant; `EnqueuedOnce`, `SentOnce`, `FireServed` hold |
| `proposals` | two taps, each kind, one revision, two things that fail, stop or are done by hand (3.5 million states) | the type invariant; `RunsPerApproval`, `RunsWhatWasShown`, `OneDecision`, `DeniedStands`, `GrantFollowsDecision` hold |
| `proposals_settle` | one tap, otherwise the same | `ApprovedRuns`, `ExpiredCloses` hold under fairness |
| `peers` | one name, one change of the map, two sessions, one call, a pool that may report anything at any time | the type invariant; `SurfaceOwned`, `OneTask`, `NothingLeaks`, `LeavesForCause` hold, `Converges`, `DeadLeaves`, `ConnectedIsRouted` under fairness |
| `chat_turns` | a hosted turn, a direct one, a note, a history of one turn, one restart (414 thousand states) | the type invariant; `TurnsDontFork`, `ResultsHaveCalls`, `EntryHasTask` hold, `StoppedTurnsEnd`, `WaitersAreLetIn` under fairness |
| `proposals_taps` | two taps on an ordinary proposal | `RejectionStands` fails |
| `chat_notes` | one turn, one note | `NotesAreRead` fails |

### Bounds

- **Row ids.** Two are enough for prune to remove a row beside the follow-up that
  mentions it and for an id to be given out again, for a digest of two rows, and for a
  pass that holds one row while another changes.
- **Ticks of the outbox.** A lease, a backoff, lateness and retention are one tick or
  none: only the order in which stamps are reached matters, and `Tick` may come between
  any two steps.  `Horizon` bounds the age of a pass at which all its stamps are
  reached.
- **Attempts.** Two, so that a first failure retries and a second one gives up.
- **Faults.** One stop at any step of the outbox and the hub; the proofs remove this
  bound.  Two in `Proposals`, so that what one fault left behind meets another.
- **Lost answers.** One in `outbox_safety`, beside one fault, so that a reminder can be
  sent for each of them; the proofs are for any number.
- **The catch-up quota** is one, and with two rows a held row can fill it.  `Settles` is
  about the rows the held ones leave room for: see divergence 1.
- **The channel** of `outbox_settles` never accepts, which is the worst case for a row
  that is to be settled: it goes through lease, backoff and a second attempt to its end,
  where any other answer would settle it sooner.  A channel that is ready and yet always
  answers `Unconfigured` would release its rows for ever; `readiness` and `deliver` read
  the same configuration.
- **The clock of the schedules** runs to 8 with a window of 2 and scans of 2 fires:
  a sleep can be longer than the window, a catch-up can see several fires, a scan
  can end before it has seen them all, and a cursor can be recorded after its
  schedule sent again (without that condition both `SentOnce` and `EnqueuedOnce`
  fail in this instance).  The proofs are for any clock, window and scan.
- **Sessions.** One.  The hub's maps are keyed by session, a run belongs to one
  session and nothing in the hub relates two, so the races are those of several
  tasks on the same session.  The proofs are for any number.
- **Runs and clients.** In `hub_resume` and `hub_answers` two run slots let a resumed run
  overlap the teardown of the one before, and two clients let two answers overlap.  In
  `hub_safety` one of each meets the drain, the restart and the lost line; the proofs put
  them all together, for any number.
- **Channels.** Capacity one for the pump (64 in the code) and the inbox (16):
  the states that matter are empty, full and in between for one message.
- **Taps and revisions.** Two taps are two surfaces, or two answers of one; one
  revision makes a shown version stale.
- **Peers.** One name, because nothing in the supervisor relates two; one change makes
  a task superseded, two sessions make a name be served again.  With two changes and
  three sessions safety holds over 2.1 million states, and the liveness properties
  hold with two changes over 491 thousand; the proofs are for any number.
- **Turns.** A hosted and a direct one, which differ in how they are aborted; the
  history of one turn lets the second compact.  With two hosted turns and the direct
  one the safety properties hold over 5.4 million states.
- **Symmetry** is used for keys, clients, runs and taps, in runs without liveness only.

### Fairness

`Settles` assumes that the worker loop takes another step whenever it can (it is
a `tokio` task in an endless loop, and every channel call has a timeout), and that
time passes; `Tick` needs strong fairness because it is disabled for the moment
between `prune` and `due_rows`.  Nothing is assumed of owners or enqueuers; the
property itself leaves out behaviours in which the owner presses retry, or another
catch-up row comes in, for ever.

`StopEnds` assumes weak fairness of the host and pump tasks and of their appends, of a
call between its handle and the spawn (`Launch`: nothing is awaited there but the hub's
own maps), and that a pack which waits for its human returns when its signal is raised
(`HostStopped`; `ask` races the two, `coder-agent/src/session_pack.rs` 286).  Nothing is
assumed of a pack that is at work.  The contract of `DomainPackRunner::run` asks it to
poll the signal, but the packs do so between steps only (`dispatch-pack/src/lib.rs` 357,
417 and 436), a step may be a model call, and that call has no timeout (divergence 17);
so the property says of a run told to stop that it is torn down, or that its pack stays
at work for ever.  Nothing is assumed of other callers or of the main task.

`ApprovedRuns` and `ExpiredCloses` assume weak fairness of a tap that has begun, of
the quiet period, of the daemon's loop and of the reaper.  The human owes nothing:
no tap is ever due, and neither is the deadline.  A reaper whose interval is configured
to zero is switched off (`daemon/src/proposals.rs` 538), and `ExpiredCloses` says nothing
of such a daemon.

`Converges`, `DeadLeaves` and `ConnectedIsRouted` assume weak fairness of a bump that
is owed, of the control task and of each peer task, and of the purge of the catalog,
which every routing query makes.  A connect may hang for ever, a call may never
return, and `list_tools`, which is the probe, has no timeout of its own
(`supervisor_peer.rs` 163-168): a probe is sure to answer only where the transport has
ended, as in `DeadLeaves`.  `ConnectedIsRouted` is about behaviours in which the pool
reports failures for some time only, since one that keeps failing keeps the name out.
It then says that marks end: the tasks of a name, of which the superseded ones run out,
can mark it degraded a finite number of times after the surface shows its session for
good, and the purge undoes the last mark.  It breaks when a superseded task goes on
(mutant `TripsNone`) as well as when nothing purges (`NeverHalfOpens`).

`StoppedTurnsEnd` and `WaitersAreLetIn` assume weak fairness of each turn between its
awaits.  The model may never answer: the provider's client is built without a
timeout (`provider-openai-compat/src/lib.rs` 84).  `WaitersAreLetIn` says so in its
conclusion, and `StoppedTurnsEnd` needs no answer, because an abort is heard at the await.
It is about turns whose abort handle was there when they were stopped: a cancel in the
moment before takes the entry and aborts nothing, which the code accepts (`sessions.rs`
1275).

Deadlock is checked in the outbox.  The other configurations turn the check off:
a session that is over, a clock at its bound, a filed proposal, a supervisor
without its registry or a conversation nobody speaks in is a state in which the
system may really stay.

## What is proved

Every invariant, every action property and the refinement of the passing runs are
proved; only their liveness is not. TLAPS checks eight modules of proofs for every
value of the constants that satisfies the named assumptions: `TableAssumption` and
`WorkerAssumption` (outbox), `GrantsAssumption` and `HubAssumption` (hub),
`ScheduleAssumption`, `ProposalsAssumption`, `SupervisorAssumption`, `ChatAssumption`
and `HistoryAssumption`. They say what the constants are, that bounds are natural
numbers, that every schedule has a fire after every instant of the clock, and that a
conversation does not begin with a tool result whose call is missing or belongs to an
earlier question (`persist_tail` writes the call first, under its question). Each
component has one inductive invariant, a lemma per action that it is kept, and theorems
that state the invariants and action properties of the runs. Where a later theorem
needs more, it adds to that invariant and proves only what it added.

**Outbox** (`OutboxProofs`). `PassHoldsOpenRows` is not inductive alone: it needs
`PassPhase` (what the pass holds at each point) and `BatchesPartition` (a digest and the
single rows share nothing). `SendsBounded` needs `SendsAccounted`: a send that is
recorded, or about to be, is the one the reminder is allowed, and any other is paid for
by a fault or a lost answer. `AttemptsLimited` needs `AttemptsAccounted`: a row that is
open and not being sent has a try left or a fault to show for it. `SnoozeKeyFree` needs
`FollowUpsNewer`: a follow-up has a larger id than the row it came from, so prune cannot
hand out that row's id while the follow-up is in the table. `AttemptsLimited` and
`DeliveredForGood` are proved and have no run of their own.

**Cron source** (`ReminderScheduleProofs`).  `Past` bounds what is remembered by the
clock, `Ahead` says that the heap is beyond everything sent and enqueued, `Newest`
that the floor is the newest instant sent.  `Covered` is the heart of `SentOnce`:
the floor is not past the cursor, or a scan finds it, or whatever a scan finds is
out of the window.  It is kept by an emission because a scan is a prefix of the
fires since the cursor (`ScanIsPrefix`), and by a record because, unless the
cursor was overtaken, its stamp has reached the floor.  `Accounted` gives
`EnqueuedOnce`: an instant that still waits in the channel, or that a scan may
still find, was enqueued before only when a fault cut its cursor off; it needs
`Distinct`, that no two waiting events are of one instant, which in turn is
`SentOnce`.  `FireServed` follows from what a catch-up picks (`LatestPicked`).

**Hub** (`SessionHubProofs`).

- `RunsHold`, `CallsHold`: a slot in use belongs to a session, a call under way
  is about one.
- `LaunchOwns`: a run that is made and not launched belongs to one call.
  `HandlesAreLive` rests on it, because the launch registers the input sender of
  a run the caller looked up earlier, and so does `RunningIsHosted`, because a
  Pending session is hosted by the run that call will launch.
- `OutDecided`: a pack that returned left a status to record, so `HostRecord`
  never leaves a session Running behind.
- `AskKnown`: a session never started has no grant, in memory or on disk.  With
  `HandlesAreLive` it gives `NeverUnasked` across restarts.
- `BootQuiet`: before the process serves, nothing is hosted, nobody calls, and a
  parked session without the grant is still to be reconciled.  `BootSettles` is
  its consequence at the step that ends the start.

The lemma `HostedKept` says once what every step must preserve for
`RunningIsHosted`, and each action is shown to keep it.

**The hub implements `SessionLife`** (`SessionHubLifeProofs`).  `KeepsLife` is the
refinement for any number of sessions, runs, callers and stops.  Its hypothesis
`Undisturbed` says that no background session is asked to park, that the drain forces
none to be parked, and that no line is lost; attended sessions may be parked, and
every race between starts, hosts, pumps, appends, cancels and stops stays.  The
hypothesis is needed: a parked background session is one that nobody may resume and
that anyone may cancel, a second time if two do, and a start forgets what a lost line
said.  The steps:

- `RInv` relates what one background session is in five places.  `OneRun` and
  `OneStart`: at most one run or one start is at work on it, and its place says what
  is recorded.  `LinesAgree` and `LogAgrees`: a pending line says what memory says,
  and an outcome in the log is the outcome in memory.  `LoggedFirst` and `QueueEnds`:
  an outcome is in the log, or about to be, before its announcement is made, and the
  pump holds it only while the run waits.  `GivesUp`: only a start finds such a
  session parked.  `ToldAgrees`: what was announced is what memory and log say.
- A step either records nothing (`Hop`, one lemma for all of them), or is about one
  session (`Untouched` says what it leaves the others, `OneSession` puts the sessions
  together again); each of the ten recording actions has a lemma of its own.
- Each recording step is one step of `SessionLife`; a hop is a stutter (`LifeStep`).

`CalmKeepsLife` has no hypothesis about the behaviour: where clients do not park,
nothing drains and the disk takes every line, `Undisturbed` holds.  Those are the
constants of `hub_resume`, for any number of everything else.  From the same
invariant follow `AnnouncedIsRecorded`, and `AnnouncedStands`: once the end of a
background session was announced, no later step, a restart included, changes it or
what was announced.  These two have no run of their own.

**Conversation** (`ChatTurnsProofs`).  `LockHeld` makes the lock and the turn past it
the same thing, so that `OnTip` can say: since the turn with the lock read the leaf,
or wrote last, notes alone were appended.  `TurnsDontFork` is what `OnTip` leaves at
each append.  `Tailed` and `Answered` relate what a turn has left to write to what
the log holds of it, part by part, and give `AnswersStandWhole`, which
has no run of its own.  `EntryInFlight`
gives `EntryHasTask`.  `QueueWaits` says that the turns in the queue are those that
wait, each once; `LockIsHandedOn` concludes that a turn that waits is behind a turn in
flight, or that the lock is free for the head of the queue: no abort, failure, return
or restart leaks it.  That is the part of `WaitersAreLetIn` that is not fairness.

**What a conversation shows** (`ChatViewProofs`).  `ResultsHaveCalls` is about the path
from the newest node to the root, and the invariant has to be about the path from
every node, because a note may make any node the parent of the newest one.  `Called`
says that the path from a result holds its call, with no marker and no question in
between where a reader could start; `KeptWhole` that what a compaction has still to
copy holds no result that would be left without its call, or has the copy of the call
on the path already; `Sourced` that a copy is of a message.  `Path` is a recursive
function: that one exists, what it is at each node and that an append does not change
it (`TrailExists`, `TrailChain`, `TrailGrows`) is shown with the least node for which
it would fail, since there is no induction to cite.

**Proposals** (`ProposalsProofs`).  `Credit` counts: what has run, what is running,
what the note allows to run, and what recorded approvals are about to allow never
exceed the approvals, cuts and edits.  `FirstWins` says that under the resolver's
lock one tap decides and after it none; `Denied` that whatever may run was told so;
`Shown` that its version is one a tap approved; `Granted` that a standing grant
comes from a tap that asked for one.  `Versioned` and `Approvals` tie them to the
note and the ledger.  `Remembered` gives `ApprovalsAreKept`: after a human was told
that a permission request is approved, and before its deadline, a fault or an edit,
it ran, or note and ledger say approved and the watcher, the queue or the loop has
it.  That is the part of `ApprovedRuns` that is not fairness: no wake-up is lost.

**MCP supervisor** (`PeerSupervisorProofs`).  `Generated` (the generation the control
task is about to spawn has no tasks yet) and `PeersRun` (a task runs exactly as long
as its slot is there or its latch is tripped) give `OnePeer` and `OneTask`; `HeldOnce`
(an open session is held by one task, at the places that shut it down) gives
`NothingLeaks`; `Shown` gives `SurfaceOwned`, and `Caused` gives `LeavesForCause`.
`MapSeen` (what was read last is the map, or a bump is still to come) gives
`MapIsServed`: a control task with nothing left to hear has exactly the peers of the
map, which is the part of `Converges` that is not fairness.

Only model-checked: liveness (`Settles`, `StopEnds`, `ApprovedRuns`, `ExpiredCloses`,
`Converges`, `DeadLeaves`, `ConnectedIsRouted`, `StoppedTurnsEnd`, `WaitersAreLetIn`),
which the prover cannot reach. Some of the invariants above were checked by TLC before
they were proved, on the constants of the run of their component: `RInv` over 903
thousand states, `VInv` over 414 thousand, `QueueWaits` with two hosted turns and a
direct one over 2.1 million, `Remembered` over 3.5 million, `MapSeen` with two names
over 9.2 million.

## Known divergences

What the code does and a comment or document of the repository does not say, or
says otherwise.  The three runs that expect a violation show numbers 5 and 7.

1. Catch-up rows of a channel that is not ready fill the quota of every pass; a row
   whose channel is ready is never delivered (`outbox/src/rows.rs` 115; ADR-0020,
   line 38).  `outbox_settles` reaches it; `Settles` is about the other rows.
2. `retry` makes a dead row pending, but its token is gone and no pass can pick it
   (`rows.rs` 226; `api.md` 414).  `Settles` excepts such a row.
3. `force_park_still_hosted` parks a session that finished after it looked
   (`session/src/hub.rs` 668, against 653).
4. A question the pump pushes after `finish` marks a finished session as awaiting
   input (`hub.rs` 711, against `jsonl.rs` 1033).
5. Two answers start two runs of a session; the first teardown removes the handle of
   the second run, which no cancel and no drain reaches any more (`HostedIsCounted`;
   `hub.rs` 489 and 825, against 613).
6. A session between its record and its handle, or one resumed during the drain, is
   left Running until the next start repairs it (`server/src/shutdown.rs` 199,
   against 197).
7. An approving and a rejecting tap on an ordinary proposal are both confirmed, and it
   may run (`RejectionStands`).  A note folded in during a turn drops off the path
   that is read (`NotesAreRead`).
8. `cron_fire_at` takes what follows the last colon of `cron:{name}:{rfc3339}`, which
   is never an instant (`daemon/src/helpers.rs` 29): the cursor and the due time are
   the instant of handling.
9. A catch-up looks at 512 fires (`cron/src/catch_up.rs` 48).  When a scan is cut
   short it picks the last fire it saw; the floor then blocks that pick, and newer
   fires with it, until they leave the window.  When a cursor is recorded after its
   schedule had sent again, the scan goes back over instants the floor, which
   remembers one, has forgotten, and one is sent twice.  With the window in hours and
   schedules of minutes neither is common; `FireServed` excepts the first, `SentOnce`
   and `EnqueuedOnce` the second.
10. `park` may leave its intent behind for the next run of the session (`hub.rs` 457
    and 750), and `await_terminal` returns on the `SessionFinished` of a run that was
    parked (`hub.rs` 264).
11. A note that says approved by an edit is refused for want of a ledger entry
    (`daemon/src/proposals.rs` 242-252), while `to_note` tells the reader to edit it
    (`common/src/proposal.rs` 275, and the comment at 286).
12. A schedule card is applied before anything of it is stored
    (`telegram-approvals/src/resolve_schedule.rs` 77): a failed write leaves it pending
    and applied, and the next tap applies it again.
13. A cancelled turn past its last await removes the entry of the turn that replaced it
    (`main-agent/src/sessions.rs` 1266; the comment at 1275 accepts the worst case it
    names, which is another).
14. `publish` appends to the replay and then broadcasts, so a client that attaches
    between the two sees the event twice, not once (`sessions.rs` 252-258).
15. An aborted `persist_tail` leaves tool calls without their results on the path, and so
    does an abort while a compaction copies its tail (`sessions.rs` 1783-1807).
16. A check-in of the MCP pool overwrites the runtime of a concurrent one
    (`mcp/src/pool.rs` 256), and one checked out before `replace_connectors` is checked
    in after it (`factory.rs` 170).
17. The provider's client has no timeout (`provider-openai-compat/src/lib.rs` 84): a
    turn may wait for ever, and its session with it, until it is cancelled.  A run of a
    pack may too, and a cancel does not end it: packs look at their signal between steps,
    where `runner.rs` 198 has them poll it.
18. A channel that took a reminder and whose answer was lost or late is reported as
    `Retryable` (`daemon/src/reminders/delivery.rs` 68-89 and 161-174): the reminder is
    sent again with no stop of the daemon.  `SendsBounded` counts such answers.

## Not modelled

The models cover the protocols that several tasks, processes or crashes take part in.
Most of the repository's lines are elsewhere: providers, tools, the coding pack,
clients and evaluation are sequential code around I/O and language models, whose
state is local to a call and whose mistakes are those of parsing and wording.

- Outbox: the fan-out of one reminder to every push subscription and the deletion of a
  subscription that is gone, schema migration, wording, `auth_stale` notices,
  `clear_resolution` (no caller), steps of the wall clock.  The order of batches
  within a pass is left open.
- Cron: cron expressions, civil time and zones, what a job finds to say, startup
  snapshots, a cursor read that fails.
- Hub: sub-sessions of the coding pack, forks and rewinds, deletion, incognito
  sessions, SSE subscribers, chat turns in the drain, an HTTP handler that is dropped in
  the middle of a hub call (it may leave a record or a handle without a host), a pack
  that panics.  The alert for an unwatched question is a delay of the pump.
- Store: a log line the replay cannot parse, a log whose header is missing, titles.
- Conversations: the pick of a model, titles, deletion, the replay buffer and its
  subscribers, the cascade of a cancel into the hub, an append the store refuses, a turn
  that panics: its task unwinds past `sessions.rs` 1266 and leaves its entry behind.
- Proposals: the integrity signature, how the risk gate writes one, notes that do not
  parse, free-text replies and choice cards, the notice to other surfaces.
- Daemon: paths outside `proposals/` and their goals, the loss and restart of the
  watcher, the audit log that attribution reads.
- MCP: the pool of batch runs, but for the health it reports.  The wait for the first wave of connects only reads what
  the supervisor model has.
- Components with status `not_modelled` in `PROJECT.json`, with the reason there.

## Plan

Written, in this order: the outbox (the state that must survive a restart and is
shared without a transaction), the session hub and its log (the tasks with the most
interleavings), its abstract specification `SessionLife`, the cron source, proposals,
the MCP supervisor, conversations, and the proofs of each.

To come, by what each would add:

1. `ConversationLog`: deletion against a late append, forks, and the order of the log
   against the order in memory for two writers (`jsonl.rs` 904 and 243).
2. `PushTargets`: subscriptions, the fan-out, deletion by a stale id; a refinement of
   a target's answers in `Outbox`.
3. `ConnectorPool`: the pool of batch runs and divergence 16.
4. The composition of `ReminderSchedule` and `Outbox` through `enqueue_mechanical` and
   the keys that make an enqueue idempotent.
5. The deduplication of transactions in the Matrix application service, and the
   decision guards as pure operators against a reference definition.
6. Proofs: `AnnouncedStands` for attended sessions that nobody resumes, and the parts
   of `Settles` and `StopEnds` that are not fairness.
7. Panics of turns and packs, and callers that go away in the middle of a call.
