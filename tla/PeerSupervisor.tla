---------------------------- MODULE PeerSupervisor ----------------------------
(***************************************************************************)
(* The reconnect supervisor behind the chat's MCP tools (crates/mcp:       *)
(* supervisor.rs, supervisor_peer.rs, and the registry's connector map in  *)
(* factory.rs).  One control task turns every change of the connector map  *)
(* into a new generation of peer tasks; a peer task connects, puts its     *)
(* session on the surface the chat reads, holds it until it dies or the    *)
(* task is cancelled, releases it and tries again; calls take a session    *)
(* from the surface and use it without any lock.  Every action is one      *)
(* critical section of one lock, or one await that came back.              *)
(***************************************************************************)
EXTENDS Integers, FiniteSets

CONSTANTS
    Names,        \* the MCP names of topology.toml
    Calls,        \* tool calls the chat may have in flight
    MaxWrites,    \* bound on changes of the connector map
    MaxSessions   \* bound on sessions opened

ASSUME SupervisorAssumption == MaxWrites \in Nat /\ MaxSessions \in Nat

Generations == 0 .. MaxWrites
Sessions == 1 .. MaxSessions
Tasks == Names \X Generations
NoSession == 0

VARIABLES
    connectors,  \* names in the registry's connector map
    owed,        \* writes of the map whose bump_peers() is still to come
    generation,  \* the watch `peer_set`
    dropped,     \* the last handle of the registry is gone
    control,     \* where run_control is
    seen,        \* the generation it read last
    view,        \* the connectors it read last
    peers,       \* SupervisorData.peers, as the tasks its slots stand for
    cancelled,   \* tasks whose cancel latch is tripped
    surface,     \* SupervisorData.surface
    status,      \* SupervisorData.status
    degraded,    \* names the capability catalog keeps from routing
    pc,          \* where each peer task is
    held,        \* the session each task holds
    link,        \* each session: unopened, live, dead, or shut down
    tripped,     \* sessions whose death latch is tripped
    call         \* the session each call in flight took from the surface

registryVars == <<connectors, owed, generation, dropped>>
controlVars == <<control, seen, view>>
dataVars == <<peers, cancelled, surface, status>>
sessionVars == <<held, link, tripped>>
vars == <<registryVars, controlVars, dataVars, degraded, pc, sessionVars, call>>

NameOf(t) == t[1]
Owns(t) == t \in peers /\ t \notin cancelled
Tracked == {NameOf(t) : t \in peers}

Init ==
    /\ connectors \in SUBSET Names /\ owed = 0 /\ generation = 0 /\ dropped = FALSE
    /\ control = "ready" /\ seen = 0 /\ view = {}
    /\ peers = {} /\ cancelled = {}
    /\ surface = [n \in Names |-> NoSession] /\ status = [n \in Names |-> "none"]
    /\ degraded = {}
    /\ pc = [t \in Tasks |-> "none"] /\ held = [t \in Tasks |-> NoSession]
    /\ link = [s \in Sessions |-> "unopened"] /\ tripped = {}
    /\ call = [c \in Calls |-> NoSession]

-----------------------------------------------------------------------------
(* The registry: the map is written under its lock, the watch bumped after.  *)

Replace(names) ==
    /\ ~dropped /\ generation + owed < MaxWrites
    /\ connectors' = names /\ owed' = owed + 1
    /\ UNCHANGED <<generation, dropped, controlVars, dataVars, degraded, pc, sessionVars, call>>

\* Mutant: one write of the map bumps the watch twice.
BumpTwice ==
    /\ owed > 0
    /\ owed' = owed - 1 /\ generation' = generation + 2
    /\ UNCHANGED <<connectors, dropped, controlVars, dataVars, degraded, pc, sessionVars, call>>

Bump ==
    /\ owed > 0
    /\ owed' = owed - 1 /\ generation' = generation + 1
    /\ UNCHANGED <<connectors, dropped, controlVars, dataVars, degraded, pc, sessionVars, call>>

DropRegistry ==
    /\ ~dropped /\ owed = 0
    /\ dropped' = TRUE
    /\ UNCHANGED <<connectors, owed, generation, controlVars, dataVars, degraded, pc,
                   sessionVars, call>>

-----------------------------------------------------------------------------
(* The control task.                                                         *)

\* Mutant: a retired peer's task is not told.
TripsNone(gone) == cancelled

Trips(gone) == cancelled \cup gone

\* retire_locked, for every task of gone.
Retire(gone) ==
    LET names == {NameOf(t) : t \in gone}
    IN  /\ peers' = peers \ gone
        /\ cancelled' = Trips(gone)
        /\ surface' = [n \in Names |-> IF n \in names THEN NoSession ELSE surface[n]]
        /\ status' = [n \in Names |-> IF n \in names THEN "none" ELSE status[n]]

\* Mutant: the connectors are read before the generation they belong to.
ReadBoth ==
    /\ control = "ready" /\ ~dropped
    /\ view' = connectors /\ control' = "read"
    /\ UNCHANGED <<registryVars, seen, dataVars, degraded, pc, sessionVars, call>>

ReadGenerationLast ==
    /\ control = "read"
    /\ seen' = generation /\ control' = "viewed"
    /\ UNCHANGED <<registryVars, view, dataVars, degraded, pc, sessionVars, call>>

ReadMapFirst == ReadBoth \/ ReadGenerationLast

ReadGeneration ==
    /\ control = "ready"
    /\ seen' = generation /\ control' = "read"
    /\ UNCHANGED <<registryVars, view, dataVars, degraded, pc, sessionVars, call>>

ReadConnectors ==
    /\ control = "read" /\ ~dropped
    /\ view' = connectors /\ control' = "viewed"
    /\ UNCHANGED <<registryVars, seen, dataVars, degraded, pc, sessionVars, call>>

\* The order run_control reads in.
ReadMap == ReadGeneration \/ ReadConnectors

Stale == {t \in peers : t[2] # seen \/ NameOf(t) \notin view}

Reconcile ==
    /\ control = "viewed"
    /\ LET kept == {NameOf(t) : t \in peers \ Stale}
           new  == {<<n, seen>> : n \in view \ kept}
           names == {NameOf(t) : t \in Stale}
       IN  /\ peers' = (peers \ Stale) \cup new
           /\ cancelled' = Trips(Stale)
           /\ surface' = [n \in Names |-> IF n \in names THEN NoSession ELSE surface[n]]
           /\ status' = [n \in Names |-> IF n \in names THEN "none" ELSE status[n]]
           /\ pc' = [t \in Tasks |-> IF t \in new THEN "connecting" ELSE pc[t]]
    /\ control' = "waiting"
    /\ UNCHANGED <<registryVars, seen, view, degraded, sessionVars, call>>

Wake ==
    /\ control = "waiting" /\ generation # seen
    /\ control' = "ready"
    /\ UNCHANGED <<registryVars, seen, view, dataVars, degraded, pc, sessionVars, call>>

StopAll ==
    /\ dropped /\ (control = "read" \/ (control = "waiting" /\ generation = seen))
    /\ Retire(peers)
    /\ control' = "stopped"
    /\ UNCHANGED <<registryVars, seen, view, degraded, pc, sessionVars, call>>

-----------------------------------------------------------------------------
(* A peer task: connect_once, backoff, hold.                                 *)

Goto(t, l) == pc' = [pc EXCEPT ![t] = l]

Connects(t) ==
    /\ pc[t] = "connecting" /\ t \notin cancelled
    /\ \E s \in Sessions :
          /\ link[s] = "unopened" /\ \A r \in 1 .. (s - 1) : link[r] # "unopened"
          /\ link' = [link EXCEPT ![s] = "live"] /\ held' = [held EXCEPT ![t] = s]
    /\ Goto(t, "connected")
    /\ UNCHANGED <<registryVars, controlVars, dataVars, degraded, tripped, call>>

ConnectFails(t) ==
    /\ pc[t] = "connecting" /\ t \notin cancelled
    /\ Goto(t, "failed")
    /\ UNCHANGED <<registryVars, controlVars, dataVars, degraded, sessionVars, call>>

\* The cancel latch is polled first in connect_once and in wait_delay.
WaitCancelled(t) ==
    /\ pc[t] \in {"connecting", "waiting"} /\ t \in cancelled
    /\ Goto(t, "ending")
    /\ UNCHANGED <<registryVars, controlVars, dataVars, degraded, sessionVars, call>>

MarkDegraded(t) ==
    /\ pc[t] = "failed"
    /\ IF Owns(t)
       THEN /\ surface' = [surface EXCEPT ![NameOf(t)] = NoSession]
            /\ status' = [status EXCEPT ![NameOf(t)] = "degraded"]
       ELSE UNCHANGED <<surface, status>>
    /\ Goto(t, "publishing")
    /\ UNCHANGED <<registryVars, controlVars, peers, cancelled, degraded, sessionVars, call>>

\* publish_health asks no owner: a superseded task may publish last.
PublishDown(t) ==
    /\ pc[t] = "publishing"
    /\ degraded' = IF dropped THEN degraded ELSE degraded \cup {NameOf(t)}
    /\ Goto(t, "waiting")
    /\ UNCHANGED <<registryVars, controlVars, dataVars, sessionVars, call>>

BackoffEnds(t) ==
    /\ pc[t] = "waiting" /\ t \notin cancelled
    /\ Goto(t, "connecting")
    /\ UNCHANGED <<registryVars, controlVars, dataVars, degraded, sessionVars, call>>

Install(t) ==
    /\ pc[t] = "connected"
    /\ IF Owns(t)
       THEN /\ surface' = [surface EXCEPT ![NameOf(t)] = held[t]]
            /\ status' = [status EXCEPT ![NameOf(t)] = "connected"]
            /\ Goto(t, "installed")
       ELSE /\ UNCHANGED <<surface, status>>
            /\ Goto(t, "refused")
    /\ UNCHANGED <<registryVars, controlVars, peers, cancelled, degraded, sessionVars, call>>

PublishUp(t) ==
    /\ pc[t] = "installed"
    /\ degraded' = IF dropped THEN degraded ELSE degraded \ {NameOf(t)}
    /\ Goto(t, "holding")
    /\ UNCHANGED <<registryVars, controlVars, dataVars, sessionVars, call>>

\* watch_until_drop: cancel first, then the death latch, then the probe tick.
Drops(t) ==
    /\ pc[t] = "holding" /\ (t \in cancelled \/ held[t] \in tripped)
    /\ Goto(t, "dropping")
    /\ UNCHANGED <<registryVars, controlVars, dataVars, degraded, sessionVars, call>>

\* Mutant: a connected peer is never probed.
NeverProbes(t) == FALSE /\ UNCHANGED vars

\* While the probe runs neither latch is polled.
Probes(t) ==
    /\ pc[t] = "holding" /\ t \notin cancelled /\ held[t] \notin tripped
    /\ Goto(t, "probing")
    /\ UNCHANGED <<registryVars, controlVars, dataVars, degraded, sessionVars, call>>

ProbeAnswers(t) ==
    /\ pc[t] = "probing"
    /\ Goto(t, IF link[held[t]] = "live" THEN "holding" ELSE "dropping")
    /\ UNCHANGED <<registryVars, controlVars, dataVars, degraded, sessionVars, call>>

\* Mutant: the name is cleared whoever owns it now.
UninstallUnowned(t) ==
    /\ pc[t] = "dropping"
    /\ surface' = [surface EXCEPT ![NameOf(t)] = NoSession]
    /\ Goto(t, "releasing")
    /\ UNCHANGED <<registryVars, controlVars, peers, cancelled, status, degraded, sessionVars,
                   call>>

Uninstall(t) ==
    /\ pc[t] = "dropping"
    /\ surface' = IF Owns(t) THEN [surface EXCEPT ![NameOf(t)] = NoSession] ELSE surface
    /\ Goto(t, "releasing")
    /\ UNCHANGED <<registryVars, controlVars, peers, cancelled, status, degraded, sessionVars,
                   call>>

\* Mutant: the session of a refused install is dropped without shutdown.
ReleaseHeld(t) ==
    /\ pc[t] \in {"releasing", "refused"}
    /\ link' = IF pc[t] = "refused" THEN link ELSE [link EXCEPT ![held[t]] = "closed"]
    /\ held' = [held EXCEPT ![t] = NoSession]
    /\ Goto(t, IF pc[t] = "refused" \/ t \in cancelled THEN "ending" ELSE "failed")
    /\ UNCHANGED <<registryVars, controlVars, dataVars, degraded, tripped, call>>

Release(t) ==
    /\ pc[t] \in {"releasing", "refused"}
    /\ link' = [link EXCEPT ![held[t]] = "closed"] /\ held' = [held EXCEPT ![t] = NoSession]
    /\ Goto(t, IF pc[t] = "refused" \/ t \in cancelled THEN "ending" ELSE "failed")
    /\ UNCHANGED <<registryVars, controlVars, dataVars, degraded, tripped, call>>

Ends(t) ==
    /\ pc[t] = "ending"
    /\ Retire({u \in {t} : Owns(u)})
    /\ Goto(t, "done")
    /\ UNCHANGED <<registryVars, controlVars, degraded, sessionVars, call>>

-----------------------------------------------------------------------------
(* The chat's calls, and what happens outside the process.                   *)

Lookup(c, n) ==
    /\ call[c] = NoSession /\ surface[n] # NoSession
    /\ call' = [call EXCEPT ![c] = surface[n]]
    /\ UNCHANGED <<registryVars, controlVars, dataVars, degraded, pc, sessionVars>>

\* Mutant: the latches of whatever sessions serve the names by then.
LatchesBySurface(c) == {surface[n] : n \in Names} \ {NoSession}

\* The death latch a failed call trips: the one that came with its session.
Latches(c) == {call[c]}

Return(c) ==
    /\ call[c] # NoSession
    /\ tripped' = IF link[call[c]] = "live" THEN tripped ELSE tripped \cup Latches(c)
    /\ call' = [call EXCEPT ![c] = NoSession]
    /\ UNCHANGED <<registryVars, controlVars, dataVars, degraded, pc, held, link>>

Dies(s) ==
    /\ link[s] = "live"
    /\ link' = [link EXCEPT ![s] = "dead"]
    /\ UNCHANGED <<registryVars, controlVars, dataVars, degraded, pc, held, tripped, call>>

\* Mutant: a degraded mark never expires.
NeverHalfOpens(n) == FALSE /\ UNCHANGED vars

\* purge_expired_degraded, on the first routing query after the window.
HalfOpens(n) ==
    /\ n \in degraded
    /\ degraded' = degraded \ {n}
    /\ UNCHANGED <<registryVars, controlVars, dataVars, pc, sessionVars, call>>

\* The pool reports to the same catalog, for calls on sessions of its own: one
\* whose transport is dead, one that succeeded.
PoolFails(n) ==
    /\ degraded' = degraded \cup {n}
    /\ UNCHANGED <<registryVars, controlVars, dataVars, pc, sessionVars, call>>

PoolRecovers(n) ==
    /\ degraded' = degraded \ {n}
    /\ UNCHANGED <<registryVars, controlVars, dataVars, pc, sessionVars, call>>

-----------------------------------------------------------------------------
\* The steps that wait for the peer.
Answers(t) ==
    \/ Connects(t) \/ ConnectFails(t) \/ ProbeAnswers(t)

Proceeds(t) ==
    \/ WaitCancelled(t) \/ MarkDegraded(t) \/ PublishDown(t) \/ BackoffEnds(t)
    \/ Install(t) \/ PublishUp(t) \/ Drops(t) \/ Probes(t)
    \/ Uninstall(t) \/ Release(t) \/ Ends(t)

Controls == ReadMap \/ Reconcile \/ Wake \/ StopAll

Next ==
    \/ \E names \in SUBSET Names : Replace(names)
    \/ Bump \/ DropRegistry
    \/ Controls
    \/ \E t \in Tasks : Answers(t) \/ Proceeds(t)
    \/ \E c \in Calls : Return(c) \/ \E n \in Names : Lookup(c, n)
    \/ \E s \in Sessions : Dies(s)
    \/ \E n \in Names : HalfOpens(n) \/ PoolFails(n) \/ PoolRecovers(n)

\* The probe of a session whose transport has ended: its request fails at once.
ProbeFails(t) == ProbeAnswers(t) /\ link[held[t]] # "live"

\* A connect, or the probe of a peer that is up but silent, may hang for ever;
\* everything else the runtime schedules goes on.
Fairness ==
    /\ WF_vars(Bump) /\ WF_vars(Controls)
    /\ \A t \in Tasks : WF_vars(Proceeds(t)) /\ WF_vars(ProbeFails(t))
    /\ \A n \in Names : WF_vars(HalfOpens(n))

Spec == Init /\ [][Next]_vars
FairSpec == Spec /\ Fairness

-----------------------------------------------------------------------------
(* Properties.                                                               *)

Places == {"none", "connecting", "failed", "publishing", "waiting", "connected", "refused",
           "installed", "holding", "probing", "dropping", "releasing", "ending", "done"}

\* The places a task is at while its session is its own to shut down.
HoldsSession == {"connected", "refused", "installed", "holding", "probing", "dropping",
                 "releasing"}

OnSurface == {"installed", "holding", "probing", "dropping"}

\* The types of the state.
TypeOK ==
    /\ connectors \subseteq Names /\ view \subseteq Names /\ degraded \subseteq Names
    /\ owed \in 0 .. MaxWrites /\ generation \in Generations /\ seen \in Generations
    /\ generation + owed <= MaxWrites
    /\ dropped \in BOOLEAN /\ control \in {"ready", "read", "viewed", "waiting", "stopped"}
    /\ peers \subseteq Tasks /\ cancelled \subseteq Tasks
    /\ surface \in [Names -> Sessions \cup {NoSession}]
    /\ status \in [Names -> {"none", "connected", "degraded"}]
    /\ pc \in [Tasks -> Places] /\ held \in [Tasks -> Sessions \cup {NoSession}]
    /\ link \in [Sessions -> {"unopened", "live", "dead", "closed"}]
    /\ tripped \subseteq Sessions
    /\ call \in [Calls -> Sessions \cup {NoSession}]

\* What the chat can reach under a name is the session of the one task that
\* has the name now, not yet shut down, and status says so: a superseded task
\* neither installs late (install) nor clears or degrades its successor
\* (uninstall, mark_degraded).
SurfaceOwned ==
    /\ \A n \in Names : surface[n] # NoSession =>
          /\ \E t \in peers : Owns(t) /\ NameOf(t) = n /\ held[t] = surface[n]
          /\ link[surface[n]] # "closed"
          /\ status[n] = "connected"
    /\ \A t \in Tasks : Owns(t) /\ pc[t] \in OnSurface => surface[NameOf(t)] = held[t]

\* A name has one task that is not cancelled, however the map and the control
\* task interleave (stale_names, new_peers).
OneTask ==
    \A t, u \in Tasks :
        /\ NameOf(t) = NameOf(u)
        /\ pc[t] \notin {"none", "done"} /\ pc[u] \notin {"none", "done"}
        /\ t \notin cancelled /\ u \notin cancelled
        => t = u

\* An open session has exactly one task that will shut it down (hold): none
\* is forgotten by a cancel, a refused install or a death.
NothingLeaks ==
    \A s \in Sessions : link[s] \in {"live", "dead"} =>
        \E t \in Tasks : /\ held[t] = s /\ pc[t] \in HoldsSession
                         /\ \A u \in Tasks \ {t} : held[u] # s

\* A working session leaves the surface only when its task is cancelled: a
\* call that failed on an earlier session of the name does not take the new
\* one down (invoke trips the latch it looked up with the session).
LeavesForCause ==
    [][\A n \in Names :
          LET s == surface[n]
          IN  s # NoSession /\ surface'[n] # s =>
                  link[s] = "dead" \/ \E t \in cancelled' : held[t] = s]_vars

\* Whatever order writes, bumps and reads took, the peers end up those of the
\* last map: no change is lost between the watch and the lock (run_control).
Converges ==
    <>[](dropped \/ peers = {<<n, generation>> : n \in connectors})

\* A dead session is found by the probe and leaves the surface, although no
\* call ever uses it (watch_until_drop).
DeadLeaves ==
    \A n \in Names, s \in Sessions :
        (surface[n] = s /\ link[s] = "dead") ~> (surface[n] # s)

\* A peer that stays connected ends up routed for good, unless the pool reports
\* it down for ever: publish_health asks no owner, so a superseded task may
\* publish its failure last, but such tasks run out.
ConnectedIsRouted ==
    <>[][\A n \in Names : ~PoolFails(n)]_vars =>
        \A n \in Names : <>[](surface[n] # NoSession) => <>[](n \notin degraded)
===============================================================================
