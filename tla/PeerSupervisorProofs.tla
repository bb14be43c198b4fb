--------------------------- MODULE PeerSupervisorProofs ---------------------------
(* Theorems about PeerSupervisor for every set of names and calls and every *)
(* bound on writes and sessions.                                            *)
EXTENDS PeerSupervisor, TLAPS

-----------------------------------------------------------------------------
(* The inductive invariant.                                                 *)

(* No two slots of the map serve one name.                                  *)
OnePeer == \A t, u \in peers : NameOf(t) = NameOf(u) => t = u

(* A task runs exactly as long as its slot is there or its latch is tripped.*)
PeersRun ==
    /\ \A t \in peers : t \notin cancelled /\ pc[t] \notin {"none", "done"}
    /\ \A t \in cancelled : pc[t] # "none"
    /\ \A t \in Tasks : pc[t] \notin {"none", "done"} => t \in peers \/ t \in cancelled

(* The generation the control task is about to spawn has no tasks yet.      *)
Generated ==
    /\ seen <= generation
    /\ \A t \in Tasks : pc[t] # "none" =>
          /\ t[2] <= seen
          /\ control = "ready" => t[2] < generation
          /\ control \in {"read", "viewed"} => t[2] < seen

(* An open session is held by one task, at the places that shut it down.    *)
HeldOnce ==
    /\ \A t \in Tasks : held[t] # NoSession <=> pc[t] \in HoldsSession
    /\ \A t, u \in Tasks : held[t] # NoSession /\ held[t] = held[u] => t = u
    /\ \A t \in Tasks : held[t] # NoSession => link[held[t]] \in {"live", "dead"}
    /\ \A s \in Sessions : link[s] \in {"live", "dead"} => \E t \in Tasks : held[t] = s

(* A death latch is tripped, and a task drops its session, for a cause.     *)
Caused ==
    /\ \A s \in tripped : link[s] \in {"dead", "closed"}
    /\ \A c \in Calls : call[c] # NoSession => link[call[c]] # "unopened"
    /\ \A t \in Tasks : pc[t] = "dropping" => t \in cancelled \/ link[held[t]] = "dead"

(* The surface shows the sessions of the slots that installed one.          *)
Shown ==
    /\ \A n \in Names : surface[n] # NoSession =>
          \E t \in peers : NameOf(t) = n /\ pc[t] \in OnSurface
    /\ \A t \in peers : pc[t] \in OnSurface =>
          surface[NameOf(t)] = held[t] /\ status[NameOf(t)] = "connected"

IInv ==
    /\ TypeOK
    /\ OnePeer
    /\ PeersRun
    /\ Generated
    /\ HeldOnce
    /\ Caused
    /\ Shown

-----------------------------------------------------------------------------
(* Names, generations and places.                                           *)

LEMMA TaskParts ==
  /\ \A t \in Tasks : NameOf(t) \in Names /\ t[2] \in Generations /\ t[2] \in Int
  /\ \A n \in Names, g \in Generations : <<n, g>> \in Tasks
  /\ \A n, g : NameOf(<<n, g>>) = n /\ <<n, g>>[2] = g
BY SupervisorAssumption DEF Tasks, Generations, NameOf

LEMMA SessionFacts == /\ Sessions \subseteq Int /\ NoSession = 0 /\ NoSession \notin Sessions
                      /\ Generations \subseteq Int
BY SupervisorAssumption DEF Sessions, NoSession, Generations

-----------------------------------------------------------------------------
(* What each action keeps.                                                  *)

(* A write of the connector map, not announced yet, touches no task.        *)
LEMMA ReplaceKeeps ==
  ASSUME IInv, NEW names \in SUBSET Names, Replace(names)
  PROVE  IInv'
<1> USE DEF IInv
<1>a. owed' \in 0 .. MaxWrites /\ generation + owed' <= MaxWrites
  BY SupervisorAssumption DEF TypeOK, Replace, Generations
<1>1. TypeOK'
  BY <1>a DEF TypeOK, Replace, controlVars, dataVars, sessionVars
<1>2. OnePeer' /\ PeersRun' /\ Generated' /\ HeldOnce' /\ Caused' /\ Shown'
  BY DEF OnePeer, Replace, dataVars, TypeOK, PeersRun, Generated, controlVars, HeldOnce,
      sessionVars, HoldsSession, Caused, Shown, OnSurface
<1> QED
  BY <1>1, <1>2

(* bump_peers raises the watch by the one write it announces.               *)
LEMMA BumpKeeps ==
  ASSUME IInv, Bump
  PROVE  IInv'
<1> USE DEF IInv
<1>a. generation' \in Generations /\ owed' \in 0 .. MaxWrites /\ generation' + owed' <= MaxWrites
  BY SupervisorAssumption DEF TypeOK, Bump, Generations
<1>1. TypeOK'
  BY <1>a DEF TypeOK, Bump, controlVars, dataVars, sessionVars
<1>2. Generated'
  BY TaskParts, SessionFacts DEF Generated, Bump, controlVars, TypeOK
<1>3. OnePeer' /\ PeersRun' /\ HeldOnce' /\ Caused' /\ Shown'
  BY DEF OnePeer, Bump, dataVars, TypeOK, PeersRun, HeldOnce, sessionVars, HoldsSession,
      Caused, Shown, OnSurface
<1> QED
  BY <1>1, <1>2, <1>3

(* The registry goes; the tasks go on until stop_all.                       *)
LEMMA DropRegistryKeeps ==
  ASSUME IInv, DropRegistry
  PROVE  IInv'
<1> USE DEF IInv
<1>1. TypeOK'
  BY TaskParts, SessionFacts, SupervisorAssumption DEF TypeOK, DropRegistry, controlVars,
      dataVars, sessionVars, Places
<1>2. OnePeer' /\ PeersRun' /\ Generated' /\ HeldOnce' /\ Caused' /\ Shown'
  BY DEF OnePeer, DropRegistry, dataVars, TypeOK, PeersRun, Generated, controlVars,
      HeldOnce, sessionVars, HoldsSession, Caused, Shown, OnSurface
<1> QED
  BY <1>1, <1>2

(* borrow_and_update: the generation read is newer than every task.         *)
LEMMA ReadGenerationKeeps ==
  ASSUME IInv, ReadGeneration
  PROVE  IInv'
<1> USE DEF IInv
<1>1. TypeOK'
  BY TaskParts, SessionFacts, SupervisorAssumption DEF TypeOK, ReadGeneration,
      registryVars, dataVars, sessionVars, Places
<1>2. Generated'
  BY TaskParts, SessionFacts DEF Generated, ReadGeneration, registryVars, TypeOK
<1>3. OnePeer' /\ PeersRun' /\ HeldOnce' /\ Caused' /\ Shown'
  BY DEF OnePeer, ReadGeneration, dataVars, TypeOK, PeersRun, HeldOnce, sessionVars,
      HoldsSession, Caused, Shown, OnSurface
<1> QED
  BY <1>1, <1>2, <1>3

(* connectors(): the map may be newer than the generation, never older.     *)
LEMMA ReadConnectorsKeeps ==
  ASSUME IInv, ReadConnectors
  PROVE  IInv'
<1> USE DEF IInv
<1>1. TypeOK'
  BY TaskParts, SessionFacts, SupervisorAssumption DEF TypeOK, ReadConnectors,
      registryVars, dataVars, sessionVars, Places
<1>2. Generated'
  BY TaskParts, SessionFacts DEF Generated, ReadConnectors, registryVars, TypeOK
<1>3. OnePeer' /\ PeersRun' /\ HeldOnce' /\ Caused' /\ Shown'
  BY DEF OnePeer, ReadConnectors, dataVars, TypeOK, PeersRun, HeldOnce, sessionVars,
      HoldsSession, Caused, Shown, OnSurface
<1> QED
  BY <1>1, <1>2, <1>3

(* plan and new_peers: stale slots are retired, and each name that is left  *)
(* without one gets a task of a generation no task had before.              *)
LEMMA ReconcileKeeps ==
  ASSUME IInv, Reconcile
  PROVE  IInv'
<1> USE DEF IInv
<1> DEFINE kept == {NameOf(t) : t \in peers \ Stale}
           new == {<<n, seen>> : n \in view \ kept}
           names == {NameOf(t) : t \in Stale}
<1>a. /\ peers' = (peers \ Stale) \cup new
      /\ cancelled' = cancelled \cup Stale
      /\ surface' = [n \in Names |-> IF n \in names THEN NoSession ELSE surface[n]]
      /\ status' = [n \in Names |-> IF n \in names THEN "none" ELSE status[n]]
      /\ pc' = [t \in Tasks |-> IF t \in new THEN "connecting" ELSE pc[t]]
  BY DEF Reconcile, Trips
<1>b. Stale \subseteq peers /\ peers \subseteq Tasks /\ Tasks = Names \X Generations
  BY DEF Stale, TypeOK, Tasks
<1>c. \A t \in new : t \in Tasks /\ pc[t] = "none" /\ NameOf(t) \notin kept
  BY TaskParts, SessionFacts DEF Generated, Reconcile, TypeOK
<1> HIDE DEF new, kept, names
<1>1. TypeOK'
  BY TaskParts, SessionFacts, SupervisorAssumption DEF TypeOK, Reconcile, registryVars,
      sessionVars, Stale, Trips, Places
<1>2. OnePeer'
  BY TaskParts DEF OnePeer, Reconcile, Stale, Trips, TypeOK
<1>3. PeersRun'
  BY <1>a, <1>b, <1>c DEF PeersRun, TypeOK
<1>4. Generated'
  BY TaskParts, SessionFacts DEF Generated, Reconcile, registryVars, Stale, Trips, TypeOK
<1>5. HeldOnce'
  BY <1>a, <1>b, <1>c DEF HeldOnce, Reconcile, sessionVars, HoldsSession, TypeOK
<1>6. Caused'
  BY SessionFacts DEF Caused, Reconcile, sessionVars, Stale, Trips, TypeOK
<1>7. Shown'
  <2>1. ASSUME NEW n \in Names, surface'[n] # NoSession
        PROVE  \E t \in peers' : NameOf(t) = n /\ pc'[t] \in OnSurface
    <3>1. n \notin names /\ surface[n] # NoSession
      BY <1>a, <2>1
    <3>2. PICK t \in peers : NameOf(t) = n /\ pc[t] \in OnSurface
      BY <3>1 DEF Shown
    <3>3. t \notin Stale /\ t \notin new
      BY <3>1, <3>2, <1>c DEF names, OnSurface
    <3> QED
      BY <1>a, <1>b, <3>2, <3>3
  <2>2. ASSUME NEW t \in peers', pc'[t] \in OnSurface
        PROVE  surface'[NameOf(t)] = held'[t] /\ status'[NameOf(t)] = "connected"
    <3>1. t \notin new /\ t \in peers /\ t \notin Stale /\ pc[t] \in OnSurface
      BY <1>a, <1>b, <1>c, <2>2 DEF OnSurface
    <3>2. NameOf(t) \in Names /\ NameOf(t) \notin names
      BY <3>1, <1>b, TaskParts DEF names, OnePeer
    <3>3. held' = held
      BY DEF Reconcile, sessionVars
    <3> QED
      BY <3>1, <3>2, <3>3, <1>a DEF Shown
  <2> QED
    BY <2>1, <2>2 DEF Shown
<1> QED
  BY <1>1, <1>2, <1>3, <1>4, <1>5, <1>6, <1>7

(* changed(): the control task goes on only when the watch has moved.       *)
LEMMA WakeKeeps ==
  ASSUME IInv, Wake
  PROVE  IInv'
<1> USE DEF IInv
<1>1. TypeOK'
  BY TaskParts, SessionFacts, SupervisorAssumption DEF TypeOK, Wake, registryVars,
      dataVars, sessionVars, Places
<1>2. Generated'
  BY TaskParts, SessionFacts DEF Generated, Wake, registryVars, TypeOK
<1>3. OnePeer' /\ PeersRun' /\ HeldOnce' /\ Caused' /\ Shown'
  BY DEF OnePeer, Wake, dataVars, TypeOK, PeersRun, HeldOnce, sessionVars, HoldsSession,
      Caused, Shown, OnSurface
<1> QED
  BY <1>1, <1>2, <1>3

(* stop_all: every slot is retired, its latch tripped, its name cleared.    *)
LEMMA StopAllKeeps ==
  ASSUME IInv, StopAll
  PROVE  IInv'
<1> USE DEF IInv
<1>1. TypeOK'
  BY TaskParts, SessionFacts, SupervisorAssumption DEF TypeOK, StopAll, registryVars,
      sessionVars, Retire, Trips, Places
<1>2. OnePeer'
  BY TaskParts DEF OnePeer, StopAll, Retire, Trips, TypeOK
<1>3. PeersRun'
  BY TaskParts DEF PeersRun, StopAll, Retire, Trips, TypeOK
<1>4. Generated'
  BY TaskParts, SessionFacts DEF Generated, StopAll, registryVars, Retire, Trips, TypeOK
<1>5. Caused'
  BY SessionFacts DEF Caused, StopAll, sessionVars, Retire, Trips, TypeOK
<1>6. Shown'
  BY TaskParts, SessionFacts DEF Shown, StopAll, sessionVars, Retire, Trips, OnSurface,
      TypeOK
<1>7. HeldOnce'
  BY DEF HeldOnce, StopAll, sessionVars, HoldsSession, TypeOK
<1> QED
  BY <1>1, <1>2, <1>3, <1>4, <1>5, <1>6, <1>7

(* connect_once came back with a session nobody else has.                   *)
LEMMA ConnectsKeeps ==
  ASSUME IInv, NEW t \in Tasks, Connects(t)
  PROVE  IInv'
<1> USE DEF IInv
<1>1. TypeOK'
  BY TaskParts, SessionFacts, SupervisorAssumption DEF TypeOK, Connects, registryVars,
      controlVars, dataVars, Goto, Places
<1>2. PeersRun'
  BY TaskParts DEF PeersRun, Connects, dataVars, Goto, TypeOK
<1>3. Generated'
  BY TaskParts, SessionFacts DEF Generated, Connects, registryVars, controlVars, Goto,
      TypeOK
<1>4. HeldOnce'
  BY SessionFacts DEF HeldOnce, Connects, Goto, HoldsSession, TypeOK
<1>5. Caused'
  BY SessionFacts DEF Caused, Connects, dataVars, Goto, TypeOK
<1>6. Shown'
  BY TaskParts, SessionFacts DEF Shown, Connects, dataVars, Goto, OnSurface, TypeOK
<1>7. OnePeer'
  BY DEF OnePeer, Connects, dataVars, TypeOK
<1> QED
  BY <1>1, <1>2, <1>3, <1>4, <1>5, <1>6, <1>7

(* connect_once failed; the task holds nothing.                             *)
LEMMA ConnectFailsKeeps ==
  ASSUME IInv, NEW t \in Tasks, ConnectFails(t)
  PROVE  IInv'
<1> USE DEF IInv
<1>1. TypeOK'
  BY TaskParts, SessionFacts, SupervisorAssumption DEF TypeOK, ConnectFails, registryVars,
      controlVars, dataVars, sessionVars, Goto, Places
<1>2. PeersRun'
  BY TaskParts DEF PeersRun, ConnectFails, dataVars, Goto, TypeOK
<1>3. Generated'
  BY TaskParts, SessionFacts DEF Generated, ConnectFails, registryVars, controlVars, Goto,
      TypeOK
<1>4. HeldOnce'
  BY SessionFacts DEF HeldOnce, ConnectFails, sessionVars, Goto, HoldsSession, TypeOK
<1>5. Caused'
  BY SessionFacts DEF Caused, ConnectFails, dataVars, sessionVars, Goto, TypeOK
<1>6. Shown'
  BY TaskParts, SessionFacts DEF Shown, ConnectFails, dataVars, sessionVars, Goto,
      OnSurface, TypeOK
<1>7. OnePeer'
  BY DEF OnePeer, ConnectFails, dataVars, TypeOK
<1> QED
  BY <1>1, <1>2, <1>3, <1>4, <1>5, <1>6, <1>7

(* The latch ends a connect or a backoff; the task holds nothing.           *)
LEMMA WaitCancelledKeeps ==
  ASSUME IInv, NEW t \in Tasks, WaitCancelled(t)
  PROVE  IInv'
<1> USE DEF IInv
<1>1. TypeOK'
  BY TaskParts, SessionFacts, SupervisorAssumption DEF TypeOK, WaitCancelled,
      registryVars, controlVars, dataVars, sessionVars, Goto, Places
<1>2. PeersRun'
  BY TaskParts DEF PeersRun, WaitCancelled, dataVars, Goto, TypeOK
<1>3. Generated'
  BY TaskParts, SessionFacts DEF Generated, WaitCancelled, registryVars, controlVars,
      Goto, TypeOK
<1>4. HeldOnce'
  BY SessionFacts DEF HeldOnce, WaitCancelled, sessionVars, Goto, HoldsSession, TypeOK
<1>5. Caused'
  BY SessionFacts DEF Caused, WaitCancelled, dataVars, sessionVars, Goto, TypeOK
<1>6. Shown'
  BY TaskParts, SessionFacts DEF Shown, WaitCancelled, dataVars, sessionVars, Goto,
      OnSurface, TypeOK
<1>7. OnePeer'
  BY DEF OnePeer, WaitCancelled, dataVars, TypeOK
<1> QED
  BY <1>1, <1>2, <1>3, <1>4, <1>5, <1>6, <1>7

(* mark_degraded changes the surface for the owner of the name only.        *)
LEMMA MarkDegradedKeeps ==
  ASSUME IInv, NEW t \in Tasks, MarkDegraded(t)
  PROVE  IInv'
<1> USE DEF IInv
<1>1. TypeOK'
  BY TaskParts, SessionFacts, SupervisorAssumption DEF TypeOK, MarkDegraded, registryVars,
      controlVars, sessionVars, Goto, Owns, Places
<1>2. PeersRun'
  BY TaskParts DEF PeersRun, MarkDegraded, Goto, Owns, TypeOK
<1>3. Generated'
  BY TaskParts, SessionFacts DEF Generated, MarkDegraded, registryVars, controlVars, Goto,
      Owns, TypeOK
<1>4. HeldOnce'
  BY SessionFacts DEF HeldOnce, MarkDegraded, sessionVars, Goto, Owns, HoldsSession,
      TypeOK
<1>5. Caused'
  BY SessionFacts DEF Caused, MarkDegraded, sessionVars, Goto, Owns, TypeOK
<1>6. Shown'
  BY TaskParts, SessionFacts DEF Shown, MarkDegraded, sessionVars, Goto, Owns, OnePeer,
      PeersRun, OnSurface, TypeOK
<1>7. OnePeer'
  BY DEF OnePeer, MarkDegraded, TypeOK
<1> QED
  BY <1>1, <1>2, <1>3, <1>4, <1>5, <1>6, <1>7

(* publish_health touches the catalog only.                                 *)
LEMMA PublishDownKeeps ==
  ASSUME IInv, NEW t \in Tasks, PublishDown(t)
  PROVE  IInv'
<1> USE DEF IInv
<1>1. TypeOK'
  BY TaskParts, SessionFacts, SupervisorAssumption DEF TypeOK, PublishDown, registryVars,
      controlVars, dataVars, sessionVars, Goto, Places
<1>2. PeersRun'
  BY TaskParts DEF PeersRun, PublishDown, dataVars, Goto, TypeOK
<1>3. Generated'
  BY TaskParts, SessionFacts DEF Generated, PublishDown, registryVars, controlVars, Goto,
      TypeOK
<1>4. HeldOnce'
  BY SessionFacts DEF HeldOnce, PublishDown, sessionVars, Goto, HoldsSession, TypeOK
<1>5. Caused'
  BY SessionFacts DEF Caused, PublishDown, dataVars, sessionVars, Goto, TypeOK
<1>6. Shown'
  BY TaskParts, SessionFacts DEF Shown, PublishDown, dataVars, sessionVars, Goto,
      OnSurface, TypeOK
<1>7. OnePeer'
  BY DEF OnePeer, PublishDown, dataVars, TypeOK
<1> QED
  BY <1>1, <1>2, <1>3, <1>4, <1>5, <1>6, <1>7

(* wait_delay is over; the task tries again.                                *)
LEMMA BackoffEndsKeeps ==
  ASSUME IInv, NEW t \in Tasks, BackoffEnds(t)
  PROVE  IInv'
<1> USE DEF IInv
<1>1. TypeOK'
  BY TaskParts, SessionFacts, SupervisorAssumption DEF TypeOK, BackoffEnds, registryVars,
      controlVars, dataVars, sessionVars, Goto, Places
<1>2. PeersRun'
  BY TaskParts DEF PeersRun, BackoffEnds, dataVars, Goto, TypeOK
<1>3. Generated'
  BY TaskParts, SessionFacts DEF Generated, BackoffEnds, registryVars, controlVars, Goto,
      TypeOK
<1>4. HeldOnce'
  BY SessionFacts DEF HeldOnce, BackoffEnds, sessionVars, Goto, HoldsSession, TypeOK
<1>5. Caused'
  BY SessionFacts DEF Caused, BackoffEnds, dataVars, sessionVars, Goto, TypeOK
<1>6. Shown'
  BY TaskParts, SessionFacts DEF Shown, BackoffEnds, dataVars, sessionVars, Goto,
      OnSurface, TypeOK
<1>7. OnePeer'
  BY DEF OnePeer, BackoffEnds, dataVars, TypeOK
<1> QED
  BY <1>1, <1>2, <1>3, <1>4, <1>5, <1>6, <1>7

(* install shows the session for the owner; a superseded task is refused.   *)
LEMMA InstallKeeps ==
  ASSUME IInv, NEW t \in Tasks, Install(t)
  PROVE  IInv'
<1> USE DEF IInv
<1>1. TypeOK'
  BY TaskParts, SessionFacts, SupervisorAssumption DEF TypeOK, Install, registryVars,
      controlVars, sessionVars, Goto, Owns, Places
<1>2. PeersRun'
  BY TaskParts DEF PeersRun, Install, Goto, Owns, TypeOK
<1>3. Generated'
  BY TaskParts, SessionFacts DEF Generated, Install, registryVars, controlVars, Goto,
      Owns, TypeOK
<1>4. HeldOnce'
  BY SessionFacts DEF HeldOnce, Install, sessionVars, Goto, Owns, HoldsSession, TypeOK
<1>5. Caused'
  BY SessionFacts DEF Caused, Install, sessionVars, Goto, Owns, TypeOK
<1>6. Shown'
  BY TaskParts, SessionFacts DEF Shown, Install, sessionVars, Goto, Owns, OnePeer,
      PeersRun, OnSurface, TypeOK
<1>7. OnePeer'
  BY DEF OnePeer, Install, TypeOK
<1> QED
  BY <1>1, <1>2, <1>3, <1>4, <1>5, <1>6, <1>7

(* publish_health touches the catalog only.                                 *)
LEMMA PublishUpKeeps ==
  ASSUME IInv, NEW t \in Tasks, PublishUp(t)
  PROVE  IInv'
<1> USE DEF IInv
<1>1. TypeOK'
  BY TaskParts, SessionFacts, SupervisorAssumption DEF TypeOK, PublishUp, registryVars,
      controlVars, dataVars, sessionVars, Goto, Places
<1>2. PeersRun'
  BY TaskParts DEF PeersRun, PublishUp, dataVars, Goto, TypeOK
<1>3. Generated'
  BY TaskParts, SessionFacts DEF Generated, PublishUp, registryVars, controlVars, Goto,
      TypeOK
<1>4. HeldOnce'
  BY SessionFacts DEF HeldOnce, PublishUp, sessionVars, Goto, HoldsSession, TypeOK
<1>5. Caused'
  BY SessionFacts DEF Caused, PublishUp, dataVars, sessionVars, Goto, TypeOK
<1>6. Shown'
  BY TaskParts, SessionFacts DEF Shown, PublishUp, dataVars, sessionVars, Goto, OnSurface,
      TypeOK
<1>7. OnePeer'
  BY DEF OnePeer, PublishUp, dataVars, TypeOK
<1> QED
  BY <1>1, <1>2, <1>3, <1>4, <1>5, <1>6, <1>7

(* watch_until_drop ends for a cancel or for a session that is dead.        *)
LEMMA DropsKeeps ==
  ASSUME IInv, NEW t \in Tasks, Drops(t)
  PROVE  IInv'
<1> USE DEF IInv
<1>1. TypeOK'
  BY TaskParts, SessionFacts, SupervisorAssumption DEF TypeOK, Drops, registryVars,
      controlVars, dataVars, sessionVars, Goto, Places
<1>2. PeersRun'
  BY TaskParts DEF PeersRun, Drops, dataVars, Goto, TypeOK
<1>3. Generated'
  BY TaskParts, SessionFacts DEF Generated, Drops, registryVars, controlVars, Goto, TypeOK
<1>4. HeldOnce'
  BY SessionFacts DEF HeldOnce, Drops, sessionVars, Goto, HoldsSession, TypeOK
<1>5. Caused'
  <2>1. UNCHANGED <<link, tripped, call, held, cancelled>> /\ pc' = [pc EXCEPT ![t] = "dropping"]
    BY DEF Drops, dataVars, sessionVars, Goto
  <2>2. t \in cancelled \/ link[held[t]] = "dead"
    <3>1. held[t] \in Sessions /\ link[held[t]] \in {"live", "dead"}
      BY SessionFacts DEF Drops, HeldOnce, HoldsSession, TypeOK
    <3> QED
      BY <3>1 DEF Drops, Caused
  <2>3. \A u \in Tasks : pc'[u] = "dropping" => u \in cancelled \/ link[held[u]] = "dead"
    BY <2>1, <2>2 DEF Caused, TypeOK
  <2> QED
    BY <2>1, <2>3 DEF Caused
<1>6. Shown'
  BY TaskParts, SessionFacts DEF Shown, Drops, dataVars, sessionVars, Goto, OnSurface,
      TypeOK
<1>7. OnePeer'
  BY DEF OnePeer, Drops, dataVars, TypeOK
<1> QED
  BY <1>1, <1>2, <1>3, <1>4, <1>5, <1>6, <1>7

(* The probe tick sends the task to list_tools.                             *)
LEMMA ProbesKeeps ==
  ASSUME IInv, NEW t \in Tasks, Probes(t)
  PROVE  IInv'
<1> USE DEF IInv
<1>1. TypeOK'
  BY TaskParts, SessionFacts, SupervisorAssumption DEF TypeOK, Probes, registryVars,
      controlVars, dataVars, sessionVars, Goto, Places
<1>2. PeersRun'
  BY TaskParts DEF PeersRun, Probes, dataVars, Goto, TypeOK
<1>3. Generated'
  BY TaskParts, SessionFacts DEF Generated, Probes, registryVars, controlVars, Goto,
      TypeOK
<1>4. HeldOnce'
  BY SessionFacts DEF HeldOnce, Probes, sessionVars, Goto, HoldsSession, TypeOK
<1>5. Caused'
  BY SessionFacts DEF Caused, Probes, dataVars, sessionVars, Goto, TypeOK
<1>6. Shown'
  BY TaskParts, SessionFacts DEF Shown, Probes, dataVars, sessionVars, Goto, OnSurface,
      TypeOK
<1>7. OnePeer'
  BY DEF OnePeer, Probes, dataVars, TypeOK
<1> QED
  BY <1>1, <1>2, <1>3, <1>4, <1>5, <1>6, <1>7

(* The probe ends the hold of a dead session only.                          *)
LEMMA ProbeAnswersKeeps ==
  ASSUME IInv, NEW t \in Tasks, ProbeAnswers(t)
  PROVE  IInv'
<1> USE DEF IInv
<1>1. TypeOK'
  BY TaskParts, SessionFacts, SupervisorAssumption DEF TypeOK, ProbeAnswers, registryVars,
      controlVars, dataVars, sessionVars, Goto, Places
<1>2. PeersRun'
  BY TaskParts DEF PeersRun, ProbeAnswers, dataVars, Goto, TypeOK
<1>3. Generated'
  BY TaskParts, SessionFacts DEF Generated, ProbeAnswers, registryVars, controlVars, Goto,
      TypeOK
<1>4. HeldOnce'
  BY SessionFacts DEF HeldOnce, ProbeAnswers, sessionVars, Goto, HoldsSession, TypeOK
<1>5. Caused'
  BY SessionFacts DEF Caused, ProbeAnswers, dataVars, sessionVars, Goto, HeldOnce,
      HoldsSession, TypeOK
<1>6. Shown'
  BY TaskParts, SessionFacts DEF Shown, ProbeAnswers, dataVars, sessionVars, Goto,
      OnSurface, TypeOK
<1>7. OnePeer'
  BY DEF OnePeer, ProbeAnswers, dataVars, TypeOK
<1> QED
  BY <1>1, <1>2, <1>3, <1>4, <1>5, <1>6, <1>7

(* uninstall clears the surface for the owner of the name only.             *)
LEMMA UninstallKeeps ==
  ASSUME IInv, NEW t \in Tasks, Uninstall(t)
  PROVE  IInv'
<1> USE DEF IInv
<1>1. TypeOK'
  BY TaskParts, SessionFacts, SupervisorAssumption DEF TypeOK, Uninstall, registryVars,
      controlVars, sessionVars, Goto, Owns, Places
<1>2. PeersRun'
  BY TaskParts DEF PeersRun, Uninstall, Goto, Owns, TypeOK
<1>3. Generated'
  BY TaskParts, SessionFacts DEF Generated, Uninstall, registryVars, controlVars, Goto,
      Owns, TypeOK
<1>4. HeldOnce'
  BY SessionFacts DEF HeldOnce, Uninstall, sessionVars, Goto, Owns, HoldsSession, TypeOK
<1>5. Caused'
  BY SessionFacts DEF Caused, Uninstall, sessionVars, Goto, Owns, TypeOK
<1>6. Shown'
  BY TaskParts, SessionFacts DEF Shown, Uninstall, sessionVars, Goto, Owns, OnePeer,
      PeersRun, OnSurface, TypeOK
<1>7. OnePeer'
  BY DEF OnePeer, Uninstall, TypeOK
<1> QED
  BY <1>1, <1>2, <1>3, <1>4, <1>5, <1>6, <1>7

(* release_runtime shuts down the session its task holds, and no other.     *)
LEMMA ReleaseKeeps ==
  ASSUME IInv, NEW t \in Tasks, Release(t)
  PROVE  IInv'
<1> USE DEF IInv
<1>1. TypeOK'
  BY TaskParts, SessionFacts, SupervisorAssumption DEF TypeOK, Release, registryVars,
      controlVars, dataVars, Goto, Places
<1>2. PeersRun'
  BY TaskParts DEF PeersRun, Release, dataVars, Goto, TypeOK
<1>3. Generated'
  BY TaskParts, SessionFacts DEF Generated, Release, registryVars, controlVars, Goto,
      TypeOK
<1>4. HeldOnce'
  BY SessionFacts DEF HeldOnce, Release, Goto, HoldsSession, TypeOK
<1>5. Caused'
  BY SessionFacts DEF Caused, Release, dataVars, Goto, HeldOnce, HoldsSession, TypeOK
<1>6. Shown'
  BY TaskParts, SessionFacts DEF Shown, Release, dataVars, Goto, OnSurface, TypeOK
<1>7. OnePeer'
  BY DEF OnePeer, Release, dataVars, TypeOK
<1> QED
  BY <1>1, <1>2, <1>3, <1>4, <1>5, <1>6, <1>7

(* drop_if_owner retires the slot if the task still owns it.                *)
LEMMA EndsKeeps ==
  ASSUME IInv, NEW t \in Tasks, Ends(t)
  PROVE  IInv'
<1> USE DEF IInv
<1>1. TypeOK'
  BY TaskParts, SessionFacts, SupervisorAssumption DEF TypeOK, Ends, registryVars,
      controlVars, sessionVars, Goto, Retire, Trips, Owns, Places
<1>2. OnePeer'
  BY TaskParts DEF OnePeer, Ends, Goto, Retire, Trips, Owns, TypeOK
<1>3. PeersRun'
  BY TaskParts DEF PeersRun, Ends, Goto, Retire, Trips, Owns, TypeOK
<1>4. Generated'
  BY TaskParts, SessionFacts DEF Generated, Ends, registryVars, controlVars, Goto, Retire,
      Trips, Owns, TypeOK
<1>5. HeldOnce'
  BY SessionFacts DEF HeldOnce, Ends, sessionVars, Goto, Retire, Trips, Owns,
      HoldsSession, TypeOK
<1>6. Caused'
  BY SessionFacts DEF Caused, Ends, sessionVars, Goto, Retire, Trips, Owns, TypeOK
<1>7. Shown'
  BY TaskParts, SessionFacts DEF Shown, Ends, sessionVars, Goto, Retire, Trips, Owns,
      OnePeer, PeersRun, OnSurface, TypeOK
<1> QED
  BY <1>1, <1>2, <1>3, <1>4, <1>5, <1>6, <1>7

(* A call takes an open session from the surface, with its latch.           *)
LEMMA LookupKeeps ==
  ASSUME IInv, NEW c \in Calls, NEW n \in Names, Lookup(c, n)
  PROVE  IInv'
<1> USE DEF IInv
<1>1. TypeOK'
  BY TaskParts, SessionFacts, SupervisorAssumption DEF TypeOK, Lookup, registryVars,
      controlVars, dataVars, sessionVars, Places
<1>2. Caused'
  BY SessionFacts DEF Caused, Lookup, dataVars, sessionVars, HeldOnce, Shown, TypeOK
<1>3. OnePeer' /\ PeersRun' /\ Generated' /\ HeldOnce' /\ Shown'
  BY DEF OnePeer, Lookup, dataVars, TypeOK, PeersRun, Generated, registryVars,
      controlVars, HeldOnce, sessionVars, HoldsSession, Shown, OnSurface
<1> QED
  BY <1>1, <1>2, <1>3

(* A call that failed trips the latch of the session it used.               *)
LEMMA ReturnKeeps ==
  ASSUME IInv, NEW c \in Calls, Return(c)
  PROVE  IInv'
<1> USE DEF IInv
<1>1. TypeOK'
  BY TaskParts, SessionFacts, SupervisorAssumption DEF TypeOK, Return, registryVars,
      controlVars, dataVars, Latches, Places
<1>2. Caused'
  BY SessionFacts DEF Caused, Return, dataVars, Latches, TypeOK
<1>3. OnePeer' /\ PeersRun' /\ Generated' /\ HeldOnce' /\ Shown'
  BY DEF OnePeer, Return, dataVars, TypeOK, PeersRun, Generated, registryVars,
      controlVars, HeldOnce, HoldsSession, Shown, OnSurface
<1> QED
  BY <1>1, <1>2, <1>3

(* A peer may die at any moment.                                            *)
LEMMA DiesKeeps ==
  ASSUME IInv, NEW s \in Sessions, Dies(s)
  PROVE  IInv'
<1> USE DEF IInv
<1>1. TypeOK'
  BY TaskParts, SessionFacts, SupervisorAssumption DEF TypeOK, Dies, registryVars,
      controlVars, dataVars, Places
<1>2. HeldOnce'
  BY SessionFacts DEF HeldOnce, Dies, HoldsSession, TypeOK
<1>3. Caused'
  BY SessionFacts DEF Caused, Dies, dataVars, TypeOK
<1>4. OnePeer' /\ PeersRun' /\ Generated' /\ Shown'
  BY DEF OnePeer, Dies, dataVars, TypeOK, PeersRun, Generated, registryVars, controlVars,
      Shown, OnSurface
<1> QED
  BY <1>1, <1>2, <1>3, <1>4

(* The catalog routes to the name again after the cooldown.                 *)
LEMMA HalfOpensKeeps ==
  ASSUME IInv, NEW n \in Names, HalfOpens(n)
  PROVE  IInv'
<1> USE DEF IInv
<1>1. TypeOK'
  BY TaskParts, SessionFacts, SupervisorAssumption DEF TypeOK, HalfOpens, registryVars,
      controlVars, dataVars, sessionVars, Places
<1>2. OnePeer' /\ PeersRun' /\ Generated' /\ HeldOnce' /\ Caused' /\ Shown'
  BY DEF OnePeer, HalfOpens, dataVars, TypeOK, PeersRun, Generated, registryVars,
      controlVars, HeldOnce, sessionVars, HoldsSession, Caused, Shown, OnSurface
<1> QED
  BY <1>1, <1>2

(* A report of the pool touches the catalog only.                           *)
LEMMA PoolReportKeeps ==
  ASSUME IInv, NEW n \in Names, PoolFails(n) \/ PoolRecovers(n)
  PROVE  IInv'
<1>1. /\ degraded' \subseteq Names
      /\ UNCHANGED <<connectors, owed, generation, dropped, seen, view, control, peers,
                    surface, status, cancelled, pc, held, link, tripped, call>>
  BY DEF IInv, TypeOK, PoolFails, PoolRecovers, registryVars, controlVars, dataVars,
      sessionVars
<1>2. TypeOK'
  BY <1>1 DEF IInv, TypeOK
<1>3. OnePeer' /\ PeersRun' /\ Generated'
  BY <1>1 DEF IInv, OnePeer, PeersRun, Generated
<1>4. HeldOnce' /\ Caused' /\ Shown'
  BY <1>1 DEF IInv, HeldOnce, Caused, Shown
<1> QED
  BY <1>2, <1>3, <1>4 DEF IInv

-----------------------------------------------------------------------------
(* The invariant holds.                                                      *)

(* No task runs and no session is open when the registry starts.            *)
LEMMA InitIInv == Init => IInv
<1> SUFFICES ASSUME Init PROVE IInv
  OBVIOUS
<1> USE SupervisorAssumption, TaskParts, SessionFacts DEF Init
<1>a. 0 \in 0 .. MaxWrites /\ 0 + 0 <= MaxWrites
  BY SupervisorAssumption
<1>1. TypeOK
  BY <1>a, Zenon DEF TypeOK, Places, Generations
<1>2. OnePeer /\ PeersRun /\ Generated /\ HeldOnce /\ Caused /\ Shown
  BY DEF OnePeer, PeersRun, Generated, HeldOnce, HoldsSession, Caused, Shown, OnSurface,
      Sessions
<1> QED
  BY <1>1, <1>2 DEF IInv

(* Every step of the registry, the control task, a peer task, a call and    *)
(* the world outside keeps the invariant.                                   *)
LEMMA StepIInv == IInv /\ [Next]_vars => IInv'
<1> SUFFICES ASSUME IInv, [Next]_vars PROVE IInv'
  OBVIOUS
<1>1. CASE \E names \in SUBSET Names : Replace(names)
  BY <1>1, ReplaceKeeps
<1>2. CASE Bump \/ DropRegistry
  BY <1>2, BumpKeeps, DropRegistryKeeps
<1>3. CASE Controls
  BY <1>3, ReadGenerationKeeps, ReadConnectorsKeeps, ReconcileKeeps, WakeKeeps, StopAllKeeps
      DEF Controls, ReadMap
<1>4. ASSUME NEW t \in Tasks, Answers(t) PROVE IInv'
  BY <1>4, ConnectsKeeps, ConnectFailsKeeps, ProbeAnswersKeeps DEF Answers
<1>5. ASSUME NEW t \in Tasks, Proceeds(t) PROVE IInv'
  BY <1>5, WaitCancelledKeeps, MarkDegradedKeeps, PublishDownKeeps, BackoffEndsKeeps,
      InstallKeeps, PublishUpKeeps, DropsKeeps, ProbesKeeps,
      UninstallKeeps, ReleaseKeeps, EndsKeeps DEF Proceeds
<1>6. ASSUME NEW c \in Calls, Return(c) \/ \E n \in Names : Lookup(c, n) PROVE IInv'
  BY <1>6, ReturnKeeps, LookupKeeps
<1>7. CASE \E s \in Sessions : Dies(s)
  BY <1>7, DiesKeeps
<1>8. CASE \E n \in Names : HalfOpens(n) \/ PoolFails(n) \/ PoolRecovers(n)
  BY <1>8, HalfOpensKeeps, PoolReportKeeps
<1>9. CASE UNCHANGED vars
  BY <1>9 DEF IInv, TypeOK, OnePeer, PeersRun, Generated, HeldOnce, Caused, Shown, vars,
      registryVars, controlVars, dataVars, sessionVars
<1> QED
  BY <1>1, <1>2, <1>3, <1>4, <1>5, <1>6, <1>7, <1>8, <1>9 DEF Next

(* The invariant in every behaviour.                                        *)
THEOREM Invariant == Spec => []IInv
BY InitIInv, StepIInv, PTL DEF Spec

-----------------------------------------------------------------------------
(* What follows for the chat.                                                *)

(* Every variable keeps its type, however many names and sessions there are.*)
THEOREM Typed == Spec => []TypeOK
<1>1. IInv => TypeOK
  BY DEF IInv
<1> QED
  BY <1>1, Invariant, PTL

(* What the chat can reach under a name is the session of the one task that *)
(* owns the name, still open and reported connected (install, uninstall,    *)
(* mark_degraded).                                                          *)
THEOREM SurfaceIsOwned == Spec => []SurfaceOwned
<1>1. ASSUME IInv PROVE SurfaceOwned
  <2>1. ASSUME NEW n \in Names, surface[n] # NoSession
        PROVE  /\ \E t \in peers : Owns(t) /\ NameOf(t) = n /\ held[t] = surface[n]
               /\ link[surface[n]] # "closed"
               /\ status[n] = "connected"
    <3>1. PICK t \in peers : NameOf(t) = n /\ pc[t] \in OnSurface
      BY <1>1, <2>1 DEF IInv, Shown
    <3>2. t \in Tasks /\ surface[n] = held[t] /\ status[n] = "connected" /\ t \notin cancelled
      BY <1>1, <3>1 DEF IInv, TypeOK, Shown, PeersRun
    <3>3. link[held[t]] \in {"live", "dead"}
      BY <1>1, <2>1, <3>2 DEF IInv, HeldOnce
    <3> QED
      BY <3>1, <3>2, <3>3 DEF Owns
  <2>2. ASSUME NEW t \in Tasks, Owns(t), pc[t] \in OnSurface
        PROVE  surface[NameOf(t)] = held[t]
    BY <1>1, <2>2 DEF IInv, Shown, Owns
  <2> QED
    BY <2>1, <2>2 DEF SurfaceOwned
<1> QED
  BY <1>1, Invariant, PTL

(* A name has one task that is not cancelled, however writes, bumps and     *)
(* reconciles interleave (stale_names, new_peers).                          *)
THEOREM OneTaskPerName == Spec => []OneTask
<1>1. IInv => OneTask
  BY DEF IInv, PeersRun, OnePeer, OneTask
<1> QED
  BY <1>1, Invariant, PTL

(* An open session has exactly one task that will shut it down (hold).      *)
THEOREM SessionsAreHeld == Spec => []NothingLeaks
<1>1. ASSUME IInv, NEW s \in Sessions, link[s] \in {"live", "dead"}
      PROVE  \E t \in Tasks : /\ held[t] = s /\ pc[t] \in HoldsSession
                              /\ \A u \in Tasks \ {t} : held[u] # s
  <2>1. PICK t \in Tasks : held[t] = s
    BY <1>1 DEF IInv, HeldOnce
  <2>2. s # NoSession
    BY SessionFacts
  <2> QED
    BY <1>1, <2>1, <2>2 DEF IInv, HeldOnce
<1>2. IInv => NothingLeaks
  BY <1>1 DEF NothingLeaks
<1> QED
  BY <1>2, Invariant, PTL

(* A session on the surface has one owner there.                            *)
LEMMA SurfaceOwner ==
  ASSUME IInv, NEW n \in Names, surface[n] # NoSession
  PROVE  \E t \in peers : /\ NameOf(t) = n /\ pc[t] \in OnSurface /\ held[t] = surface[n]
                          /\ t \in Tasks /\ t \notin cancelled
                          /\ \A u \in peers : NameOf(u) = n => u = t
BY DEF IInv, Shown, OnePeer, PeersRun, TypeOK

(* A session leaves the surface when it is dead or its task is cancelled,   *)
(* never because a call failed on an earlier session of the name (invoke).  *)
THEOREM LeavesOnlyForCause == Spec => LeavesForCause
<1> DEFINE Cause(n) == LET s == surface[n]
                       IN  s # NoSession /\ surface'[n] # s =>
                             link[s] = "dead" \/ \E t \in cancelled' : held[t] = s
<1>1. ASSUME IInv, [Next]_vars, NEW n \in Names PROVE Cause(n)
  <2> SUFFICES ASSUME surface[n] # NoSession, surface'[n] # surface[n]
               PROVE  link[surface[n]] = "dead" \/ \E t \in cancelled' : held[t] = surface[n]
    OBVIOUS
  <2>0. PICK o \in peers : /\ NameOf(o) = n /\ pc[o] \in OnSurface /\ held[o] = surface[n]
                           /\ o \in Tasks /\ o \notin cancelled
                           /\ \A u \in peers : NameOf(u) = n => u = o
    BY <1>1, SurfaceOwner
  <2> USE <2>0
  <2>1. CASE Reconcile
    <3>1. \E t \in Stale : NameOf(t) = n
      BY <2>1, <1>1 DEF Reconcile, IInv, TypeOK
    <3>2. o \in Stale
      BY <3>1 DEF Stale
    <3> QED
      BY <2>1, <3>2 DEF Reconcile, Trips
  <2>2. CASE StopAll
    BY <2>2 DEF StopAll, Retire, Trips
  <2>3. ASSUME NEW t \in Tasks, MarkDegraded(t) \/ Install(t) PROVE FALSE
    <3>1. t = o
      BY <2>3, <1>1 DEF MarkDegraded, Install, Owns, IInv, TypeOK
    <3> QED
      BY <2>3, <3>1 DEF MarkDegraded, Install, OnSurface
  <2>4. ASSUME NEW t \in Tasks, Uninstall(t) PROVE link[surface[n]] = "dead"
    <3>1. t = o /\ t \notin cancelled /\ pc[t] = "dropping"
      BY <2>4, <1>1 DEF Uninstall, Owns, IInv, TypeOK
    <3> QED
      BY <1>1, <3>1 DEF IInv, Caused
  <2>5. ASSUME NEW t \in Tasks, Ends(t) PROVE FALSE
    <3>1. Owns(t) /\ NameOf(t) = n
      BY <2>5, <1>1 DEF Ends, Retire, IInv, TypeOK
    <3>2. t = o
      BY <3>1 DEF Owns
    <3> QED
      BY <2>5, <3>2 DEF Ends, OnSurface
  <2>6. ASSUME UNCHANGED surface PROVE FALSE
    BY <2>6
  <2>7. CASE \/ \E names \in SUBSET Names : Replace(names)
             \/ Bump \/ DropRegistry \/ ReadGeneration \/ ReadConnectors \/ Wake
             \/ \E c \in Calls : Return(c) \/ \E m \in Names : Lookup(c, m)
             \/ \E s \in Sessions : Dies(s)
             \/ \E m \in Names : HalfOpens(m) \/ PoolFails(m) \/ PoolRecovers(m)
             \/ UNCHANGED vars
    BY <2>6, <2>7 DEF Replace, Bump, DropRegistry, ReadGeneration, ReadConnectors, Wake,
        Return, Lookup, Dies, HalfOpens, PoolFails, PoolRecovers, dataVars, vars
  <2>8. ASSUME NEW t \in Tasks,
               \/ Connects(t) \/ ConnectFails(t) \/ WaitCancelled(t) \/ PublishDown(t)
               \/ BackoffEnds(t) \/ PublishUp(t) \/ Drops(t) \/ Probes(t)
               \/ ProbeAnswers(t) \/ Release(t)
        PROVE  FALSE
    BY <2>6, <2>8 DEF Connects, ConnectFails, WaitCancelled, PublishDown, BackoffEnds,
        PublishUp, Drops, Probes, ProbeAnswers, Release, dataVars
  <2>9. CASE Controls
    BY <2>1, <2>2, <2>7, <2>9 DEF Controls, ReadMap
  <2>10. ASSUME NEW t \in Tasks, Answers(t) \/ Proceeds(t)
         PROVE  link[surface[n]] = "dead"
    BY <2>3, <2>4, <2>5, <2>8, <2>10 DEF Answers, Proceeds
  <2> QED
    BY <1>1, <2>7, <2>9, <2>10 DEF Next
<1>2. IInv /\ [Next]_vars => [\A n \in Names : Cause(n)]_vars
  BY <1>1
<1> QED
  BY <1>2, Invariant, PTL DEF Spec, LeavesForCause

-----------------------------------------------------------------------------
(* What the control task has seen of the map.                                *)

(* A task on its way out has no slot.  What the control task read last is   *)
(* the map, or a bump is still to tell it otherwise; while it waits, the    *)
(* slots are those of what it read.                                         *)
MapSeen ==
    /\ \A t \in Tasks : pc[t] \in {"ending", "refused"} => t \notin peers
    /\ control \in {"viewed", "waiting"} => view = connectors \/ seen < generation + owed
    /\ control = "waiting" => peers = {<<n, seen>> : n \in view}

(* Once no bump is owed and the control task has waited for none, the tasks *)
(* are those of the map: one for each connector, of the last generation.    *)
CaughtUp ==
    control = "waiting" /\ owed = 0 /\ generation = seen =>
        peers = {<<n, generation>> : n \in connectors}

(* A step of a task that spares the slots and what the control task knows.  *)
LEMMA TaskStays ==
  ASSUME IInv, MapSeen, NEW t \in Tasks, UNCHANGED <<registryVars, controlVars>>,
         peers' = peers, NEW place, Goto(t, place),
         place \in {"ending", "refused"} => t \notin peers
  PROVE  MapSeen'
BY DEF MapSeen, Goto, IInv, TypeOK, registryVars, controlVars

(* Each step of a task: one that leaves was cancelled or had lost its slot. *)
LEMMA TaskKeepsMap ==
  ASSUME IInv, MapSeen, NEW t \in Tasks, Answers(t) \/ Proceeds(t)
  PROVE  MapSeen'
<1>1. ASSUME t \in cancelled PROVE t \notin peers
  BY <1>1 DEF IInv, PeersRun
<1>2. CASE \/ Connects(t) \/ ConnectFails(t) \/ PublishDown(t) \/ BackoffEnds(t)
           \/ PublishUp(t) \/ Drops(t) \/ Probes(t)
  BY <1>2, TaskStays DEF Connects, ConnectFails, PublishDown, BackoffEnds, PublishUp, Drops,
      Probes, dataVars
<1>3. CASE MarkDegraded(t) \/ Uninstall(t)
  BY <1>3, TaskStays DEF MarkDegraded, Uninstall
<1>4. CASE ProbeAnswers(t)
  BY <1>4, TaskStays DEF ProbeAnswers, dataVars
<1>5. CASE WaitCancelled(t)
  BY <1>1, <1>5, TaskStays DEF WaitCancelled, dataVars
<1>6. CASE Install(t)
  <2>1. CASE Owns(t)
    BY <1>6, <2>1, TaskStays DEF Install
  <2>2. CASE ~ Owns(t)
    BY <1>1, <1>6, <2>2, TaskStays DEF Install, Owns
  <2> QED
    BY <2>1, <2>2
<1>7. CASE Release(t)
  <2>1. pc[t] = "refused" \/ t \in cancelled => t \notin peers
    BY <1>1 DEF MapSeen
  <2> QED
    BY <1>7, <2>1, TaskStays DEF Release, dataVars
<1>8. CASE Ends(t)
  <2>1. t \notin peers /\ {u \in {t} : Owns(u)} = {}
    BY <1>8 DEF Ends, MapSeen, Owns
  <2> QED
    BY <1>8, <2>1, TaskStays DEF Ends, Retire
<1> QED
  BY <1>2, <1>3, <1>4, <1>5, <1>6, <1>7, <1>8 DEF Answers, Proceeds

(* run_control reads the watch before the map, and replaces every slot.     *)
LEMMA ControlKeepsMap ==
  ASSUME IInv, MapSeen, Controls
  PROVE  MapSeen'
<1>1. seen \in Int /\ generation \in Int /\ owed \in Int
  BY SupervisorAssumption DEF IInv, TypeOK, Generations
<1>2. CASE ReadGeneration \/ ReadConnectors \/ Wake
  BY <1>2 DEF MapSeen, ReadGeneration, ReadConnectors, Wake, registryVars, dataVars
<1>3. CASE Reconcile
  <2>1. peers \subseteq Tasks /\ \A t \in peers : t[2] < seen
    BY <1>3 DEF IInv, TypeOK, PeersRun, Generated, Reconcile
  <2>2. Stale = peers
    BY <1>1, <2>1, TaskParts DEF Stale
  <2>3. peers' = {<<n, seen>> : n \in view}
    BY <1>3, <2>2 DEF Reconcile
  <2>4. ASSUME NEW t \in Tasks, t \in peers' PROVE pc'[t] = "connecting"
    <3>1. {NameOf(u) : u \in peers \ Stale} = {}
      BY <2>2
    <3>2. view \ {NameOf(u) : u \in peers \ Stale} = view
      BY <3>1
    <3>3. t \in {<<n, seen>> : n \in view \ {NameOf(u) : u \in peers \ Stale}}
      BY <2>3, <2>4, <3>2
    <3> QED
      BY <1>3, <3>3 DEF Reconcile
  <2> QED
    BY <1>3, <2>3, <2>4 DEF MapSeen, Reconcile, registryVars
<1>4. CASE StopAll
  BY <1>4 DEF MapSeen, StopAll, Retire, registryVars
<1> QED
  BY <1>2, <1>3, <1>4 DEF Controls, ReadMap

(* A write of the map owes a bump, and the bump outdates what was read.     *)
LEMMA StepMapSeen == IInv /\ MapSeen /\ [Next]_vars => MapSeen'
<1> SUFFICES ASSUME IInv, MapSeen, [Next]_vars PROVE MapSeen'
  OBVIOUS
<1>1. /\ seen \in Int /\ generation \in Int /\ owed \in Int /\ owed >= 0
      /\ seen <= generation
  BY SupervisorAssumption DEF IInv, TypeOK, Generations, Generated
<1>2. ASSUME NEW names \in SUBSET Names, Replace(names) PROVE MapSeen'
  BY <1>1, <1>2 DEF MapSeen, Replace, controlVars, dataVars
<1>3. CASE Bump
  BY <1>1, <1>3 DEF MapSeen, Bump, controlVars, dataVars
<1>4. CASE \/ DropRegistry \/ UNCHANGED vars
           \/ \E c \in Calls : Return(c) \/ \E n \in Names : Lookup(c, n)
           \/ \E s \in Sessions : Dies(s)
           \/ \E n \in Names : HalfOpens(n) \/ PoolFails(n) \/ PoolRecovers(n)
  BY <1>4 DEF MapSeen, DropRegistry, Return, Lookup, Dies, HalfOpens, PoolFails,
      PoolRecovers, vars, registryVars, controlVars, dataVars
<1> QED
  BY <1>2, <1>3, <1>4, TaskKeepsMap, ControlKeepsMap DEF Next

(* Whatever order writes, bumps, reads, deaths and cancels took, a control  *)
(* task that has nothing left to hear has the peers of the map: no change   *)
(* is lost between the watch and the lock, and no peer is lost while its    *)
(* connector stays (run_control, new_peers, hold).                          *)
THEOREM MapIsServed == Spec => []CaughtUp
<1>1. Init => MapSeen
  BY DEF Init, MapSeen
<1>2. IInv /\ MapSeen => CaughtUp
  <2> SUFFICES ASSUME IInv, MapSeen, control = "waiting", owed = 0, generation = seen
               PROVE  peers = {<<n, generation>> : n \in connectors}
    BY DEF CaughtUp
  <2>1. generation \in Int
    BY SupervisorAssumption DEF IInv, TypeOK, Generations
  <2> QED
    BY <2>1 DEF MapSeen
<1> QED
  BY <1>1, <1>2, StepMapSeen, Invariant, PTL DEF Spec
===============================================================================
