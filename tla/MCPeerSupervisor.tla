--------------------------- MODULE MCPeerSupervisor ---------------------------
(* Peers meet only in the control task's reconcile: one is enough for TLC.   *)
EXTENDS PeerSupervisor, TLC
===============================================================================
