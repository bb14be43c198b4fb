----------------------------- MODULE MCSessionHub -----------------------------
(* Instances of the session hub for TLC.                                     *)
EXTENDS SessionHub, TLC

Symmetry == Permutations(Clients) \cup Permutations(Runs)
===============================================================================
