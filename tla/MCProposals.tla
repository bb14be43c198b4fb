------------------------------ MODULE MCProposals ------------------------------
(* Interchangeable taps on one proposal of every kind.                       *)
EXTENDS Proposals, TLC

Symmetry == Permutations(Taps)
===============================================================================
