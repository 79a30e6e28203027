---------------------------- MODULE MCRunManager ----------------------------
(* RunManager on small instances. *)
EXTENDS RunManager, TLC

Symmetry == Permutations(RunIds)
=============================================================================
