----------------------------- MODULE MCCheckpoints -----------------------------
(* Instances of Checkpoints for TLC. *)
EXTENDS Checkpoints, TLC

Symmetry == Permutations(Contents)
==============================================================================
