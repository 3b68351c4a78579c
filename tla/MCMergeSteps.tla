---------------------------- MODULE MCMergeSteps ----------------------------
(* A small instance of MergeSteps for TLC. *)
EXTENDS MergeSteps, TLC

MCSymmetry == Permutations(Merge) \cup Permutations(Branch)
=============================================================================
