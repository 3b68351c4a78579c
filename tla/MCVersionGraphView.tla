-------------------------- MODULE MCVersionGraphView --------------------------
(* A small instance of VersionGraphView for TLC. *)
EXTENDS VersionGraphView, TLC

MCBranches == Permutations(Branch)
=============================================================================
