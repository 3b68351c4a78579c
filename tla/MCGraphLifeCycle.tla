--------------------------- MODULE MCGraphLifeCycle ---------------------------
(* A small instance of GraphLifeCycle for TLC. *)
EXTENDS GraphLifeCycle, TLC

MCThreads == Permutations(Thread)
=============================================================================
