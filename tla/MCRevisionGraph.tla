--------------------------- MODULE MCRevisionGraph ---------------------------
(* Small instances of RevisionGraph for TLC. *)
EXTENDS RevisionGraphRefinement, QueryRewriting, TLC

\* "master" is 100 and "develop" 101; the branch called "2" has the name of
\* a revision number.
MCMaster == 100
MCNames == {2, 100}
MCTriples == Permutations(Triple)
=============================================================================
