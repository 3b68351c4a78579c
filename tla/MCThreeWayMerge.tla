--------------------------- MODULE MCThreeWayMerge ---------------------------
(* Small instances of ThreeWayMerge for TLC. *)
EXTENDS ThreeWayMerge, QueryRewriting, TLC

CONSTANT t1

\* "master" is 100, "develop" 101 and "topic" 102.
MCMaster == 100
MCNames == {101}
MCTwoNames == {101, 102}

\* One triple comes and goes.
MCChanges == {<<{t1}, {}>>, <<{}, {t1}>>}
MCAdditions == {<<{t1}, {}>>}

MCPlain == [t \in Triple |-> t]
=============================================================================
