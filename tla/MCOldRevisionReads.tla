-------------------------- MODULE MCOldRevisionReads --------------------------
(* Small instances of OldRevisionReads for TLC. *)
EXTENDS OldRevisionReads, TLC

CONSTANT t1

MCMaster == 100
MCNames == {101}

\* The one triple is inserted; a REVERT takes it out again.
MCChanges == {<<{t1}, {}>>}

\* One query names two revisions; the second one is mostly at a reference.
MCQueries == {<<1, 2>>, <<0>>}

MCReaders == Permutations(Reader)
=============================================================================
