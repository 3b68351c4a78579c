---------------------------- MODULE MCCommitSteps ----------------------------
(* Small instances of CommitSteps for TLC. *)
EXTENDS CommitSteps, TLC

CONSTANTS t1, t2, b1, b2

Of(r, add, del, header) == [ref |-> r, add |-> add, del |-> del, header |-> header]

\* Inserts, deletes and both, on two branches.
MCRequests == {Of(b1, {t1}, {}, FALSE), Of(b1, {t2}, {t1}, FALSE), Of(b2, {}, {t1, t2}, FALSE)}

\* With the revision information in the header.
MCCheckedRequests == {Of(b1, {t1}, {}, TRUE), Of(b1, {}, {t1}, TRUE)}

MCClients == Permutations(Client)
=============================================================================
