--------------------------- MODULE VersionedGraph ---------------------------
(***************************************************************************)
(* What a graph under revision control promises its clients, without       *)
(* change sets, full graphs, rebuilds or anything else of how R43ples      *)
(* stores it: revisions whose content never changes, references that are   *)
(* heads of the history, and a view of each reference that is always the   *)
(* content of its head.                                                    *)
(***************************************************************************)
CONSTANTS
    Ref,        \* references: branches and tags
    Revision,   \* revision numbers
    Content     \* contents a graph can have

VARIABLES
    recorded,   \* the revisions that exist
    versions,   \* content of each revision, Blank for those that do not exist
    before,     \* pairs <<later, earlier>>, transitively closed
    head,       \* the revision each reference is at, {} without a reference
    view        \* what a client reads of each reference, Blank without one

vars == <<recorded, versions, before, head, view>>

Blank == {}

Init ==
    /\ recorded = {}
    /\ versions = [v \in Revision |-> Blank]
    /\ before = {}
    /\ head = [r \in Ref |-> {}]
    /\ view = [r \in Ref |-> Blank]

\* The graph appears with its first revision and one reference to it.
Create(r, n, c) ==
    /\ recorded = {}
    /\ recorded' = {n}
    /\ versions' = [versions EXCEPT ![n] = c]
    /\ head' = [head EXCEPT ![r] = {n}]
    /\ view' = [view EXCEPT ![r] = c]
    /\ UNCHANGED before

\* A new revision n with content c after v.
Record(v, n, c) ==
    /\ v \in recorded
    /\ n \notin recorded
    /\ recorded' = recorded \cup {n}
    /\ versions' = [versions EXCEPT ![n] = c]
    /\ before' = before \cup {<<n, u>> : u \in {w \in recorded : w = v \/ <<v, w>> \in before}}

\* A commit moves its reference to the new revision.
Commit(r, v, n, c) ==
    /\ head[r] = {v}
    /\ Record(v, n, c)
    /\ head' = [head EXCEPT ![r] = {n}]
    /\ view' = [view EXCEPT ![r] = c]

\* A commit that fails may leave a revision behind that changes nothing.
Fail(v, n) ==
    /\ Record(v, n, versions[v])
    /\ UNCHANGED <<head, view>>

\* BRANCH and TAG: a reference to any revision, in one step.
Point(r, v) ==
    /\ head[r] = {}
    /\ v \in recorded
    /\ head' = [head EXCEPT ![r] = {v}]
    /\ view' = [view EXCEPT ![r] = versions[v]]
    /\ UNCHANGED <<recorded, versions, before>>

\* A merge without a conflict only ever moves a reference forward.
FastForward(f, u, r, v) ==
    /\ head[f] = {u}
    /\ head[r] = {v}
    /\ <<u, v>> \in before
    /\ head' = [head EXCEPT ![r] = {u}]
    /\ view' = [view EXCEPT ![r] = versions[u]]
    /\ UNCHANGED <<recorded, versions, before>>

Drop ==
    /\ recorded' = {}
    /\ versions' = [v \in Revision |-> Blank]
    /\ before' = {}
    /\ head' = [r \in Ref |-> {}]
    /\ view' = [r \in Ref |-> Blank]

Next ==
    \/ \E r \in Ref, v, n \in Revision, c \in Content :
          Create(r, n, c) \/ Commit(r, v, n, c)
    \/ \E v, n \in Revision : Fail(v, n)
    \/ \E r \in Ref, v \in Revision : Point(r, v)
    \/ \E f, r \in Ref, u, v \in Revision : FastForward(f, u, r, v)
    \/ Drop

Spec == Init /\ [][Next]_vars
=============================================================================
