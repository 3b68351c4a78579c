----------------------------- MODULE CommitSteps -----------------------------
(***************************************************************************)
(* Update requests as the endpoint runs them: each request in a thread of  *)
(* its own, as a chain of triplestore transactions without a lock around   *)
(* them.  Every client sends one request; the graph exists already.        *)
(*                                                                         *)
(* Reads that only commute with the other threads (the name of the branch, *)
(* the SPARQL rewriting) are left out.  Between any two steps the other    *)
(* threads may run, and the server may stop.                               *)
(***************************************************************************)
EXTENDS Integers, Sequences, FiniteSets

CONSTANTS
    Client,     \* the threads, one request each
    Branch,     \* the references the requests commit to
    Triple,
    Requests    \* the requests that clients may send

\* Revision 0 and one revision for each request.
Rev == 0..Cardinality(Client)

Request == [ref: Branch, add: SUBSET Triple, del: SUBSET Triple, header: BOOLEAN]

ASSUME RequestsAssumption == Requests \subseteq Request
ASSUME ClientAssumption == IsFiniteSet(Client)

VARIABLES
    revisions, wasDerivedFrom,
    changeSets,         \* pairs <<prior, succeeding>>: the metadata
    addSet, deleteSet,  \* the named graphs, for each such pair
    references, fullContent,
    pc,                 \* the next transaction of each thread
    request,            \* its request
    seen,               \* the revision information its client holds
    prior, number       \* derivedFromRevision, newRevisionIdentifier

store == <<revisions, wasDerivedFrom, changeSets, addSet, deleteSet,
           references, fullContent>>
vars == <<store, pc, request, seen, prior, number>>

NoRevision == -1

Edge == (Rev \cup {NoRevision}) \X Rev

Ended == {"ready", "done", "failed"}

\* Mutants: the number is drawn before the leaf is read; the sets are merged
\* before they are stripped; the branch is moved before its full graph is written;
\* the revision is only written for a query that the triplestore accepts.
NumberFirst == <<"check", "number", "leaf", "names", "changeSet", "revision", "fill",
                 "stripAdd", "stripDelete", "insert", "delete", "move", "done">>
StripLate == <<"check", "leaf", "number", "names", "changeSet", "revision", "fill",
               "insert", "delete", "stripAdd", "stripDelete", "move", "done">>
MoveEarly == <<"check", "leaf", "number", "names", "changeSet", "revision", "fill",
               "stripAdd", "stripDelete", "move", "insert", "delete", "done">>
RevisionLate == <<"check", "leaf", "number", "names", "changeSet", "fill", "revision",
                  "stripAdd", "stripDelete", "insert", "delete", "move", "done">>

\* The transactions of an update request in their order.
Order == <<"check", "leaf", "number", "names", "changeSet", "revision", "fill",
           "stripAdd", "stripDelete", "insert", "delete", "move", "done">>

After(step) == LET i == CHOOSE k \in 1..Len(Order) : Order[k] = step
               IN  Order[i + 1]

At(c, step) == pc[c] = step
Goes(c) == pc' = [pc EXCEPT ![c] = After(pc[c])]
Fails(c) == pc' = [pc EXCEPT ![c] = "failed"]

edge(c) == <<prior[c], number[c]>>
ref(c) == request[c].ref

-----------------------------------------------------------------------------
\* The client sends its request, perhaps with the revision information that it
\* got in the header of an earlier response.
Send(c) ==
    /\ At(c, "ready")
    /\ pc' = [pc EXCEPT ![c] = "check"]
    /\ seen' = [seen EXCEPT ![c] = references]
    /\ UNCHANGED <<store, request, prior, number>>

\* The commit draft is constructed: outdated revision information is refused.
CheckUpToDate(c) ==
    /\ At(c, "check")
    /\ IF request[c].header /\ seen[c] # references THEN Fails(c) ELSE Goes(c)
    /\ UNCHANGED <<store, request, seen, prior, number>>

\* The revision draft reads the leaf of the branch ...
ReadLeaf(c) ==
    /\ At(c, "leaf")
    /\ \/ /\ \A v, w \in references[ref(c)] : v = w
          /\ \E v \in references[ref(c)] : prior' = [prior EXCEPT ![c] = v]
          /\ Goes(c)
       \/ /\ \E v, w \in references[ref(c)] : v # w
          /\ Fails(c)
          /\ UNCHANGED prior
    /\ UNCHANGED <<store, request, seen, number>>

\* Mutant: one number is skipped.
NextButOne == {v + 2 : v \in {w \in revisions : \A u \in revisions : u <= w}}

\* The number after the highest one (no branch has a number for its name).
NextRevision == {v + 1 : v \in {w \in revisions : \A u \in revisions : u <= w}}

\* ... and the next number.
ReadNumber(c) ==
    /\ At(c, "number")
    /\ \E n \in NextRevision : number' = [number EXCEPT ![c] = n]
    /\ Goes(c)
    /\ UNCHANGED <<store, request, seen, prior>>

\* The change set draft refuses named graphs that the metadata knows.
CheckNames(c) ==
    /\ At(c, "names")
    /\ IF edge(c) \in changeSets THEN Fails(c) ELSE Goes(c)
    /\ UNCHANGED <<store, request, seen, prior, number>>

WriteChangeSet(c) ==
    /\ At(c, "changeSet")
    /\ changeSets' = changeSets \cup {edge(c)}
    /\ Goes(c)
    /\ UNCHANGED <<revisions, wasDerivedFrom, addSet, deleteSet, references,
                   fullContent, request, seen, prior, number>>

WriteRevision(c) ==
    /\ At(c, "revision")
    /\ revisions' = revisions \cup {number[c]}
    /\ wasDerivedFrom' = wasDerivedFrom \cup {<<number[c], prior[c]>>}
    /\ Goes(c)
    /\ UNCHANGED <<changeSets, addSet, deleteSet, references, fullContent,
                   request, seen, prior, number>>

\* The rewritten query inserts into the two graphs of the change set.
FillSets(c) ==
    /\ At(c, "fill")
    /\ addSet' = [addSet EXCEPT ![edge(c)] = @ \cup request[c].add]
    /\ deleteSet' = [deleteSet EXCEPT ![edge(c)] = @ \cup request[c].del]
    /\ Goes(c)
    /\ UNCHANGED <<revisions, wasDerivedFrom, changeSets, references,
                   fullContent, request, seen, prior, number>>

\* The triplestore rejects the rewritten query.
RejectSets(c) ==
    /\ At(c, "fill")
    /\ Fails(c)
    /\ UNCHANGED <<store, request, seen, prior, number>>

StripAddSet(c) ==
    /\ At(c, "stripAdd")
    /\ addSet' = [addSet EXCEPT ![edge(c)] = @ \ fullContent[ref(c)]]
    /\ Goes(c)
    /\ UNCHANGED <<revisions, wasDerivedFrom, changeSets, deleteSet,
                   references, fullContent, request, seen, prior, number>>

StripDeleteSet(c) ==
    /\ At(c, "stripDelete")
    /\ deleteSet' = [deleteSet EXCEPT ![edge(c)] = @ \cap fullContent[ref(c)]]
    /\ Goes(c)
    /\ UNCHANGED <<revisions, wasDerivedFrom, changeSets, addSet, references,
                   fullContent, request, seen, prior, number>>

\* Mutant: the content that the client's branch had is written back.
Replaced(r, triples) == triples

\* The triples of a set are added to what the full graph holds by now.
Merged(r, triples) == fullContent[r] \cup triples

InsertAddSet(c) ==
    /\ At(c, "insert")
    /\ fullContent' = [fullContent EXCEPT ![ref(c)] = Merged(ref(c), addSet[edge(c)])]
    /\ Goes(c)
    /\ UNCHANGED <<revisions, wasDerivedFrom, changeSets, addSet, deleteSet,
                   references, request, seen, prior, number>>

DeleteDeleteSet(c) ==
    /\ At(c, "delete")
    /\ fullContent' = [fullContent EXCEPT ![ref(c)] = @ \ deleteSet[edge(c)]]
    /\ Goes(c)
    /\ UNCHANGED <<revisions, wasDerivedFrom, changeSets, addSet, deleteSet,
                   references, request, seen, prior, number>>

\* Mutant: every target that is not a leaf of the graph any more is dropped.
MoveToLeaves(c) ==
    /\ At(c, "move")
    /\ references' = [references EXCEPT ![ref(c)] =
          {v \in @ \cup {number[c]} : \A e \in wasDerivedFrom : e[2] # v}]
    /\ Goes(c)
    /\ UNCHANGED <<revisions, wasDerivedFrom, changeSets, addSet, deleteSet,
                   fullContent, request, seen, prior, number>>

\* The old target is read from wasDerivedFrom, the first row of the answer.
MoveBranch(c) ==
    /\ At(c, "move")
    /\ \E e \in wasDerivedFrom :
          /\ e[1] = number[c]
          /\ references' = [references EXCEPT ![ref(c)] = (@ \ {e[2]}) \cup {number[c]}]
    /\ Goes(c)
    /\ UNCHANGED <<revisions, wasDerivedFrom, changeSets, addSet, deleteSet,
                   fullContent, request, seen, prior, number>>

\* The server stops: every request in progress is left where it is.
Crash ==
    /\ \E c \in Client : pc[c] \notin Ended
    /\ pc' = [c \in Client |-> IF pc[c] \in Ended THEN pc[c] ELSE "failed"]
    /\ UNCHANGED <<store, request, seen, prior, number>>

-----------------------------------------------------------------------------
\* A graph that was created with some content and whose branches are all at
\* revision 0 (an empty graph has no branch but the master).
Init ==
    /\ revisions = {0}
    /\ wasDerivedFrom = {}
    /\ changeSets = {<<NoRevision, 0>>}
    /\ references = [r \in Branch |-> {0}]
    /\ \E base \in SUBSET Triple :
          /\ base = {} => Cardinality(Branch) = 1
          /\ addSet = [e \in Edge |-> IF e = <<NoRevision, 0>> THEN base ELSE {}]
          /\ fullContent = [r \in Branch |-> base]
    /\ deleteSet = [e \in Edge |-> {}]
    /\ pc = [c \in Client |-> "ready"]
    /\ request \in [Client -> Requests]
    /\ seen = [c \in Client |-> references]
    /\ prior = [c \in Client |-> 0]
    /\ number = [c \in Client |-> 0]

Step(c) ==
    \/ Send(c)
    \/ CheckUpToDate(c) \/ ReadLeaf(c) \/ ReadNumber(c) \/ CheckNames(c)
    \/ WriteChangeSet(c) \/ WriteRevision(c)
    \/ FillSets(c) \/ RejectSets(c) \/ StripAddSet(c) \/ StripDeleteSet(c)
    \/ InsertAddSet(c) \/ DeleteDeleteSet(c) \/ MoveBranch(c)

\* Every request has been answered.
Rest == (\A c \in Client : pc[c] \in {"done", "failed"}) /\ UNCHANGED vars

InProgress(c) == pc[c] \notin Ended

\* Threads at the same time, as the endpoint runs them, and a server that may
\* stop and be started again.
Next == (\E c \in Client : Step(c)) \/ Crash \/ Rest
Spec == Init /\ [][Next]_vars

\* One request after the other.
SerialNext ==
    \/ \E c \in Client : Step(c) /\ \A d \in Client \ {c} : ~ InProgress(d)
    \/ Rest
SerialSpec == Init /\ [][SerialNext]_vars

-----------------------------------------------------------------------------
(***************************************************************************)
(* Properties.                                                             *)
(***************************************************************************)

\* Every variable has its type; the numbers that racing threads draw never
\* run ahead of the number of requests.
TypeOK ==
    /\ revisions \subseteq Rev
    /\ wasDerivedFrom \subseteq Rev \X Rev
    /\ changeSets \subseteq Edge
    /\ addSet \in [Edge -> SUBSET Triple]
    /\ deleteSet \in [Edge -> SUBSET Triple]
    /\ references \in [Branch -> SUBSET Rev]
    /\ fullContent \in [Branch -> SUBSET Triple]
    /\ pc \in [Client -> {Order[i] : i \in 1..Len(Order)} \cup Ended]
    /\ request \in [Client -> Requests]
    /\ seen \in [Client -> [Branch -> SUBSET Rev]]
    /\ prior \in [Client -> Rev]
    /\ number \in [Client -> Rev]

\* No request on branch r has drawn the change set of one on another branch.
Apart(r) == \A c, d \in Client :
                ref(c) = r /\ ref(d) # r /\ number[c] # 0 => edge(c) # edge(d)

\* However the threads of a branch interleave, even when two of them write to
\* the same change set: a triple that a finished request inserted is in the
\* branch, and one that it deleted is not, unless another request on it wanted
\* the opposite.  (Where a request of another branch got the same change set,
\* its triples reach this branch, too, and nothing is claimed.)
RequestsTakeEffect ==
    \A c \in Client : At(c, "done") /\ Apart(ref(c)) =>
        LET others == {d \in Client : ref(d) = ref(c)}
        IN  /\ request[c].add \ UNION {request[d].del : d \in others}
                  \subseteq fullContent[ref(c)]
            /\ request[c].del \ UNION {request[d].add : d \in others}
                  \subseteq Triple \ fullContent[ref(c)]

\* A branch never loses its last revision and never references one that does
\* not exist, though threads move it from leaves they read long before.
LeavesExist ==
    \A r \in Branch : references[r] # {} /\ references[r] \subseteq revisions

\* A revision is only derived from older ones, even one that two threads
\* write: following wasDerivedFrom always ends.
HistoryIsOrdered ==
    /\ \A e \in wasDerivedFrom : e[2] < e[1]
    /\ \A e \in changeSets : e[1] < e[2]

\* A request that passed its revision information on moves its branch away
\* from where its client saw it.
HeaderProtects ==
    [][\A c \in Client : MoveBranch(c) /\ request[c].header =>
          references[ref(c)] = seen[c][ref(c)]]_vars

\* The content of each revision as its change sets give it, from the one that
\* has no prior revision.
ContentOf[v \in Rev \cup {NoRevision}] ==
    IF v = NoRevision THEN {}
    ELSE UNION {(ContentOf[e[1]] \cup addSet[e]) \ deleteSet[e] :
                   e \in {d \in changeSets : d[2] = v}}

\* One request after the other, the names of a new change set are never taken,
\* not even after a request that left a revision behind when it was rejected:
\* no branch is closed for further commits.
NamesAreFree == \A c \in Client : At(c, "names") => edge(c) \notin changeSets

\* When no request is in progress, the full graph of a branch is the content
\* of its leaf.
Materialized ==
    (\A c \in Client : ~ InProgress(c)) =>
        \A r \in Branch : \A v \in references[r] : fullContent[r] = ContentOf[v]

-----------------------------------------------------------------------------
(***************************************************************************)
(* One request after the other, the chain of transactions is one step of   *)
(* VersionedGraph: the new revision counts when the branch is moved to it  *)
(* (or the request is rejected), and a branch is read between requests.    *)
(***************************************************************************)
Visible == {v \in revisions : \A c \in Client : InProgress(c) => number[c] # v \/ v = 0}

DerivedStar(v, u) ==
    \A S \in SUBSET Rev :
        (v \in S /\ \A e \in wasDerivedFrom : e[1] \in S => e[2] \in S) => u \in S

ViewOf(r) ==
    IF \E c \in Client : InProgress(c) /\ ref(c) = r
    THEN UNION {ContentOf[v] : v \in references[r]}
    ELSE fullContent[r]

Versioned == INSTANCE VersionedGraph
    WITH Ref <- Branch, Revision <- Rev, Content <- SUBSET Triple,
         recorded <- Visible,
         versions <- [v \in Rev |-> IF v \in Visible THEN ContentOf[v] ELSE {}],
         before <- {e \in Visible \X Visible : e[1] # e[2] /\ DerivedStar(e[1], e[2])},
         head <- references,
         view <- [r \in Branch |-> ViewOf(r)]

\* No request is seen in parts: not the revision that is written before its
\* branch, not the full graph that is written before the branch is moved.
AppearsAtomic == [][Versioned!Next]_(Versioned!vars)
=============================================================================
