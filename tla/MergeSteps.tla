------------------------------ MODULE MergeSteps ------------------------------
(***************************************************************************)
(* Three-way merges as the endpoint runs them: each in a thread of its     *)
(* own, as a chain of triplestore transactions, beside updates of the      *)
(* branches and in a server that may stop.                                 *)
(*                                                                         *)
(* The temporary graphs have names that all merges of the graph share.  Of *)
(* their triples only the merges that wrote them are modelled, of a full   *)
(* graph only the revisions whose change sets it holds (what is in them is *)
(* the matter of ThreeWayMerge).  Writing a temporary graph, an update and *)
(* the rebuild of the common revision are one step each (their races are   *)
(* those of CommitSteps and OldRevisionReads).                             *)
(***************************************************************************)
EXTENDS Integers, Sequences

CONSTANTS
    Merge,      \* the threads, one MERGE request each
    Branch,
    MaxRevision \* bound: the highest revision number that is modelled

ASSUME BoundAssumption == MaxRevision \in Nat

Rev == 0..MaxRevision

VARIABLES
    revisions, wasDerivedFrom,
    changeSets,         \* pairs <<prior, succeeding>>
    references,
    applied,            \* the revisions whose change sets a full graph holds
    temp,               \* the merges that wrote to each temporary graph
    stuck,              \* an update has thrown with the writer lock taken
    pc, graph,          \* the next step of each merge, and its temporary graph
    from, into,         \* its request
    source, target,     \* the leaves it has read
    prior, number,      \* derivedFromRevision, newRevisionIdentifier
    committed,          \* history: <<branch, revision>> of answered requests
    disturbed,          \* history: merges that were not the only one in progress
    moved               \* history: merges whose source had moved on

metadata == <<revisions, wasDerivedFrom, changeSets, references>>
store == <<metadata, applied, temp, stuck>>
reads == <<source, target, prior, number>>
history == <<committed, disturbed, moved>>
vars == <<store, pc, graph, from, into, reads, history>>

Graphs == <<"from", "into", "diff", "merged">>

TempGraph == {Graphs[i] : i \in 1..Len(Graphs)}

\* Mutants: the change set of the source is written after the edge it stands
\* for; the full graph is written before the branch is moved.
EdgeFirst == <<"check", "source", "target", "drop", "create", "fill", "leaf", "number",
               "names", "changeSet", "revision", "sourceLeaf", "meta", "changeSetA", "move",
               "full", "done">>
FullFirst == <<"check", "source", "target", "drop", "create", "fill", "leaf", "number",
               "names", "changeSet", "revision", "sourceLeaf", "changeSetA", "meta", "full",
               "move", "done">>

\* The transactions of a merge in their order; drop, create and fill are
\* repeated for each temporary graph.
Order == <<"check", "source", "target", "drop", "create", "fill", "leaf", "number",
           "names", "changeSet", "revision", "sourceLeaf", "changeSetA", "meta", "move",
           "full", "done">>

After(step) == LET i == CHOOSE k \in 1..Len(Order) : Order[k] = step
               IN  Order[i + 1]

Ended == {"ready", "done", "failed"}

InProgress == {m \in Merge : pc[m] \notin Ended}

At(m, step) == pc[m] = step
Goes(m) == pc' = [pc EXCEPT ![m] = After(pc[m])]
Fails(m) == pc' = [pc EXCEPT ![m] = "failed"]

\* A write waits for the writer lock.
Writes(m, step) == At(m, step) /\ ~ stuck

\* rmo:wasDerivedFrom+ and *; a revision is derived from earlier ones.
Derived ==
    LET up[v \in Rev] ==
            UNION {{e[2]} \cup up[e[2]] : e \in {d \in wasDerivedFrom : d[1] = v}}
    IN  up

DerivedPlus(v, u) == u \in Derived[v]

DerivedStar(v, u) == v = u \/ DerivedPlus(v, u)

IsCommonRevision(u, v, c) ==
    /\ DerivedPlus(u, c) /\ DerivedPlus(v, c)
    /\ \E e \in wasDerivedFrom : e[2] = c /\ ~ (DerivedPlus(u, e[1]) /\ DerivedPlus(v, e[1]))

IsNextRevision(n) ==
    /\ n \in Rev
    /\ \A v \in revisions : v < n
    /\ n - 1 \in revisions

\* The one revision that r references; a second one makes the lookup fail.
IsLeaf(r, v) == references[r] = {v}

-----------------------------------------------------------------------------
(***************************************************************************)
(* Reading.                                                                *)
(***************************************************************************)
Send(m) ==
    /\ At(m, "ready")
    /\ pc' = [pc EXCEPT ![m] = "check"]
    /\ disturbed' = IF InProgress = {} THEN disturbed ELSE disturbed \cup InProgress \cup {m}
    /\ UNCHANGED <<store, graph, from, into, reads, committed, moved>>

\* Both leaves are looked up, to see whether they differ and whether the
\* merge is a fast-forward (another request, not followed here).
Check(m) ==
    /\ At(m, "check")
    /\ IF \E u, v \in revisions : /\ IsLeaf(from[m], u) /\ IsLeaf(into[m], v)
                                  /\ u # v /\ ~ DerivedPlus(u, v)
       THEN Goes(m)
       ELSE Fails(m)
    /\ UNCHANGED <<store, graph, from, into, reads, history>>

ReadSource(m) ==
    /\ At(m, "source")
    /\ \/ \E u \in revisions : /\ IsLeaf(from[m], u)
                               /\ source' = [source EXCEPT ![m] = u]
                               /\ Goes(m)
       \/ /\ \A u \in revisions : ~ IsLeaf(from[m], u)
          /\ Fails(m)
          /\ UNCHANGED source
    /\ UNCHANGED <<store, graph, from, into, target, prior, number, history>>

\* The target's leaf, and the common revision with the paths from it (history
\* is never taken back, so these may count as one).
ReadTarget(m) ==
    /\ At(m, "target")
    /\ \/ \E v \in revisions : /\ IsLeaf(into[m], v)
                               /\ \E c \in revisions : IsCommonRevision(source[m], v, c)
                               /\ target' = [target EXCEPT ![m] = v]
                               /\ Goes(m)
       \/ /\ \A v, c \in revisions : IsLeaf(into[m], v) => ~ IsCommonRevision(source[m], v, c)
          /\ Fails(m)
          /\ UNCHANGED target
    /\ UNCHANGED <<store, graph, from, into, source, prior, number, history>>

-----------------------------------------------------------------------------
(***************************************************************************)
(* The temporary graphs.                                                   *)
(***************************************************************************)

\* Mutant: left as another merge has left it.
LeftAsIs(g) == temp[g]

Dropped(g) == {}

\* DROP SILENT GRAPH
DropTemp(m) ==
    /\ Writes(m, "drop")
    /\ temp' = [temp EXCEPT ![graph[m]] = Dropped(graph[m])]
    /\ Goes(m)
    /\ UNCHANGED <<metadata, applied, stuck, graph, from, into, reads, history>>

\* CREATE GRAPH throws inside its transaction if the graph has triples.
CreateTemp(m) ==
    /\ Writes(m, "create")
    /\ IF temp[graph[m]] = {} THEN Goes(m) /\ UNCHANGED stuck ELSE Fails(m) /\ stuck' = TRUE
    /\ UNCHANGED <<metadata, applied, temp, graph, from, into, reads, history>>

\* What a graph is filled from: the progresses from the history, the difference
\* model from both progresses, the merged graph from the difference model.
ReadFor(g) ==
    IF g = "diff" THEN temp["from"] \cup temp["into"]
    ELSE IF g = "merged" THEN temp["diff"]
    ELSE {}

\* A progress holds the revisions' changes (which are never empty here); the
\* other graphs may stay empty.  The merged graph is a copy of the target
\* before it is changed: what was in it is gone.
FillTemp(m) ==
    /\ Writes(m, "fill")
    /\ \E own \in {{}, {m}} :
          /\ graph[m] \in {"from", "into"} => own = {m}
          /\ LET kept == IF graph[m] = "merged" THEN {} ELSE temp[graph[m]]
             IN  temp' = [temp EXCEPT ![graph[m]] = kept \cup ReadFor(graph[m]) \cup own]
    /\ \/ /\ graph[m] = "merged"
          /\ Goes(m)
          /\ UNCHANGED graph
       \/ \E i \in 1..(Len(Graphs) - 1) :
             /\ Graphs[i] = graph[m]
             /\ graph' = [graph EXCEPT ![m] = Graphs[i + 1]]
             /\ pc' = [pc EXCEPT ![m] = "drop"]
    /\ UNCHANGED <<metadata, applied, stuck, from, into, reads, history>>

\* MERGE without AUTO and WITH answers with the difference model if there is a
\* conflict.
ReportConflict(m) ==
    /\ At(m, "drop")
    /\ graph[m] = "merged"
    /\ pc' = [pc EXCEPT ![m] = "done"]
    /\ UNCHANGED <<store, graph, from, into, reads, history>>

-----------------------------------------------------------------------------
(***************************************************************************)
(* The commit.                                                             *)
(***************************************************************************)

\* The add and delete sets of both sides are queried from the merged graph;
\* the revision draft reads the leaf of the target again.
ReadLeaf(m) ==
    /\ At(m, "leaf")
    /\ \/ \E v \in revisions : /\ IsLeaf(into[m], v)
                               /\ prior' = [prior EXCEPT ![m] = v]
                               /\ Goes(m)
       \/ /\ \A v \in revisions : ~ IsLeaf(into[m], v)
          /\ Fails(m)
          /\ UNCHANGED prior
    /\ UNCHANGED <<store, graph, from, into, source, target, number, history>>

ReadNumber(m) ==
    /\ At(m, "number")
    /\ \E n \in Rev : IsNextRevision(n) /\ number' = [number EXCEPT ![m] = n]
    /\ Goes(m)
    /\ UNCHANGED <<store, graph, from, into, source, target, prior, history>>

CheckNames(m) ==
    /\ At(m, "names")
    /\ IF <<prior[m], number[m]>> \in changeSets THEN Fails(m) ELSE Goes(m)
    /\ UNCHANGED <<store, graph, from, into, reads, history>>

WriteChangeSet(m) ==
    /\ Writes(m, "changeSet")
    /\ changeSets' = changeSets \cup {<<prior[m], number[m]>>}
    /\ Goes(m)
    /\ UNCHANGED <<revisions, wasDerivedFrom, references, applied, temp, stuck,
                   graph, from, into, reads, history>>

WriteRevision(m) ==
    /\ Writes(m, "revision")
    /\ revisions' = revisions \cup {number[m]}
    /\ wasDerivedFrom' = wasDerivedFrom \cup {<<number[m], prior[m]>>}
    /\ Goes(m)
    /\ UNCHANGED <<changeSets, references, applied, temp, stuck,
                   graph, from, into, reads, history>>

\* The draft of the second change set reads the leaf of the source again: this
\* leaf becomes its prior revision (kept in prior from here on).
ReadSourceLeaf(m) ==
    /\ At(m, "sourceLeaf")
    /\ \/ \E u \in revisions :
             /\ IsLeaf(from[m], u)
             /\ <<u, number[m]>> \notin changeSets
             /\ prior' = [prior EXCEPT ![m] = u]
             /\ moved' = IF u = source[m] THEN moved ELSE moved \cup {m}
             /\ Goes(m)
       \/ /\ \A u \in revisions : IsLeaf(from[m], u) => <<u, number[m]>> \in changeSets
          /\ Fails(m)
          /\ UNCHANGED <<prior, moved>>
    /\ UNCHANGED <<store, graph, from, into, source, target, number, committed, disturbed>>

WriteSourceChangeSet(m) ==
    /\ Writes(m, "changeSetA")
    /\ changeSets' = changeSets \cup {<<prior[m], number[m]>>}
    /\ Goes(m)
    /\ UNCHANGED <<revisions, wasDerivedFrom, references, applied, temp, stuck,
                   graph, from, into, reads, history>>

\* The commit, and the edge to the source's leaf as it was read first.
WriteCommit(m) ==
    /\ Writes(m, "meta")
    /\ wasDerivedFrom' = wasDerivedFrom \cup {<<number[m], source[m]>>}
    /\ Goes(m)
    /\ UNCHANGED <<revisions, changeSets, references, applied, temp, stuck,
                   graph, from, into, reads, history>>

\* Mutants: the merged revision is not referenced; the branch references nothing
\* but the merged revision.
Left(m) == references[into[m]] \ {target[m]}

OnlyNew(m) == {number[m]}

\* The target's leaf as it was read first is deleted.
Moved(m) == (references[into[m]] \ {target[m]}) \cup {number[m]}

MoveBranch(m) ==
    /\ Writes(m, "move")
    /\ references' = [references EXCEPT ![into[m]] = Moved(m)]
    /\ Goes(m)
    /\ UNCHANGED <<revisions, wasDerivedFrom, changeSets, applied, temp, stuck,
                   graph, from, into, reads, history>>

\* The change set is merged into the full graph; the request is answered.
UpdateFullGraph(m) ==
    /\ Writes(m, "full")
    /\ applied' = [applied EXCEPT ![into[m]] = @ \cup {number[m]}]
    /\ Goes(m)
    /\ committed' = committed \cup {<<into[m], number[m]>>}
    /\ UNCHANGED <<metadata, temp, stuck, graph, from, into, reads, disturbed, moved>>

-----------------------------------------------------------------------------
\* An update of branch r.
Update(r) ==
    /\ ~ stuck
    /\ \E v \in revisions, n \in Rev :
          /\ IsLeaf(r, v)
          /\ IsNextRevision(n)
          /\ <<v, n>> \notin changeSets
          /\ revisions' = revisions \cup {n}
          /\ wasDerivedFrom' = wasDerivedFrom \cup {<<n, v>>}
          /\ changeSets' = changeSets \cup {<<v, n>>}
          /\ references' = [references EXCEPT ![r] = {n}]
          /\ applied' = [applied EXCEPT ![r] = @ \cup {n}]
          /\ committed' = committed \cup {<<r, n>>}
    /\ UNCHANGED <<temp, stuck, pc, graph, from, into, reads, disturbed, moved>>

\* The server is stopped and started again; what the merges had read is gone,
\* except for what the histories refer to.
Restart ==
    /\ InProgress # {} \/ stuck
    /\ pc' = [m \in Merge |-> IF m \in InProgress THEN "failed" ELSE pc[m]]
    /\ stuck' = FALSE
    /\ graph' = [m \in Merge |-> "from"]
    /\ target' = [m \in Merge |-> 0]
    /\ prior' = [m \in Merge |-> 0]
    /\ UNCHANGED <<metadata, applied, temp, from, into, source, number, history>>

\* A graph whose branches are all at revision 0.
Init ==
    /\ revisions = {0} /\ wasDerivedFrom = {} /\ changeSets = {}
    /\ references = [r \in Branch |-> {0}]
    /\ applied = [r \in Branch |-> {0}]
    /\ temp = [g \in TempGraph |-> {}]
    /\ stuck = FALSE
    /\ pc = [m \in Merge |-> "ready"]
    /\ graph = [m \in Merge |-> "from"]
    /\ from \in [Merge -> Branch]
    /\ into \in [Merge -> Branch]
    /\ \A m \in Merge : from[m] # into[m]
    /\ source = [m \in Merge |-> 0] /\ target = [m \in Merge |-> 0]
    /\ prior = [m \in Merge |-> 0] /\ number = [m \in Merge |-> 0]
    /\ committed = {} /\ disturbed = {} /\ moved = {}

Step(m) ==
    \/ Send(m) \/ Check(m) \/ ReadSource(m) \/ ReadTarget(m)
    \/ DropTemp(m) \/ CreateTemp(m) \/ FillTemp(m) \/ ReportConflict(m)
    \/ ReadLeaf(m) \/ ReadNumber(m) \/ CheckNames(m) \/ WriteChangeSet(m) \/ WriteRevision(m)
    \/ ReadSourceLeaf(m) \/ WriteSourceChangeSet(m) \/ WriteCommit(m)
    \/ MoveBranch(m) \/ UpdateFullGraph(m)

Next ==
    \/ \E m \in Merge : Step(m)
    \/ \E r \in Branch : Update(r)
    \/ Restart

Spec == Init /\ [][Next]_vars

-----------------------------------------------------------------------------
(***************************************************************************)
(* Properties.                                                             *)
(***************************************************************************)

\* Every variable has its type; a branch always has a revision.
StepsTypeOK ==
    /\ revisions \subseteq Rev
    /\ wasDerivedFrom \subseteq revisions \X revisions
    /\ changeSets \subseteq Rev \X Rev
    /\ references \in [Branch -> (SUBSET revisions) \ {{}}]
    /\ applied \in [Branch -> SUBSET revisions]
    /\ temp \in [TempGraph -> SUBSET Merge]
    /\ stuck \in BOOLEAN
    /\ pc \in [Merge -> {Order[i] : i \in 1..Len(Order)} \cup Ended]
    /\ graph \in [Merge -> TempGraph]
    /\ from \in [Merge -> Branch] /\ into \in [Merge -> Branch]
    /\ source \in [Merge -> Rev] /\ target \in [Merge -> Rev]
    /\ prior \in [Merge -> Rev] /\ number \in [Merge -> Rev]
    /\ committed \subseteq Branch \X Rev
    /\ disturbed \subseteq Merge /\ moved \subseteq Merge

\* Whatever merges and updates run beside each other, and wherever the server
\* stops: the revision of a request that was answered stays in the history of
\* a revision that its branch references, although a merge moves the branch
\* away from a leaf that it read long ago.
NothingIsLost ==
    \A c \in committed : \E v \in references[c[1]] : DerivedStar(v, c[2])

\* A merge that was the only one in progress works on what it has written
\* itself, and is not stopped by what others have left, cut off where they may.
UndisturbedMergesAreAlone ==
    \A m \in Merge \ disturbed :
        /\ At(m, "leaf") => temp["merged"] \subseteq {m}
        /\ At(m, "create") => temp[graph[m]] = {}

\* A full graph never holds a change set that its branch does not lead to, not
\* even after the server has stopped: it may be behind, but not ahead.
FullGraphIsNotAhead ==
    \A r \in Branch : \A n \in applied[r] : \E v \in references[r] : DerivedStar(v, n)

\* Every edge of the history has its change set, so that paths can be found
\* along it, except for that from a merged revision to a source branch that
\* has moved on during the merge.
EdgesHaveChangeSets ==
    \A e \in wasDerivedFrom :
        \/ <<e[2], e[1]>> \in changeSets
        \/ \E m \in moved : e = <<number[m], source[m]>>
=============================================================================
