---------------------------- MODULE GraphLifeCycle ----------------------------
(***************************************************************************)
(* The life of one graph under revision control: CREATE GRAPH and DROP     *)
(* GRAPH as chains of triplestore transactions, in threads that may        *)
(* overlap and in a server that may stop between any two of them.          *)
(*                                                                         *)
(* CREATE GRAPH sets out with an empty add set (all callers do); what the  *)
(* graph holds comes from updates.  An update is one step here, its triple *)
(* is named by the number of its revision.                                 *)
(***************************************************************************)
EXTENDS Integers, FiniteSets

CONSTANTS
    Thread,     \* the threads of the endpoint that serve CREATE and DROP
    MaxNumber   \* bound: the highest revision number that is modelled

ASSUME MaxNumberAssumption == MaxNumber \in Nat

Number == 0..MaxNumber

VARIABLES
    registered, \* Config.revision_graph lists the graph
    revisions,  \* resources of type rmo:Revision in the revision graph
    changeSets, \* those of type rmo:ChangeSet, by their number
    master,     \* what the master references
    addSets,    \* the named graphs of the add sets, by their number
    full,       \* the triples of the graph itself, the full graph of the master
    pc,         \* the next transaction of each thread
    number,     \* the revision number its CREATE has drawn
    graphs,     \* the named graphs its DROP has still to drop
    stuck,      \* an update has thrown with the writer lock taken
    overlapped, \* history: a CREATE or update was not alone in progress
    interrupted \* history: the server stopped with a request in progress

metadata == <<revisions, changeSets, master>>
store == <<registered, metadata, addSets, full>>
history == <<overlapped, interrupted>>
vars == <<store, pc, number, graphs, stuck, history>>

Creating == {"number", "check", "graph", "names", "changeSet", "revision", "draft",
             "master", "full", "register"}

Dropping == {"list", "drop", "unregister"}

\* Stands for the full graph in a list of named graphs.
FullGraph == -1

At(p, s) == pc[p] = s

InProgress == {p \in Thread : ~ At(p, "idle")}

Goes(p, s) == pc' = [pc EXCEPT ![p] = s]

\* The request ends with an error: no lock is taken.
Refused(p) == Goes(p, "idle") /\ UNCHANGED <<store, stuck>>

\* An update throws inside its transaction: the request ends, the lock stays.
Throws(p) == Goes(p, "idle") /\ stuck' = TRUE /\ UNCHANGED store

\* A request starts; those in others must not be in progress for it to have
\* the graph to itself.
Starts(p, s, others) ==
    /\ At(p, "idle")
    /\ Goes(p, s)
    /\ overlapped' = (overlapped \/ \E q \in InProgress : pc[q] \in others)
    /\ UNCHANGED <<store, number, graphs, stuck, interrupted>>

\* The metadata that a registered graph shows to checkNamedGraphExistence.
MasterIsNamed == registered /\ master # {}
ChangeSetIsNamed(n) == registered /\ n \in changeSets

\* Mutant: any number that is not in use.
IsUnused(n) == n \in Number /\ n \notin revisions

IsNext(n) ==
    /\ n \in Number
    /\ \A v \in revisions : v < n
    /\ n = 0 \/ n - 1 \in revisions

-----------------------------------------------------------------------------
(***************************************************************************)
(* CREATE GRAPH.                                                           *)
(***************************************************************************)

\* The revision graph must not be registered (otherwise nothing happens).
StartCreate(p) == ~ registered /\ Starts(p, "number", Creating \cup Dropping)

\* Mutant: the number is counted up once too often.
DrawNextButOne(p) ==
    /\ At(p, "number")
    /\ \E n \in Number : IsNext(n) /\ number' = [number EXCEPT ![p] = n + 1]
    /\ Goes(p, "check")
    /\ UNCHANGED <<store, graphs, stuck, history>>

\* The number comes from the revision graph, registered or not.
DrawNumber(p) ==
    /\ At(p, "number")
    /\ \E n \in Number : IsNext(n) /\ number' = [number EXCEPT ![p] = n]
    /\ Goes(p, "check")
    /\ UNCHANGED <<store, graphs, stuck, history>>

CheckGraph(p) ==
    /\ At(p, "check")
    /\ IF MasterIsNamed THEN Refused(p) ELSE Goes(p, "graph") /\ UNCHANGED <<store, stuck>>
    /\ UNCHANGED <<number, graphs, history>>

\* CREATE GRAPH, not SILENT: it throws on a graph that has triples and leaves
\* no trace of one that has none.
CreateGraph(p, s, next) ==
    /\ At(p, s)
    /\ ~ stuck
    /\ IF full # {} THEN Throws(p) ELSE Goes(p, next) /\ UNCHANGED <<store, stuck>>
    /\ UNCHANGED <<number, graphs, history>>

CheckNames(p) ==
    /\ At(p, "names")
    /\ IF ChangeSetIsNamed(number[p])
       THEN Refused(p)
       ELSE Goes(p, "changeSet") /\ UNCHANGED <<store, stuck>>
    /\ UNCHANGED <<number, graphs, history>>

WriteChangeSet(p) ==
    /\ At(p, "changeSet")
    /\ ~ stuck
    /\ changeSets' = changeSets \cup {number[p]}
    /\ Goes(p, "revision")
    /\ UNCHANGED <<registered, revisions, master, addSets, full, number, graphs, stuck, history>>

WriteRevision(p) ==
    /\ At(p, "revision")
    /\ ~ stuck
    /\ revisions' = revisions \cup {number[p]}
    /\ Goes(p, "draft")
    /\ UNCHANGED <<registered, changeSets, master, addSets, full, number, graphs, stuck, history>>

\* The draft of the master is constructed.
CheckMaster(p) ==
    /\ At(p, "draft")
    /\ IF MasterIsNamed THEN Refused(p) ELSE Goes(p, "master") /\ UNCHANGED <<store, stuck>>
    /\ UNCHANGED <<number, graphs, history>>

WriteMaster(p) ==
    /\ At(p, "master")
    /\ ~ stuck
    /\ master' = master \cup {number[p]}
    /\ Goes(p, "full")
    /\ UNCHANGED <<registered, revisions, changeSets, addSets, full, number, graphs, stuck, history>>

\* The empty change set is merged into the full graph, then the graph is listed
\* (and its commit is written, which no other request reads).
Register(p) ==
    /\ At(p, "register")
    /\ ~ stuck
    /\ registered' = TRUE
    /\ Goes(p, "idle")
    /\ UNCHANGED <<metadata, addSets, full, number, graphs, stuck, history>>

Create(p) ==
    \/ StartCreate(p) \/ DrawNumber(p) \/ CheckGraph(p) \/ CreateGraph(p, "graph", "names")
    \/ CheckNames(p) \/ WriteChangeSet(p) \/ WriteRevision(p) \/ CheckMaster(p)
    \/ WriteMaster(p) \/ CreateGraph(p, "full", "register") \/ Register(p)

-----------------------------------------------------------------------------
(***************************************************************************)
(* DROP GRAPH.                                                             *)
(***************************************************************************)

\* The revision graph is looked up (if there is none, nothing happens).
StartDrop(p) == registered /\ Starts(p, "list", Creating)

\* Mutant: the full graph is taken for data that the user keeps.
SetsOnly == changeSets

\* The named graphs that the metadata knows of.
NamedGraphs == changeSets \cup (IF master # {} THEN {FullGraph} ELSE {})

ListGraphs(p) ==
    /\ At(p, "list")
    /\ graphs' = [graphs EXCEPT ![p] = NamedGraphs]
    /\ Goes(p, "drop")
    /\ UNCHANGED <<store, number, stuck, history>>

\* DROP SILENT GRAPH, one graph after the other.
DropNamedGraph(p) ==
    /\ At(p, "drop")
    /\ ~ stuck
    /\ \E g \in graphs[p] :
          /\ graphs' = [graphs EXCEPT ![p] = @ \ {g}]
          /\ addSets' = addSets \ {g}
          /\ full' = IF g = FullGraph THEN {} ELSE full
    /\ UNCHANGED <<registered, metadata, pc, number, stuck, history>>

\* Mutant: the revision graph goes before the graphs that it names.
NoneNeedsIt(p) == TRUE

AllDropped(p) == graphs[p] = {}

DropMetadata(p) ==
    /\ At(p, "drop")
    /\ AllDropped(p)
    /\ ~ stuck
    /\ revisions' = {} /\ changeSets' = {} /\ master' = {}
    /\ Goes(p, "unregister")
    /\ UNCHANGED <<registered, addSets, full, number, graphs, stuck, history>>

\* No named graph and no metadata of the graph.
Nothing ==
    revisions = {} /\ changeSets = {} /\ master = {} /\ addSets = {} /\ full = {}

\* A graph of which nothing is left starts a new history.
Unregister(p) ==
    /\ At(p, "unregister")
    /\ ~ stuck
    /\ registered' = FALSE
    /\ Goes(p, "idle")
    /\ LET forgotten == InProgress = {p} /\ Nothing
       IN  /\ overlapped' = (overlapped /\ ~ forgotten)
           /\ interrupted' = (interrupted /\ ~ forgotten)
    /\ UNCHANGED <<metadata, addSets, full, number, graphs, stuck>>

DropGraph(p) ==
    StartDrop(p) \/ ListGraphs(p) \/ DropNamedGraph(p) \/ DropMetadata(p) \/ Unregister(p)

-----------------------------------------------------------------------------
\* An update on the master, which must reference one revision.
Update ==
    /\ registered
    /\ ~ stuck
    /\ \E v \in revisions, n \in Number :
          /\ master = {v}
          /\ IsNext(n)
          /\ ~ ChangeSetIsNamed(n)
          /\ revisions' = revisions \cup {n}
          /\ changeSets' = changeSets \cup {n}
          /\ addSets' = addSets \cup {n}
          /\ full' = full \cup {n}
          /\ master' = {n}
    /\ overlapped' = (overlapped \/ InProgress # {})
    /\ UNCHANGED <<registered, pc, number, graphs, stuck, interrupted>>

\* The server is stopped and started again.
Restart ==
    /\ pc' = [p \in Thread |-> "idle"]
    /\ stuck' = FALSE
    /\ interrupted' = (interrupted \/ InProgress # {})
    /\ UNCHANGED <<store, number, graphs, overlapped>>

Init ==
    /\ registered = FALSE
    /\ revisions = {} /\ changeSets = {} /\ master = {}
    /\ addSets = {} /\ full = {}
    /\ pc = [p \in Thread |-> "idle"]
    /\ number = [p \in Thread |-> 0]
    /\ graphs = [p \in Thread |-> {}]
    /\ stuck = FALSE
    /\ overlapped = FALSE /\ interrupted = FALSE

Next ==
    \/ \E p \in Thread : Create(p) \/ DropGraph(p)
    \/ Update
    \/ Restart

Spec == Init /\ [][Next]_vars
-----------------------------------------------------------------------------
(***************************************************************************)
(* Properties.                                                             *)
(***************************************************************************)

\* Every variable has its type.
LifeTypeOK ==
    /\ registered \in BOOLEAN
    /\ revisions \subseteq Number /\ changeSets \subseteq Number /\ master \subseteq Number
    /\ addSets \subseteq Number /\ full \subseteq Number
    /\ pc \in [Thread -> {"idle"} \cup Creating \cup Dropping]
    /\ number \in [Thread -> Number]
    /\ graphs \in [Thread -> SUBSET (Number \cup {FullGraph})]
    /\ stuck \in BOOLEAN /\ overlapped \in BOOLEAN /\ interrupted \in BOOLEAN

\* A DROP that only other DROPs overlap leaves nothing of the graph, even
\* if CREATEs, updates and DROPs before it were cut off at any point and
\* repeated: every named graph that was written is known to the metadata that
\* the DROP reads, which is dropped last.
DropLeavesNothing ==
    ~ overlapped => \A p \in Thread : At(p, "unregister") => Nothing

\* Only requests that overlap leave the writer lock taken: no graph that a
\* server left behind unfinished makes CREATE GRAPH throw.
OnlyOverlapsLock == ~ overlapped => ~ stuck

\* Without overlaps and interruptions the graph is there with one master at
\* its latest revision and all its triples, or it is not there at all.
Consistent ==
    IF registered
    THEN \E v \in revisions : /\ master = {v}
                              /\ revisions = 0..v /\ changeSets = 0..v
                              /\ addSets = 1..v /\ full = 1..v
    ELSE Nothing

GraphIsWholeOrGone == ~ overlapped /\ ~ interrupted /\ InProgress = {} => Consistent
=============================================================================
