------------------------ MODULE GraphLifeCycleProofs ------------------------
(***************************************************************************)
(* Theorems about GraphLifeCycle, for every set of threads and every       *)
(* number of revisions.                                                    *)
(***************************************************************************)
EXTENDS GraphLifeCycle, TLAPS

USE MaxNumberAssumption

(***************************************************************************)
(* What is true of the store as long as no request overlapped another, be  *)
(* there requests that were cut off before or not.                         *)
(***************************************************************************)
Orderly ==
    /\ addSets \subseteq changeSets
    /\ full # {} => registered /\ master # {}
    /\ \A p \in Thread : pc[p] \in Creating =>
          ~ registered /\ \A q \in Thread : At(q, "idle") \/ q = p
    /\ \A p \in Thread : At(p, "drop") =>
          addSets \subseteq graphs[p] /\ (full # {} => FullGraph \in graphs[p])
    /\ \A p \in Thread : At(p, "unregister") => Nothing
    /\ ~ stuck

\* The store while thread p creates the graph, if nothing was there before.
Written(r, cs, m) ==
    revisions = r /\ changeSets = cs /\ master = m /\ addSets = {} /\ full = {}

InCreation(p) ==
    /\ pc[p] \in Creating \ {"number"} => number[p] = 0
    /\ pc[p] \in {"number", "check", "graph", "names", "changeSet"} => Nothing
    /\ At(p, "revision") => Written({}, {0}, {})
    /\ pc[p] \in {"draft", "master"} => Written({0}, {0}, {})
    /\ pc[p] \in {"full", "register"} => Written({0}, {0}, {0})

\* What is true if, besides, no request was cut off.
Whole ==
    /\ \A p \in Thread : InCreation(p)
    /\ InProgress = {} => Consistent

LifeInv ==
    /\ LifeTypeOK
    /\ ~ overlapped => Orderly
    /\ ~ overlapped /\ ~ interrupted => Whole

LEMMA LifeInit == Init => LifeInv
<1> SUFFICES ASSUME Init PROVE LifeInv
  OBVIOUS
<1>1. LifeTypeOK
  <2>1. pc \in [Thread -> {"idle"}] /\ number \in [Thread -> Number]
    BY DEF Init, Number
  <2>2. graphs \in [Thread -> SUBSET (Number \cup {FullGraph})]
    BY DEF Init
  <2> QED
    BY <2>1, <2>2 DEF Init, LifeTypeOK
<1>2. \A p \in Thread : pc[p] = "idle"
  BY DEF Init
<1>3. Orderly
  BY <1>2 DEF Init, Orderly, At, Creating
<1>4. Whole
  BY <1>2 DEF Init, Whole, InCreation, At, Creating, Consistent, Nothing
<1> QED
  BY <1>1, <1>3, <1>4 DEF LifeInv

-----------------------------------------------------------------------------
LEMMA TypeStep == LifeTypeOK /\ [Next]_vars => LifeTypeOK'
<1> SUFFICES ASSUME LifeTypeOK, [Next]_vars
             PROVE  LifeTypeOK'
  OBVIOUS
<1> USE DEF LifeTypeOK, At, Goes, Creating, Dropping, store, metadata, history
<1>1. ASSUME NEW p \in Thread, Create(p)
      PROVE  LifeTypeOK'
  <2>1. CASE StartCreate(p)
    BY <2>1 DEF StartCreate, Starts
  <2>2. CASE DrawNumber(p)
    BY <2>2 DEF DrawNumber, IsNext
  <2>3. CASE CheckGraph(p) \/ CheckNames(p) \/ CheckMaster(p)
    BY <2>3 DEF CheckGraph, CheckNames, CheckMaster, Refused
  <2>4. CASE CreateGraph(p, "graph", "names") \/ CreateGraph(p, "full", "register")
    BY <2>4 DEF CreateGraph, Throws
  <2>5. CASE WriteChangeSet(p) \/ WriteRevision(p) \/ WriteMaster(p) \/ Register(p)
    BY <2>5 DEF WriteChangeSet, WriteRevision, WriteMaster, Register
  <2> QED
    BY <1>1, <2>1, <2>2, <2>3, <2>4, <2>5 DEF Create
<1>2. ASSUME NEW p \in Thread, DropGraph(p)
      PROVE  LifeTypeOK'
  <2>1. CASE StartDrop(p)
    BY <2>1 DEF StartDrop, Starts
  <2>2. CASE ListGraphs(p)
    BY <2>2 DEF ListGraphs, NamedGraphs
  <2>3. CASE DropNamedGraph(p)
    BY <2>3 DEF DropNamedGraph
  <2>4. CASE DropMetadata(p)
    BY <2>4 DEF DropMetadata
  <2>5. CASE Unregister(p)
    BY <2>5 DEF Unregister
  <2> QED
    BY <1>2, <2>1, <2>2, <2>3, <2>4, <2>5 DEF DropGraph
<1>3. CASE Update
  BY <1>3 DEF Update, IsNext
<1>4. CASE Restart
  BY <1>4 DEF Restart
<1>5. CASE UNCHANGED vars
  BY <1>5 DEF vars
<1> QED
  BY <1>1, <1>2, <1>3, <1>4, <1>5 DEF Next

(***************************************************************************)
(* A CREATE that begins, or an update, beside another request makes        *)
(* overlapped true, and so does a DROP beside a CREATE.                    *)
(***************************************************************************)
LEMMA OrderlyStep ==
    ASSUME LifeTypeOK, ~ overlapped => Orderly, [Next]_vars, ~ overlapped'
    PROVE  Orderly'
<1> USE DEF LifeTypeOK, Orderly, At, Goes, Creating, Dropping, Nothing, store, metadata, history
<1>1. ASSUME NEW p \in Thread, Create(p)
      PROVE  Orderly'
  <2>1. CASE StartCreate(p)
    <3>1. ~ overlapped /\ \A q \in InProgress : pc[q] \notin Creating \cup Dropping
      BY <2>1 DEF StartCreate, Starts
    <3>2. \A q \in Thread : pc[q] = "idle"
      BY <3>1 DEF InProgress
    <3> QED
      BY <2>1, <3>1, <3>2 DEF StartCreate, Starts
  <2>2. CASE DrawNumber(p)
    BY <2>2 DEF DrawNumber
  <2>3. CASE CheckGraph(p) \/ CheckNames(p) \/ CheckMaster(p)
    BY <2>3 DEF CheckGraph, CheckNames, CheckMaster, Refused
  <2>4. CASE CreateGraph(p, "graph", "names") \/ CreateGraph(p, "full", "register")
    <3>1. full = {}
      BY <2>4 DEF CreateGraph
    <3> QED
      BY <2>4, <3>1 DEF CreateGraph
  <2>5. CASE WriteChangeSet(p)
    BY <2>5 DEF WriteChangeSet
  <2>6. CASE WriteRevision(p)
    BY <2>6 DEF WriteRevision
  <2>7. CASE WriteMaster(p)
    BY <2>7 DEF WriteMaster
  <2>8. CASE Register(p)
    BY <2>8 DEF Register
  <2> QED
    BY <1>1, <2>1, <2>2, <2>3, <2>4, <2>5, <2>6, <2>7, <2>8 DEF Create
<1>2. ASSUME NEW p \in Thread, DropGraph(p)
      PROVE  Orderly'
  <2>1. CASE StartDrop(p)
    BY <2>1 DEF StartDrop, Starts, InProgress
  <2>2. CASE ListGraphs(p)
    BY <2>2 DEF ListGraphs, NamedGraphs
  <2>3. CASE DropNamedGraph(p)
    BY <2>3 DEF DropNamedGraph
  <2>4. CASE DropMetadata(p)
    BY <2>4 DEF DropMetadata, AllDropped
  <2>5. CASE Unregister(p)
    BY <2>5 DEF Unregister, InProgress
  <2> QED
    BY <1>2, <2>1, <2>2, <2>3, <2>4, <2>5 DEF DropGraph
<1>3. CASE Update
  <2>1. \A p \in Thread : pc[p] = "idle"
    BY <1>3 DEF Update, InProgress
  <2> QED
    BY <1>3, <2>1 DEF Update
<1>4. CASE Restart
  BY <1>4 DEF Restart
<1>5. CASE UNCHANGED vars
  BY <1>5 DEF vars
<1> QED
  BY <1>1, <1>2, <1>3, <1>4, <1>5 DEF Next

(***************************************************************************)
(* A number is drawn from 0..v only once: it is v + 1.                     *)
(***************************************************************************)
LEMMA NextAfter ==
    ASSUME NEW v \in Number, revisions = 0..v, NEW n, IsNext(n)
    PROVE  n = v + 1 /\ 0..v \cup {n} = 0..n /\ 1..v \cup {n} = 1..n
<1>1. n \in Nat /\ v \in Nat /\ v < n
  BY DEF IsNext, Number
<1>2. n - 1 \in 0..v
  BY <1>1 DEF IsNext
<1>3. n = v + 1
  BY <1>1, <1>2
<1>4. 0..v \cup {v + 1} = 0..(v + 1)
  BY <1>1
<1>5. 1..v \cup {v + 1} = 1..(v + 1)
  BY <1>1
<1> QED
  BY <1>3, <1>4, <1>5

(***************************************************************************)
(* The steps of a CREATE that began when nothing was there, and updates,   *)
(* lead from whole graphs to whole graphs.                                 *)
(***************************************************************************)
LEMMA WholeStep ==
    ASSUME LifeInv, [Next]_vars, Orderly', ~ overlapped', ~ interrupted'
    PROVE  Whole'
<1> USE DEF At, Goes, Creating, Dropping, Nothing, Written, store, metadata, history
<1>1. LifeTypeOK
  BY DEF LifeInv
<1>2. ASSUME NEW p \in Thread, Create(p)
      PROVE  Whole'
  <2>1. ~ overlapped /\ ~ interrupted
    BY <1>2, <1>1 DEF Create, StartCreate, Starts, DrawNumber, CheckGraph, CreateGraph,
       CheckNames, WriteChangeSet, WriteRevision, CheckMaster, WriteMaster, Register, LifeTypeOK
  <2>2. Orderly /\ Whole
    BY <2>1 DEF LifeInv
  <2>3. CASE StartCreate(p)
    <3>1. \A q \in InProgress : pc[q] \notin Creating \cup Dropping
      BY <2>3, <2>1 DEF StartCreate, Starts
    <3>2. InProgress = {}
      BY <3>1, <1>1 DEF InProgress, LifeTypeOK
    <3>3. Nothing
      BY <3>2, <2>2, <2>3 DEF Whole, Consistent, StartCreate
    <3>4. pc' = [pc EXCEPT ![p] = "number"] /\ UNCHANGED store
      BY <2>3 DEF StartCreate, Starts
    <3>5. \A q \in Thread : q # p => pc[q] = "idle"
      BY <3>2 DEF InProgress
    <3>6. p \in InProgress'
      BY <3>4, <1>1 DEF InProgress, LifeTypeOK
    <3> QED
      BY <3>3, <3>4, <3>5, <3>6, <1>1 DEF Whole, InCreation, LifeTypeOK
  <2>4. ASSUME pc[p] \in Creating
        PROVE  Whole'
    <3>1. ~ registered /\ full = {} /\ \A q \in Thread : q # p => pc[q] = "idle"
      BY <2>4, <2>2 DEF Orderly
    <3>2. InCreation(p)
      BY <2>2 DEF Whole
    <3>3. SUFFICES InCreation(p)' /\ (pc'[p] = "idle" => Consistent')
                   /\ \A q \in Thread : q # p => pc'[q] = "idle"
      BY DEF Whole, InCreation, InProgress
    <3>4. \A q \in Thread : q # p => pc'[q] = "idle"
      BY <1>2, <1>1, <3>1 DEF Create, StartCreate, Starts, DrawNumber, CheckGraph, CreateGraph,
         Refused, Throws, CheckNames, WriteChangeSet, WriteRevision, CheckMaster, WriteMaster,
         Register, LifeTypeOK
    <3>5. CASE DrawNumber(p)
      BY <3>5, <3>2, <3>4, <1>1 DEF DrawNumber, IsNext, InCreation, LifeTypeOK, Number
    <3>6. CASE CheckGraph(p)
      BY <3>6, <3>1, <3>2, <3>4, <1>1 DEF CheckGraph, MasterIsNamed, InCreation, LifeTypeOK
    <3>7. CASE CreateGraph(p, "graph", "names")
      BY <3>7, <3>1, <3>2, <3>4, <1>1 DEF CreateGraph, InCreation, LifeTypeOK
    <3>8. CASE CheckNames(p)
      BY <3>8, <3>1, <3>2, <3>4, <1>1 DEF CheckNames, ChangeSetIsNamed, InCreation, LifeTypeOK
    <3>9. CASE WriteChangeSet(p)
      BY <3>9, <3>1, <3>2, <3>4, <1>1 DEF WriteChangeSet, InCreation, LifeTypeOK
    <3>10. CASE WriteRevision(p)
      BY <3>10, <3>1, <3>2, <3>4, <1>1 DEF WriteRevision, InCreation, LifeTypeOK
    <3>11. CASE CheckMaster(p)
      BY <3>11, <3>1, <3>2, <3>4, <1>1 DEF CheckMaster, MasterIsNamed, InCreation, LifeTypeOK
    <3>12. CASE WriteMaster(p)
      BY <3>12, <3>1, <3>2, <3>4, <1>1 DEF WriteMaster, InCreation, LifeTypeOK
    <3>13. CASE CreateGraph(p, "full", "register")
      BY <3>13, <3>1, <3>2, <3>4, <1>1 DEF CreateGraph, InCreation, LifeTypeOK
    <3>14. CASE Register(p)
      <4>1. 0..0 = {0} /\ 1..0 = {}
        OBVIOUS
      <4>2. Written({0}, {0}, {0})' /\ registered' /\ pc'[p] = "idle"
        BY <3>14, <3>2, <1>1 DEF Register, InCreation, LifeTypeOK
      <4> QED
        BY <4>1, <4>2, <3>4 DEF Consistent, InCreation
    <3>15. ~ StartCreate(p)
      BY <2>4 DEF StartCreate, Starts
    <3> QED
      BY <1>2, <3>5, <3>6, <3>7, <3>8, <3>9, <3>10, <3>11, <3>12, <3>13, <3>14, <3>15 DEF Create
  <2>5. StartCreate(p) \/ pc[p] \in Creating
    BY <1>2 DEF Create, DrawNumber, CheckGraph, CreateGraph,
       CheckNames, WriteChangeSet, WriteRevision, CheckMaster, WriteMaster, Register
  <2> QED
    BY <2>3, <2>4, <2>5
<1>3. ASSUME NEW p \in Thread, DropGraph(p)
      PROVE  Whole'
  <2>1. CASE Unregister(p)
    <3>1. pc[p] = "unregister" /\ pc' = [pc EXCEPT ![p] = "idle"] /\ registered' = FALSE
      BY <2>1 DEF Unregister
    <3>2. Nothing /\ Nothing'
      <4>1. (~ overlapped => Nothing) /\ (overlapped => Nothing)
        BY <2>1, <3>1 DEF LifeInv, Orderly, Unregister
      <4> QED
        BY <4>1, <2>1 DEF Unregister
    <3>3. \A q \in Thread : q # p => pc[q] \notin Creating
      <4>1. CASE overlapped
        BY <4>1, <2>1, <3>1 DEF Unregister, InProgress
      <4>2. CASE ~ overlapped
        BY <4>2, <3>1 DEF LifeInv, Orderly
      <4> QED
        BY <4>1, <4>2
    <3> QED
      BY <3>1, <3>2, <3>3, <1>1 DEF Whole, InCreation, Consistent, LifeTypeOK
  <2>2. ASSUME ~ Unregister(p)
        PROVE  Whole'
    <3>1. ~ overlapped /\ ~ interrupted
      BY <1>3, <2>2, <1>1 DEF DropGraph, StartDrop, Starts, ListGraphs, DropNamedGraph,
         DropMetadata, LifeTypeOK
    <3>2. Orderly /\ Whole
      BY <3>1 DEF LifeInv
    <3>3. \A q \in Thread : pc'[q] \notin Creating
      BY <1>3, <2>2, <1>1, <3>1, <3>2 DEF DropGraph, StartDrop, Starts, ListGraphs,
         DropNamedGraph, DropMetadata, Orderly, InProgress, LifeTypeOK
    <3>4. p \in InProgress'
      BY <1>3, <2>2, <1>1 DEF DropGraph, StartDrop, Starts, ListGraphs,
         DropNamedGraph, DropMetadata, InProgress, LifeTypeOK
    <3> QED
      BY <3>3, <3>4 DEF Whole, InCreation
  <2> QED
    BY <2>1, <2>2
<1>4. CASE Update
  <2>1. ~ overlapped /\ ~ interrupted /\ InProgress = {} /\ registered
    BY <1>4, <1>1 DEF Update, LifeTypeOK
  <2>2. PICK v \in revisions : /\ master = {v}
                               /\ revisions = 0..v /\ changeSets = 0..v
                               /\ addSets = 1..v /\ full = 1..v
    BY <2>1 DEF LifeInv, Whole, Consistent
  <2>3. PICK n \in Number : /\ IsNext(n)
                            /\ revisions' = revisions \cup {n}
                            /\ changeSets' = changeSets \cup {n}
                            /\ addSets' = addSets \cup {n}
                            /\ full' = full \cup {n}
                            /\ master' = {n}
    BY <1>4 DEF Update
  <2>4. v \in Number
    BY <2>2, <1>1 DEF LifeTypeOK
  <2>5. 0..v \cup {n} = 0..n /\ 1..v \cup {n} = 1..n
    BY <2>2, <2>3, <2>4, NextAfter
  <2>6. registered' /\ \A q \in Thread : pc'[q] = "idle"
    BY <1>4, <2>1 DEF Update, InProgress
  <2> QED
    BY <2>2, <2>3, <2>5, <2>6 DEF Whole, InCreation, Consistent
<1>5. CASE Restart
  <2>1. ~ overlapped /\ ~ interrupted /\ InProgress = {}
    BY <1>5, <1>1 DEF Restart, LifeTypeOK
  <2>2. Consistent
    BY <2>1 DEF LifeInv, Whole
  <2>3. Consistent'
    BY <1>5, <2>2 DEF Restart, Consistent
  <2> QED
    BY <1>5, <2>3 DEF Restart, Whole, InCreation
<1>6. CASE UNCHANGED vars
  BY <1>6 DEF vars, LifeInv, Whole, InCreation, Consistent, InProgress
<1> QED
  BY <1>2, <1>3, <1>4, <1>5, <1>6 DEF Next

\* The inductive invariant: what holds of a graph without overlaps, stops or not,
\* and where a CREATE that is alone stands.
THEOREM LifeInvariant == Spec => []LifeInv
<1>1. LifeInv /\ [Next]_vars => LifeInv'
  <2> SUFFICES ASSUME LifeInv, [Next]_vars
               PROVE  LifeInv'
    OBVIOUS
  <2>1. LifeTypeOK'
    BY TypeStep DEF LifeInv
  <2>2. ~ overlapped' => Orderly'
    BY OrderlyStep DEF LifeInv
  <2>3. ~ overlapped' /\ ~ interrupted' => Whole'
    BY <2>2, WholeStep
  <2> QED
    BY <2>1, <2>2, <2>3 DEF LifeInv
<1> QED
  BY LifeInit, <1>1, PTL DEF Spec

-----------------------------------------------------------------------------
\* Every variable of the life cycle keeps its type.
THEOREM LifeTyping == Spec => []LifeTypeOK
  BY LifeInvariant, PTL DEF LifeInv

\* DROP GRAPH leaves no named graph and no metadata behind, whatever number of
\* requests were cut off before it and whatever other DROPs run beside it.
THEOREM NothingIsLeft == Spec => []DropLeavesNothing
<1>1. LifeInv => DropLeavesNothing
  BY DEF LifeInv, Orderly, DropLeavesNothing
<1> QED
  BY LifeInvariant, <1>1, PTL

\* No unfinished graph makes CREATE GRAPH throw inside its write transaction:
\* without requests that overlap, the writer lock is never left taken.
THEOREM LockIsFree == Spec => []OnlyOverlapsLock
<1>1. LifeInv => OnlyOverlapsLock
  BY DEF LifeInv, Orderly, OnlyOverlapsLock
<1> QED
  BY LifeInvariant, <1>1, PTL

\* One request after the other: the graph has its metadata, its add sets and
\* its full graph, or nothing at all.
THEOREM WholeOrGone == Spec => []GraphIsWholeOrGone
<1>1. LifeInv => GraphIsWholeOrGone
  BY DEF LifeInv, Whole, GraphIsWholeOrGone
<1> QED
  BY LifeInvariant, <1>1, PTL
=============================================================================
