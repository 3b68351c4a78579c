--------------------------- MODULE MergeStepsProofs ---------------------------
(***************************************************************************)
(* Theorems about MergeSteps: what holds of the history that merges write, *)
(* for every number of merges, branches and revisions, however the merges  *)
(* and updates interleave and wherever the server stops.                   *)
(***************************************************************************)
EXTENDS MergeSteps, WellFoundedInduction, TLAPS

USE BoundAssumption

Steps == {"check", "source", "target", "drop", "create", "fill", "leaf", "number", "names",
          "changeSet", "revision", "sourceLeaf", "changeSetA", "meta", "move", "full", "done"}

LEMMA OrderOfSteps ==
    /\ {Order[i] : i \in 1..Len(Order)} = Steps
    /\ After("check") = "source" /\ After("source") = "target" /\ After("target") = "drop"
    /\ After("drop") = "create" /\ After("create") = "fill" /\ After("fill") = "leaf"
    /\ After("leaf") = "number" /\ After("number") = "names" /\ After("names") = "changeSet"
    /\ After("changeSet") = "revision" /\ After("revision") = "sourceLeaf"
    /\ After("sourceLeaf") = "changeSetA" /\ After("changeSetA") = "meta"
    /\ After("meta") = "move" /\ After("move") = "full" /\ After("full") = "done"
<1>1. /\ Len(Order) = 17
      /\ 1..17 = {1, 2, 3, 4, 5, 6, 7, 8, 9, 10, 11, 12, 13, 14, 15, 16, 17}
  BY DEF Order
<1>2. /\ Order[1] = "check" /\ Order[2] = "source" /\ Order[3] = "target"
      /\ Order[4] = "drop" /\ Order[5] = "create" /\ Order[6] = "fill"
      /\ Order[7] = "leaf" /\ Order[8] = "number" /\ Order[9] = "names"
      /\ Order[10] = "changeSet" /\ Order[11] = "revision" /\ Order[12] = "sourceLeaf"
      /\ Order[13] = "changeSetA" /\ Order[14] = "meta" /\ Order[15] = "move"
      /\ Order[16] = "full" /\ Order[17] = "done"
  BY DEF Order
<1>3. {Order[i] : i \in 1..Len(Order)} = Steps
  BY <1>1, <1>2 DEF Steps
<1>4. \A i \in 1..16 : After(Order[i]) = Order[i + 1]
  <2> SUFFICES ASSUME NEW i \in 1..16 PROVE After(Order[i]) = Order[i + 1]
    OBVIOUS
  <2>1. \A k \in 1..17 : Order[k] = Order[i] => k = i
    BY <1>1, <1>2
  <2>2. (CHOOSE k \in 1..Len(Order) : Order[k] = Order[i]) = i
    BY <1>1, <2>1
  <2> QED
    BY <2>2 DEF After
<1>5. /\ After(Order[1]) = Order[2] /\ After(Order[2]) = Order[3]
      /\ After(Order[3]) = Order[4] /\ After(Order[4]) = Order[5]
      /\ After(Order[5]) = Order[6] /\ After(Order[6]) = Order[7]
      /\ After(Order[7]) = Order[8] /\ After(Order[8]) = Order[9]
      /\ After(Order[9]) = Order[10] /\ After(Order[10]) = Order[11]
      /\ After(Order[11]) = Order[12] /\ After(Order[12]) = Order[13]
      /\ After(Order[13]) = Order[14] /\ After(Order[14]) = Order[15]
      /\ After(Order[15]) = Order[16] /\ After(Order[16]) = Order[17]
  BY <1>4
<1> QED
  BY <1>2, <1>3, <1>5

LEMMA TempGraphs ==
    /\ TempGraph = {"from", "into", "diff", "merged"}
    /\ \A i \in 1..(Len(Graphs) - 1) : Graphs[i + 1] \in TempGraph
<1>1. Len(Graphs) = 4 /\ 1..4 = {1, 2, 3, 4}
  BY DEF Graphs
<1>2. Graphs[1] = "from" /\ Graphs[2] = "into" /\ Graphs[3] = "diff" /\ Graphs[4] = "merged"
  BY DEF Graphs
<1> QED
  BY <1>1, <1>2 DEF TempGraph

-----------------------------------------------------------------------------
(***************************************************************************)
(* What a merge has read stays in the history, which only grows; what it   *)
(* has written, it has written with what it has read.  Whether its source  *)
(* has moved on is settled when the source's leaf is read again.           *)
(***************************************************************************)
HasRevision == {"sourceLeaf", "changeSetA", "meta", "move", "full"}

SourceSettled == {"changeSetA", "meta", "move", "full", "done", "failed"}

ReadsStand ==
    /\ 0 \in revisions
    /\ source \in [Merge -> revisions]
    /\ target \in [Merge -> revisions]
    /\ prior \in [Merge -> revisions]

WritesStand ==
    \A m \in Merge :
        /\ pc[m] \in HasRevision => number[m] \in revisions
        /\ pc[m] = "revision" => <<prior[m], number[m]>> \in changeSets
        /\ pc[m] = "changeSetA" => m \in moved \/ prior[m] = source[m]
        /\ pc[m] = "meta" => m \in moved \/ <<source[m], number[m]>> \in changeSets
        /\ m \in moved => pc[m] \in SourceSettled

\* StepsTypeOK in parts.
HistoryTypeOK ==
    /\ revisions \subseteq Rev
    /\ wasDerivedFrom \subseteq revisions \X revisions
    /\ changeSets \subseteq Rev \X Rev

BranchesOK ==
    \A r \in Branch : /\ references[r] \subseteq revisions /\ references[r] # {}
                      /\ applied[r] \subseteq revisions

BranchesTypeOK ==
    /\ references = [r \in Branch |-> references[r]]
    /\ applied = [r \in Branch |-> applied[r]]
    /\ BranchesOK

TempTypeOK ==
    /\ temp \in [TempGraph -> SUBSET Merge]
    /\ stuck \in BOOLEAN
    /\ graph \in [Merge -> TempGraph]

ThreadsTypeOK ==
    /\ pc \in [Merge -> Steps \cup Ended]
    /\ from \in [Merge -> Branch] /\ into \in [Merge -> Branch]
    /\ source \in [Merge -> Rev] /\ target \in [Merge -> Rev]
    /\ prior \in [Merge -> Rev] /\ number \in [Merge -> Rev]

AnswersTypeOK ==
    /\ committed \subseteq Branch \X Rev
    /\ disturbed \subseteq Merge /\ moved \subseteq Merge

Typing == HistoryTypeOK /\ BranchesTypeOK /\ TempTypeOK /\ ThreadsTypeOK /\ AnswersTypeOK

LEMMA TypingSuffices == Typing => StepsTypeOK
<1> SUFFICES ASSUME Typing PROVE StepsTypeOK
  OBVIOUS
<1>0. /\ references = [r \in Branch |-> references[r]]
      /\ applied = [r \in Branch |-> applied[r]]
  BY DEF Typing, BranchesTypeOK
<1>a. ASSUME NEW r \in Branch
      PROVE  references[r] \in (SUBSET revisions) \ {{}} /\ applied[r] \in SUBSET revisions
  <2>1. references[r] \subseteq revisions /\ references[r] # {} /\ applied[r] \subseteq revisions
    BY DEF Typing, BranchesTypeOK, BranchesOK
  <2> QED
    BY <2>1, Zenon
<1>1. /\ references \in [Branch -> (SUBSET revisions) \ {{}}]
      /\ applied \in [Branch -> SUBSET revisions]
  BY <1>0, <1>a
<1>2. pc \in [Merge -> {Order[i] : i \in 1..Len(Order)} \cup Ended]
  BY OrderOfSteps DEF Typing, ThreadsTypeOK
<1> QED
  BY <1>1, <1>2 DEF StepsTypeOK, Typing, HistoryTypeOK, TempTypeOK, ThreadsTypeOK, AnswersTypeOK

MergeInv == Typing /\ ReadsStand /\ WritesStand /\ EdgesHaveChangeSets

LEMMA InitiallySo == Init => MergeInv
<1> SUFFICES ASSUME Init PROVE MergeInv
  OBVIOUS
<1>1. 0 \in Rev
  BY DEF Rev
<1>2. HistoryTypeOK /\ BranchesTypeOK
  BY <1>1 DEF Init, HistoryTypeOK, BranchesTypeOK, BranchesOK
<1>3. TempTypeOK
  BY TempGraphs DEF Init, TempTypeOK
<1>4. ThreadsTypeOK /\ AnswersTypeOK
  BY <1>1 DEF Init, ThreadsTypeOK, AnswersTypeOK, Ended
<1>5. ReadsStand
  BY DEF Init, ReadsStand
<1>6. WritesStand /\ EdgesHaveChangeSets
  BY DEF Init, WritesStand, EdgesHaveChangeSets, HasRevision, SourceSettled
<1> QED
  BY <1>2, <1>3, <1>4, <1>5, <1>6 DEF MergeInv, Typing

\* The edges that stand keep their change sets, or the merge that has written
\* them without.
LEMMA EdgesStand ==
    ASSUME EdgesHaveChangeSets, changeSets \subseteq changeSets', moved \subseteq moved',
           \A m \in moved : number'[m] = number[m] /\ source'[m] = source[m],
           \A e \in wasDerivedFrom' : e \notin wasDerivedFrom =>
               \/ <<e[2], e[1]>> \in changeSets'
               \/ \E m \in moved' : e = <<number'[m], source'[m]>>
    PROVE  EdgesHaveChangeSets'
<1> SUFFICES ASSUME NEW e \in wasDerivedFrom, <<e[2], e[1]>> \notin changeSets'
             PROVE  \E m \in moved' : e = <<number'[m], source'[m]>>
  BY DEF EdgesHaveChangeSets
<1>1. PICK m \in moved : e = <<number[m], source[m]>>
  BY DEF EdgesHaveChangeSets
<1> QED
  BY <1>1

\* A step that moves a merge on to a step before its revision, or ends it, and
\* writes no metadata.
LEMMA PcStep ==
    ASSUME MergeInv, NEW m \in Merge, NEW s,
           s \in (Steps \cup Ended) \ ({"revision"} \cup HasRevision),
           pc' = [pc EXCEPT ![m] = s], m \in moved => s \in SourceSettled,
           UNCHANGED <<metadata, applied, from, into, reads, committed, moved>>,
           TempTypeOK', disturbed' \subseteq Merge
    PROVE  MergeInv'
<1>1. HistoryTypeOK' /\ BranchesTypeOK' /\ ThreadsTypeOK' /\ AnswersTypeOK'
  BY DEF MergeInv, Typing, HistoryTypeOK, BranchesTypeOK, BranchesOK, ThreadsTypeOK, AnswersTypeOK,
         metadata, reads
<1>2. ReadsStand'
  BY DEF MergeInv, ReadsStand, metadata, reads
<1>3. WritesStand'
  BY DEF MergeInv, Typing, ThreadsTypeOK, WritesStand, metadata, reads, HasRevision, SourceSettled
<1>4. EdgesHaveChangeSets'
  BY EdgesStand DEF MergeInv, metadata, reads
<1> QED
  BY <1>1, <1>2, <1>3, <1>4 DEF MergeInv, Typing

-----------------------------------------------------------------------------
\* The steps that read, and those that write temporary graphs.
LEMMA ReadSteps ==
    ASSUME MergeInv, NEW m \in Merge,
           \/ Send(m) \/ Check(m) \/ DropTemp(m) \/ CreateTemp(m) \/ FillTemp(m)
           \/ ReportConflict(m) \/ CheckNames(m)
    PROVE  MergeInv'
<1> USE OrderOfSteps DEF Goes, Fails, At, Writes, store, history, metadata, reads, Steps, Ended,
        HasRevision, SourceSettled
<1>1. pc[m] \notin SourceSettled => m \notin moved
  BY DEF MergeInv, WritesStand
<1>2. TempTypeOK /\ disturbed \subseteq Merge
  BY DEF MergeInv, Typing, AnswersTypeOK
<1>3. CASE Send(m)
  BY <1>1, <1>2, <1>3, PcStep DEF Send, InProgress, TempTypeOK
<1>4. CASE Check(m)
  BY <1>1, <1>2, <1>4, PcStep DEF Check, TempTypeOK
<1>5. CASE DropTemp(m)
  BY <1>1, <1>2, <1>5, PcStep DEF DropTemp, Dropped, TempTypeOK
<1>6. CASE CreateTemp(m)
  <2>1. TempTypeOK' /\ disturbed' \subseteq Merge
    BY <1>2, <1>6 DEF CreateTemp, TempTypeOK
  <2>2. UNCHANGED <<metadata, applied, from, into, reads, committed, moved>>
    BY <1>6 DEF CreateTemp
  <2>3. \/ pc' = [pc EXCEPT ![m] = "fill"]
        \/ pc' = [pc EXCEPT ![m] = "failed"]
    BY <1>6 DEF CreateTemp
  <2>4. m \notin moved
    BY <1>1, <1>6 DEF CreateTemp
  <2> QED
    BY <2>1, <2>2, <2>3, <2>4, PcStep
<1>7. CASE FillTemp(m)
  <2>1. temp' \in [TempGraph -> SUBSET Merge]
    BY <1>2, <1>7, TempGraphs DEF FillTemp, ReadFor, TempTypeOK
  <2>2. graph' \in [Merge -> TempGraph]
    BY <1>2, <1>7, TempGraphs DEF FillTemp, TempTypeOK
  <2>3. TempTypeOK' /\ disturbed' \subseteq Merge
    BY <1>2, <1>7, <2>1, <2>2 DEF FillTemp, TempTypeOK
  <2>4. UNCHANGED <<metadata, applied, from, into, reads, committed, moved>>
    BY <1>7 DEF FillTemp
  <2>5. \/ pc' = [pc EXCEPT ![m] = "leaf"]
        \/ pc' = [pc EXCEPT ![m] = "drop"]
    BY <1>7 DEF FillTemp
  <2>6. m \notin moved
    BY <1>1, <1>7 DEF FillTemp
  <2> QED
    BY <2>3, <2>4, <2>5, <2>6, PcStep
<1>8. CASE ReportConflict(m)
  BY <1>1, <1>2, <1>8, PcStep DEF ReportConflict, TempTypeOK
<1>9. CASE CheckNames(m)
  BY <1>1, <1>2, <1>9, PcStep DEF CheckNames, TempTypeOK
<1> QED
  BY <1>3, <1>4, <1>5, <1>6, <1>7, <1>8, <1>9

-----------------------------------------------------------------------------
LEMMA NextKeepsMergeInv == MergeInv /\ [Next]_vars => MergeInv'
<1> SUFFICES ASSUME MergeInv, [Next]_vars PROVE MergeInv'
  OBVIOUS
<1> USE OrderOfSteps DEF MergeInv, Typing
<1>1. ASSUME NEW m \in Merge,
             ReadSource(m) \/ ReadTarget(m) \/ ReadLeaf(m) \/ ReadNumber(m)
      PROVE  MergeInv'
  <2> USE <1>1 DEF ReadSource, ReadTarget, ReadLeaf, ReadNumber,
          Goes, Fails, At, Writes, store, history, metadata, reads
  <2>0. m \notin moved
    BY DEF WritesStand, SourceSettled
  <2>a. \A k \in Merge : k # m => /\ pc'[k] = pc[k] /\ number'[k] = number[k]
                                /\ source'[k] = source[k] /\ prior'[k] = prior[k]
    BY DEF ThreadsTypeOK
  <2>b. pc'[m] \in {"target", "drop", "number", "names", "failed"}
    BY DEF ThreadsTypeOK
  <2>c. UNCHANGED <<revisions, changeSets, wasDerivedFrom, moved>>
    OBVIOUS
  <2>d. moved \subseteq Merge
    BY DEF AnswersTypeOK
  <2>1. HistoryTypeOK'
    BY DEF HistoryTypeOK
  <2>2. BranchesTypeOK'
    BY DEF BranchesTypeOK, BranchesOK
  <2>3. TempTypeOK' /\ AnswersTypeOK'
    BY DEF TempTypeOK, AnswersTypeOK
  <2>4. ThreadsTypeOK'
    BY DEF ThreadsTypeOK, Steps, Ended, ReadsStand, HistoryTypeOK, IsNextRevision
  <2>5. ReadsStand'
    BY DEF ReadsStand
  <2>6. WritesStand'
    BY <2>0, <2>a, <2>b, <2>c DEF WritesStand, HasRevision
  <2>7. EdgesHaveChangeSets'
    BY <2>0, <2>a, <2>c, <2>d, EdgesStand
  <2> QED
    BY <2>1, <2>2, <2>3, <2>4, <2>5, <2>6, <2>7
<1>2. ASSUME NEW m \in Merge, ReadSourceLeaf(m)
      PROVE  MergeInv'
  <2> USE <1>2 DEF ReadSourceLeaf, Goes, Fails, At, Writes, store, history, metadata, reads
  <2>0. /\ \A k \in Merge : k # m => pc'[k] = pc[k] /\ prior'[k] = prior[k]
        /\ \A k \in Merge : k # m => (k \in moved <=> k \in moved')
        /\ UNCHANGED <<revisions, changeSets, number, source>>
    BY DEF ThreadsTypeOK
  <2>a. \/ pc'[m] = "failed"
        \/ pc'[m] = "changeSetA" /\ (m \in moved' \/ prior'[m] = source[m])
    <3>1. CASE pc' = [pc EXCEPT ![m] = "failed"]
      BY <3>1 DEF ThreadsTypeOK
    <3>2. CASE \E u \in revisions :
                  /\ prior' = [prior EXCEPT ![m] = u]
                  /\ moved' = IF u = source[m] THEN moved ELSE moved \cup {m}
                  /\ pc' = [pc EXCEPT ![m] = "changeSetA"]
      <4>1. PICK u \in revisions :
                  /\ prior' = [prior EXCEPT ![m] = u]
                  /\ moved' = IF u = source[m] THEN moved ELSE moved \cup {m}
                  /\ pc' = [pc EXCEPT ![m] = "changeSetA"]
        BY <3>2
      <4>2. prior'[m] = u /\ pc'[m] = "changeSetA"
        BY <4>1 DEF ThreadsTypeOK
      <4> QED
        BY <4>1, <4>2
    <3>3. \/ pc' = [pc EXCEPT ![m] = "failed"]
          \/ \E u \in revisions :
                  /\ prior' = [prior EXCEPT ![m] = u]
                  /\ moved' = IF u = source[m] THEN moved ELSE moved \cup {m}
                  /\ pc' = [pc EXCEPT ![m] = After(pc[m])]
      BY Zenon
    <3>4. After(pc[m]) = "changeSetA"
      OBVIOUS
    <3> QED
      BY <3>1, <3>2, <3>3, <3>4
  <2>b. number[m] \in revisions
    BY DEF WritesStand, HasRevision
  <2>1. HistoryTypeOK'
    BY DEF HistoryTypeOK
  <2>2. BranchesTypeOK'
    BY DEF BranchesTypeOK, BranchesOK
  <2>3. TempTypeOK' /\ AnswersTypeOK'
    BY DEF TempTypeOK, AnswersTypeOK
  <2>4. ThreadsTypeOK'
    BY DEF ThreadsTypeOK, Steps, Ended, ReadsStand, HistoryTypeOK
  <2>5. ReadsStand'
    BY DEF ReadsStand
  <2>6. WritesStand'
    BY <2>0, <2>a, <2>b DEF WritesStand, HasRevision, SourceSettled
  <2>7. EdgesHaveChangeSets'
    BY EdgesStand
  <2> QED
    BY <2>1, <2>2, <2>3, <2>4, <2>5, <2>6, <2>7
<1>3. ASSUME NEW m \in Merge, WriteChangeSet(m) \/ WriteSourceChangeSet(m)
      PROVE  MergeInv'
  <2> USE <1>3 DEF WriteChangeSet, WriteSourceChangeSet,
          Goes, Fails, At, Writes, store, history, metadata, reads
  <2>1. HistoryTypeOK'
    BY DEF HistoryTypeOK, ReadsStand, WritesStand, HasRevision, ThreadsTypeOK
  <2>2. BranchesTypeOK'
    BY DEF BranchesTypeOK, BranchesOK
  <2>3. TempTypeOK' /\ AnswersTypeOK'
    BY DEF TempTypeOK, AnswersTypeOK
  <2>4. ThreadsTypeOK'
    BY DEF ThreadsTypeOK, Steps, Ended
  <2>5. ReadsStand'
    BY DEF ReadsStand
  <2>6. WritesStand'
    BY DEF WritesStand, HasRevision, SourceSettled, ThreadsTypeOK
  <2>7. EdgesHaveChangeSets'
    BY EdgesStand
  <2> QED
    BY <2>1, <2>2, <2>3, <2>4, <2>5, <2>6, <2>7
<1>4. ASSUME NEW m \in Merge, WriteRevision(m)
      PROVE  MergeInv'
  <2> USE <1>4 DEF WriteRevision, Goes, Fails, At, Writes, store, history, metadata, reads
  <2>0. /\ wasDerivedFrom' = wasDerivedFrom \cup {<<number[m], prior[m]>>}
        /\ UNCHANGED <<changeSets, moved, number, source>>
    OBVIOUS
  <2>a. <<prior[m], number[m]>> \in changeSets
    BY DEF WritesStand
  <2>1. HistoryTypeOK'
    BY DEF HistoryTypeOK, ReadsStand, WritesStand, HasRevision, ThreadsTypeOK
  <2>2. BranchesTypeOK'
    BY DEF BranchesTypeOK, BranchesOK
  <2>3. TempTypeOK' /\ AnswersTypeOK'
    BY DEF TempTypeOK, AnswersTypeOK
  <2>4. ThreadsTypeOK'
    BY DEF ThreadsTypeOK, Steps, Ended
  <2>5. ReadsStand'
    BY DEF ReadsStand
  <2>6. WritesStand'
    BY DEF WritesStand, HasRevision, SourceSettled, ThreadsTypeOK
  <2>7. EdgesHaveChangeSets'
    BY <2>0, <2>a, EdgesStand
  <2> QED
    BY <2>1, <2>2, <2>3, <2>4, <2>5, <2>6, <2>7
<1>5. ASSUME NEW m \in Merge, WriteCommit(m)
      PROVE  MergeInv'
  <2> USE <1>5 DEF WriteCommit, Goes, Fails, At, Writes, store, history, metadata, reads
  <2>0. /\ wasDerivedFrom' = wasDerivedFrom \cup {<<number[m], source[m]>>}
        /\ UNCHANGED <<changeSets, moved, number, source>>
    OBVIOUS
  <2>a. m \in moved \/ <<source[m], number[m]>> \in changeSets
    BY DEF WritesStand
  <2>b. number[m] \in revisions /\ source[m] \in revisions
    BY DEF WritesStand, ReadsStand, HasRevision
  <2>1. HistoryTypeOK'
    BY <2>0, <2>b DEF HistoryTypeOK
  <2>2. BranchesTypeOK'
    BY DEF BranchesTypeOK, BranchesOK
  <2>3. TempTypeOK' /\ AnswersTypeOK'
    BY DEF TempTypeOK, AnswersTypeOK
  <2>4. ThreadsTypeOK'
    BY DEF ThreadsTypeOK, Steps, Ended
  <2>5. ReadsStand'
    BY DEF ReadsStand
  <2>6. WritesStand'
    BY DEF WritesStand, HasRevision, SourceSettled, ThreadsTypeOK
  <2>7. EdgesHaveChangeSets'
    BY <2>0, <2>a, EdgesStand
  <2> QED
    BY <2>1, <2>2, <2>3, <2>4, <2>5, <2>6, <2>7
<1>6. ASSUME NEW m \in Merge, MoveBranch(m) \/ UpdateFullGraph(m)
      PROVE  MergeInv'
  <2> USE <1>6 DEF MoveBranch, UpdateFullGraph,
          Goes, Fails, At, Writes, store, history, metadata, reads
  <2>0. number[m] \in revisions /\ into[m] \in Branch
    BY DEF WritesStand, HasRevision, ThreadsTypeOK
  <2>a. /\ UNCHANGED revisions
        /\ \/ UNCHANGED applied /\ references' = [references EXCEPT ![into[m]] = Moved(m)]
           \/ UNCHANGED references /\ applied' = [applied EXCEPT ![into[m]] = @ \cup {number[m]}]
    OBVIOUS
  <2>b. /\ references' = [r \in Branch |-> references'[r]]
        /\ applied' = [r \in Branch |-> applied'[r]]
    BY <2>a DEF BranchesTypeOK
  <2>c. BranchesOK'
    <3>1. CASE UNCHANGED applied /\ references' = [references EXCEPT ![into[m]] = Moved(m)]
      BY <2>0, <2>a, <3>1 DEF BranchesTypeOK, BranchesOK, Moved
    <3>2. CASE UNCHANGED references /\ applied' = [applied EXCEPT ![into[m]] = @ \cup {number[m]}]
      BY <2>0, <2>a, <3>2 DEF BranchesTypeOK, BranchesOK
    <3> QED
      BY <2>a, <3>1, <3>2
  <2>1. HistoryTypeOK'
    BY DEF HistoryTypeOK
  <2>2. BranchesTypeOK'
    BY <2>b, <2>c DEF BranchesTypeOK, BranchesOK
  <2>3. TempTypeOK' /\ AnswersTypeOK'
    BY DEF TempTypeOK, AnswersTypeOK, ThreadsTypeOK
  <2>4. ThreadsTypeOK'
    BY DEF ThreadsTypeOK, Steps, Ended
  <2>5. ReadsStand'
    BY DEF ReadsStand
  <2>6. WritesStand'
    BY DEF WritesStand, HasRevision, SourceSettled, ThreadsTypeOK
  <2>7. EdgesHaveChangeSets'
    BY EdgesStand
  <2> QED
    BY <2>1, <2>2, <2>3, <2>4, <2>5, <2>6, <2>7
<1>7. ASSUME NEW r \in Branch, Update(r)
      PROVE  MergeInv'
  <2> USE <1>7 DEF Update, reads
  <2>1. HistoryTypeOK'
    BY DEF HistoryTypeOK, ReadsStand, WritesStand, HasRevision, ThreadsTypeOK
  <2>2. BranchesTypeOK'
    BY DEF BranchesTypeOK, BranchesOK
  <2>3. TempTypeOK' /\ AnswersTypeOK'
    BY DEF TempTypeOK, AnswersTypeOK
  <2>4. ThreadsTypeOK'
    BY DEF ThreadsTypeOK, Steps, Ended
  <2>5. ReadsStand'
    BY DEF ReadsStand
  <2>6. WritesStand'
    BY DEF WritesStand, HasRevision, SourceSettled
  <2>7. EdgesHaveChangeSets'
    BY EdgesStand
  <2> QED
    BY <2>1, <2>2, <2>3, <2>4, <2>5, <2>6, <2>7
<1>8. ASSUME Restart
      PROVE  MergeInv'
  <2> USE <1>8 DEF Restart, metadata, reads, history, InProgress, Ended
  <2>1. HistoryTypeOK'
    BY DEF HistoryTypeOK
  <2>2. BranchesTypeOK'
    BY DEF BranchesTypeOK, BranchesOK
  <2>3. TempTypeOK' /\ AnswersTypeOK'
    BY TempGraphs DEF TempTypeOK, AnswersTypeOK
  <2>4. ThreadsTypeOK'
    BY DEF ThreadsTypeOK, Steps, Ended, ReadsStand, HistoryTypeOK
  <2>5. ReadsStand'
    BY DEF ReadsStand
  <2>6. WritesStand'
    BY DEF WritesStand, HasRevision, SourceSettled, ThreadsTypeOK
  <2>7. EdgesHaveChangeSets'
    BY EdgesStand
  <2> QED
    BY <2>1, <2>2, <2>3, <2>4, <2>5, <2>6, <2>7
<1>9. CASE UNCHANGED vars
  BY <1>9 DEF vars, store, metadata, reads, history, HistoryTypeOK, BranchesTypeOK, BranchesOK,
         TempTypeOK, ThreadsTypeOK, AnswersTypeOK, ReadsStand, WritesStand, EdgesHaveChangeSets
<1> QED
  BY ReadSteps, <1>1, <1>2, <1>3, <1>4, <1>5, <1>6, <1>7, <1>8, <1>9 DEF Next, Step

\* The inductive invariant of concurrent merges.
THEOREM MergeInvariant == Spec => []MergeInv
<1> QED
  BY InitiallySo, NextKeepsMergeInv, PTL DEF Spec

\* For every number of merges and branches, and wherever the server stops: a
\* branch always has a revision, and every revision that a step of
\* createCommitInTripleStore names has been written before.
THEOREM MergeTyping == Spec => []StepsTypeOK
<1>1. MergeInv => StepsTypeOK
  BY TypingSuffices DEF MergeInv
<1> QED
  BY <1>1, MergeInvariant, PTL

\* For every number of merges and branches, and wherever the server stops: the
\* change set of an edge of the history is there before the edge; only
\* addMetaInformation can write an edge without one, and only when the source
\* branch has moved on while the merge was computed.
THEOREM MergesKeepPaths == Spec => []EdgesHaveChangeSets
<1>1. MergeInv => EdgesHaveChangeSets
  BY DEF MergeInv
<1> QED
  BY <1>1, MergeInvariant, PTL

-----------------------------------------------------------------------------
(***************************************************************************)
(* wasDerivedFrom+ is computed revision by revision.  For an ordered       *)
(* history it is the transitive closure: what is in every set that is      *)
(* closed under wasDerivedFrom.                                            *)
(***************************************************************************)
LEMMA LeastNatural ==
    ASSUME NEW T, T \subseteq Nat, T # {}
    PROVE  \E x \in T : \A y \in T : x <= y
<1>1. \E x \in T : \A y \in T : ~ (<<y, x>> \in OpToRel(<, Nat))
  BY NatLessThanWellFounded, WFMin
<1>2. PICK x \in T : \A y \in T : ~ (<<y, x>> \in OpToRel(<, Nat))
  BY <1>1
<1>3. \A y \in T : ~ (y < x)
  BY <1>2 DEF OpToRel
<1> QED
  BY <1>3

Ordered ==
    /\ wasDerivedFrom \subseteq Rev \X Rev
    /\ \A e \in wasDerivedFrom : e[2] < e[1]

Edges(v) == {d \in wasDerivedFrom : d[1] = v}

Closure(v) ==
    {u \in Rev : \A S \in SUBSET Rev :
        (\A e \in wasDerivedFrom : e[1] = v \/ e[1] \in S => e[2] \in S) => u \in S}

LEMMA ClosureIsClosed ==
    ASSUME Ordered, NEW v \in Rev, NEW e \in wasDerivedFrom
    PROVE  /\ e[1] = v => e[2] \in Closure(v)
           /\ e[1] \in Closure(v) => e[2] \in Closure(v)
           /\ e[1] = v => Closure(e[2]) \subseteq Closure(v)
<1>1. e[2] \in Rev
  BY DEF Ordered
<1>2. e[1] = v => e[2] \in Closure(v)
  BY <1>1 DEF Closure
<1>3. e[1] \in Closure(v) => e[2] \in Closure(v)
  BY <1>1 DEF Closure
<1>4. ASSUME e[1] = v, NEW u \in Closure(e[2])
      PROVE  u \in Closure(v)
  BY <1>4 DEF Closure
<1> QED
  BY <1>2, <1>3, <1>4

LEMMA ClosureUnfolds ==
    ASSUME Ordered, NEW v \in Rev
    PROVE  Closure(v) = UNION {{e[2]} \cup Closure(e[2]) : e \in Edges(v)}
<1> DEFINE T == UNION {{e[2]} \cup Closure(e[2]) : e \in Edges(v)}
<1>1. \A e \in wasDerivedFrom : e[1] \in Rev /\ e[2] \in Rev
  BY DEF Ordered
<1>2. T \subseteq Closure(v)
  BY ClosureIsClosed DEF Edges
<1>3. T \in SUBSET Rev
  BY <1>1 DEF Edges, Closure
<1>4. ASSUME NEW e \in wasDerivedFrom, e[1] = v
      PROVE  e[2] \in T
  BY <1>4 DEF Edges
<1>5. ASSUME NEW e \in wasDerivedFrom, e[1] \in T
      PROVE  e[2] \in T
  <2>1. PICK d \in Edges(v) : e[1] = d[2] \/ e[1] \in Closure(d[2])
    BY <1>5
  <2>2. d[2] \in Rev
    BY <1>1 DEF Edges
  <2>3. e[2] \in Closure(d[2])
    BY <2>1, <2>2, ClosureIsClosed
  <2> QED
    BY <2>3
<1> HIDE DEF T
<1>6. Closure(v) \subseteq T
  BY <1>3, <1>4, <1>5 DEF Closure
<1> QED
  BY <1>2, <1>6 DEF T

ComputesClosure == \A v \in Rev : Derived[v] = Closure(v)

\* The recursion has a solution, and for an ordered history only one.
LEMMA DerivedIsClosure == Ordered => ComputesClosure
<1> SUFFICES ASSUME Ordered PROVE \A v \in Rev : Derived[v] = Closure(v)
  BY DEF ComputesClosure
<1> DEFINE Solves(f) == f = [v \in Rev |-> UNION {{e[2]} \cup f[e[2]] :
                                                     e \in {d \in wasDerivedFrom : d[1] = v}}]
           c == [v \in Rev |-> Closure(v)]
           bad == {v \in Rev : Derived[v] # Closure(v)}
<1>1. Derived = CHOOSE f : Solves(f)
  BY DEF Derived
<1>2. Solves(c)
  <2>1. ASSUME NEW v \in Rev
        PROVE  Closure(v) = UNION {{e[2]} \cup c[e[2]] : e \in {d \in wasDerivedFrom : d[1] = v}}
    <3>1. \A e \in Edges(v) : e[2] \in Rev /\ c[e[2]] = Closure(e[2])
      BY DEF Ordered, Edges
    <3>2. {{e[2]} \cup c[e[2]] : e \in Edges(v)} = {{e[2]} \cup Closure(e[2]) : e \in Edges(v)}
      BY <3>1
    <3> QED
      BY <3>2, ClosureUnfolds DEF Edges
  <2> QED
    BY <2>1
<1>3. Solves(Derived)
  <2> HIDE DEF Solves
  <2> QED
    BY <1>1, <1>2
<1>4. ASSUME NEW v \in Rev
      PROVE  Derived[v] = UNION {{e[2]} \cup Derived[e[2]] : e \in Edges(v)}
  BY <1>3 DEF Edges
<1>5. bad = {}
  <2> SUFFICES ASSUME bad # {} PROVE FALSE
    OBVIOUS
  <2>1. bad \subseteq Nat
    BY DEF Rev
  <2>2. PICK v \in bad : \A w \in bad : v <= w
    BY <2>1, LeastNatural
  <2>3. \A e \in Edges(v) : e[2] \in Rev /\ e[2] \notin bad
    BY <2>1, <2>2 DEF Ordered, Edges, Rev
  <2>4. {{e[2]} \cup Derived[e[2]] : e \in Edges(v)} = {{e[2]} \cup Closure(e[2]) : e \in Edges(v)}
    BY <2>3
  <2>5. v \in Rev /\ Derived[v] # Closure(v)
    BY <2>2
  <2> QED
    BY <2>4, <2>5, <1>4, ClosureUnfolds
<1> QED
  BY <1>5

LEMMA DerivedIsClosureNext ==
    ASSUME Ordered'
    PROVE  \A v \in Rev : Derived'[v] = Closure(v)'
<1>1. Ordered' => ComputesClosure'
  BY DerivedIsClosure, PTL
<1> QED
  BY <1>1 DEF ComputesClosure

(***************************************************************************)
(* wasDerivedFrom* leads on along edges, and where it led before.          *)
(***************************************************************************)
LEMMA PlusIsClosure ==
    ASSUME Ordered, NEW v \in Rev, NEW u
    PROVE  DerivedPlus(v, u) <=> u \in Closure(v)
BY DerivedIsClosure DEF DerivedPlus, ComputesClosure

LEMMA StarAlongEdge ==
    ASSUME Ordered, NEW e \in wasDerivedFrom, NEW u, DerivedStar(e[2], u)
    PROVE  DerivedStar(e[1], u)
<1>1. e[1] \in Rev /\ e[2] \in Rev
  BY DEF Ordered
<1>2. e[2] \in Closure(e[1]) /\ Closure(e[2]) \subseteq Closure(e[1])
  BY <1>1, ClosureIsClosed
<1> QED
  BY <1>1, <1>2, PlusIsClosure DEF DerivedStar

LEMMA StarIsTransitive ==
    ASSUME Ordered, NEW v \in Rev, NEW u \in Rev, NEW w, DerivedStar(v, u), DerivedStar(u, w)
    PROVE  DerivedStar(v, w)
<1>1. CASE v = u \/ u = w
  BY <1>1 DEF DerivedStar
<1>2. CASE u \in Closure(v) /\ w \in Closure(u)
  <2>1. \A e \in wasDerivedFrom : e[1] = u \/ e[1] \in Closure(v) => e[2] \in Closure(v)
    BY <1>2, ClosureIsClosed
  <2>2. Closure(v) \in SUBSET Rev
    BY DEF Closure
  <2>3. w \in Closure(v)
    BY <1>2, <2>1, <2>2 DEF Closure
  <2> QED
    BY <2>3, PlusIsClosure DEF DerivedStar
<1> QED
  BY <1>1, <1>2, PlusIsClosure DEF DerivedStar

LEMMA StarIsKept ==
    ASSUME Ordered, Ordered', wasDerivedFrom \subseteq wasDerivedFrom',
           NEW v \in Rev, NEW u, DerivedStar(v, u)
    PROVE  DerivedStar(v, u)'
<1>1. CASE v = u
  BY <1>1 DEF DerivedStar
<1>2. CASE u \in Closure(v)
  <2>1. u \in Closure(v)'
    BY <1>2 DEF Closure
  <2>2. u \in Derived'[v]
    BY <2>1, DerivedIsClosureNext
  <2> QED
    BY <2>2 DEF DerivedStar, DerivedPlus
<1> QED
  BY <1>1, <1>2, PlusIsClosure DEF DerivedStar

LEMMA NewEdgeLeads ==
    ASSUME Ordered', NEW n \in Rev, NEW v \in Rev, <<n, v>> \in wasDerivedFrom',
           NEW u, DerivedStar(v, u)'
    PROVE  DerivedStar(n, u)'
<1>1. Derived'[n] = Closure(n)' /\ Derived'[v] = Closure(v)'
  BY DerivedIsClosureNext
<1>2. v \in Closure(n)'
  BY DEF Closure
<1>3. u \in Closure(v)' => u \in Closure(n)'
  BY DEF Closure
<1> QED
  BY <1>1, <1>2, <1>3 DEF DerivedStar, DerivedPlus

-----------------------------------------------------------------------------
(***************************************************************************)
(* What a branch leads to.  From the moment a merge has read its target,   *)
(* this leaf is in the history of the branch, then of the leaf that the    *)
(* new revision is derived from, then of the new revision, so that the     *)
(* branch may be moved off it.                                             *)
(***************************************************************************)
Leads(r, n) == \E v \in references[r] : DerivedStar(v, n)

HasTarget == {"drop", "create", "fill", "leaf"}

HasPrior == {"number", "names", "changeSet", "revision"}

Derives == {"sourceLeaf", "changeSetA", "meta", "move"}

LeadsOn(m) ==
    /\ pc[m] \in HasTarget => Leads(into[m], target[m])
    /\ pc[m] \in HasPrior => DerivedStar(prior[m], target[m])
    /\ pc[m] \in Derives => DerivedStar(number[m], target[m])
    /\ pc[m] = "full" => Leads(into[m], number[m])

NumberFollows(m) ==
    /\ pc[m] \in HasPrior \ {"number"} => prior[m] < number[m]
    /\ pc[m] \in (HasPrior \ {"number"}) \cup Derives => source[m] < number[m]

LeadInv ==
    /\ MergeInv
    /\ Ordered
    /\ \A m \in Merge : LeadsOn(m) /\ NumberFollows(m)
    /\ NothingIsLost
    /\ FullGraphIsNotAhead

LEMMA LeadsIsKept ==
    ASSUME LeadInv, Ordered', wasDerivedFrom \subseteq wasDerivedFrom',
           references' = references, NEW r \in Branch, NEW n, Leads(r, n)
    PROVE  Leads(r, n)'
<1>1. PICK v \in references[r] : DerivedStar(v, n)
  BY DEF Leads
<1>2. v \in Rev /\ Ordered
  BY DEF LeadInv, MergeInv, Typing, HistoryTypeOK, BranchesTypeOK, BranchesOK
<1>3. DerivedStar(v, n)'
  BY <1>1, <1>2, StarIsKept
<1> QED
  BY <1>3 DEF Leads

\* What is to be shown of a step: of the merge that takes it, of what is added
\* to the answers and the full graphs, and that branches lead where they led.
LEMMA StepLeads ==
    ASSUME LeadInv, MergeInv', Ordered', wasDerivedFrom \subseteq wasDerivedFrom',
           \A r \in Branch : \A n \in Rev : Leads(r, n) => Leads(r, n)',
           NEW M \in SUBSET Merge,
           \A k \in Merge \ M :
              /\ pc'[k] = pc[k] /\ into'[k] = into[k] /\ target'[k] = target[k]
              /\ source'[k] = source[k] /\ prior'[k] = prior[k] /\ number'[k] = number[k],
           \A m \in M : LeadsOn(m)' /\ NumberFollows(m)',
           \A c \in committed' \ committed : Leads(c[1], c[2])',
           \A r \in Branch : \A n \in applied'[r] \ applied[r] : Leads(r, n)'
    PROVE  LeadInv'
<1>1. Ordered /\ revisions \subseteq Rev /\ committed \subseteq Branch \X Rev
  BY DEF LeadInv, MergeInv, Typing, HistoryTypeOK, AnswersTypeOK
<1>2. ASSUME NEW k \in Merge, k \notin M
      PROVE  LeadsOn(k)' /\ NumberFollows(k)'
  <2>1. /\ pc'[k] = pc[k] /\ into'[k] = into[k] /\ target'[k] = target[k]
        /\ source'[k] = source[k] /\ prior'[k] = prior[k] /\ number'[k] = number[k]
    BY <1>2
  <2>2. /\ into[k] \in Branch /\ target[k] \in Rev /\ prior[k] \in Rev /\ number[k] \in Rev
    BY DEF LeadInv, MergeInv, Typing, ThreadsTypeOK
  <2>3. LeadsOn(k) /\ NumberFollows(k)
    BY DEF LeadInv
  <2>4. PICK r, t, p, n : r = into[k] /\ t = target[k] /\ p = prior[k] /\ n = number[k]
    OBVIOUS
  <2>5. pc[k] \in HasTarget => Leads(r, t)'
    BY <2>2, <2>3, <2>4 DEF LeadsOn
  <2>6. pc[k] \in HasPrior => DerivedStar(p, t)'
    BY <1>1, <2>2, <2>3, <2>4, StarIsKept DEF LeadsOn
  <2>7. pc[k] \in Derives => DerivedStar(n, t)'
    BY <1>1, <2>2, <2>3, <2>4, StarIsKept DEF LeadsOn
  <2>8. pc[k] = "full" => Leads(r, n)'
    BY <2>2, <2>3, <2>4 DEF LeadsOn
  <2>9. NumberFollows(k)'
    BY <2>1, <2>3 DEF NumberFollows
  <2>10. into'[k] = r /\ target'[k] = t /\ prior'[k] = p /\ number'[k] = n
    BY <2>1, <2>4
  <2>11. LeadsOn(k)'
    BY <2>1, <2>5, <2>6, <2>7, <2>8, <2>10 DEF LeadsOn
  <2> QED
    BY <2>9, <2>11
<1>3. NothingIsLost'
  <2>1. \A c \in committed : Leads(c[1], c[2])
    BY DEF LeadInv, NothingIsLost, Leads
  <2>2. \A c \in committed' : Leads(c[1], c[2])'
    BY <1>1, <2>1
  <2> QED
    BY <2>2 DEF NothingIsLost, Leads
<1>4. FullGraphIsNotAhead'
  <2>1. ASSUME NEW r \in Branch
        PROVE  \A n \in applied[r] : n \in Rev /\ Leads(r, n)
    BY <1>1 DEF LeadInv, FullGraphIsNotAhead, Leads, MergeInv, Typing, BranchesTypeOK, BranchesOK
  <2>2. \A r \in Branch : \A n \in applied'[r] : Leads(r, n)'
    BY <2>1
  <2> QED
    BY <2>2 DEF FullGraphIsNotAhead, Leads
<1> QED
  BY <1>2, <1>3, <1>4 DEF LeadInv

-----------------------------------------------------------------------------
OthersStay(m) ==
    \A k \in Merge \ {m} :
        /\ pc'[k] = pc[k] /\ into'[k] = into[k] /\ target'[k] = target[k]
        /\ source'[k] = source[k] /\ prior'[k] = prior[k] /\ number'[k] = number[k]

LEMMA StepsAreOfOne ==
    ASSUME MergeInv, NEW m \in Merge, Step(m)
    PROVE  OthersStay(m)
<1> USE DEF MergeInv, Typing, ThreadsTypeOK, OthersStay, Goes, Fails, store, reads, history
<1>1. CASE Send(m) \/ Check(m) \/ ReadSource(m) \/ ReadTarget(m) \/ DropTemp(m) \/ CreateTemp(m)
  BY <1>1 DEF Send, Check, ReadSource, ReadTarget, DropTemp, CreateTemp
<1>2. CASE FillTemp(m) \/ ReportConflict(m) \/ ReadLeaf(m) \/ ReadNumber(m) \/ CheckNames(m)
  BY <1>2 DEF FillTemp, ReportConflict, ReadLeaf, ReadNumber, CheckNames
<1>3. CASE WriteChangeSet(m) \/ WriteRevision(m) \/ ReadSourceLeaf(m) \/ WriteSourceChangeSet(m)
  BY <1>3 DEF WriteChangeSet, WriteRevision, ReadSourceLeaf, WriteSourceChangeSet
<1>4. CASE WriteCommit(m) \/ MoveBranch(m) \/ UpdateFullGraph(m)
  BY <1>4 DEF WriteCommit, MoveBranch, UpdateFullGraph
<1> QED
  BY <1>1, <1>2, <1>3, <1>4 DEF Step

\* A step that changes neither the history nor the references.
LEMMA QuietStepLeads ==
    ASSUME LeadInv, MergeInv', NEW m \in Merge, OthersStay(m),
           UNCHANGED <<wasDerivedFrom, references>>,
           LeadsOn(m)', NumberFollows(m)',
           \A c \in committed' \ committed : Leads(c[1], c[2])',
           \A r \in Branch : \A n \in applied'[r] \ applied[r] : Leads(r, n)'
    PROVE  LeadInv'
<1>1. Ordered'
  BY DEF LeadInv, Ordered
<1>2. \A r \in Branch : \A n \in Rev : Leads(r, n) => Leads(r, n)'
  BY <1>1, LeadsIsKept
<1>3. PICK M : M = {m}
  OBVIOUS
<1>4. M \in SUBSET Merge /\ \A k \in M : LeadsOn(k)' /\ NumberFollows(k)'
  BY <1>3
<1> QED
  BY <1>1, <1>2, <1>3, <1>4, StepLeads DEF OthersStay

\* A step that goes on with what the merge had read.
LEMMA StepsWithin ==
    ASSUME LeadInv, NEW m \in Merge, UNCHANGED <<wasDerivedFrom, references>>,
           into'[m] = into[m], target'[m] = target[m], source'[m] = source[m],
           number'[m] = number[m],
           pc'[m] \in HasTarget => pc[m] \in HasTarget,
           pc'[m] \in HasPrior => /\ pc[m] \in HasPrior \ {"number"}
                                  /\ prior'[m] = prior[m],
           pc'[m] \in Derives => pc[m] \in Derives,
           pc'[m] # "full"
    PROVE  LeadsOn(m)' /\ NumberFollows(m)'
<1>1. PICK r, t, p, n : r = into[m] /\ t = target[m] /\ p = prior[m] /\ n = number[m]
  OBVIOUS
<1>2. Ordered /\ Ordered' /\ r \in Branch /\ t \in Rev /\ p \in Rev /\ n \in Rev
  BY <1>1 DEF LeadInv, MergeInv, Typing, ThreadsTypeOK, Ordered
<1>3. LeadsOn(m) /\ NumberFollows(m)
  BY DEF LeadInv
<1>4. pc'[m] \in HasTarget => Leads(r, t)'
  BY <1>1, <1>2, <1>3, LeadsIsKept DEF LeadsOn
<1>5. pc'[m] \in HasPrior => DerivedStar(p, t)'
  BY <1>1, <1>2, <1>3, StarIsKept DEF LeadsOn
<1>6. pc'[m] \in Derives => DerivedStar(n, t)'
  BY <1>1, <1>2, <1>3, StarIsKept DEF LeadsOn
<1>7. into'[m] = r /\ target'[m] = t /\ number'[m] = n /\ (pc'[m] \in HasPrior => prior'[m] = p)
  BY <1>1
<1>8. NumberFollows(m)'
  BY <1>3 DEF NumberFollows, HasPrior, Derives
<1>9. LeadsOn(m)'
  BY <1>4, <1>5, <1>6, <1>7 DEF LeadsOn
<1> QED
  BY <1>8, <1>9

LEMMA QuietSteps ==
    ASSUME LeadInv, MergeInv', NEW m \in Merge, OthersStay(m),
           \/ Send(m) \/ Check(m) \/ ReadSource(m) \/ DropTemp(m) \/ CreateTemp(m) \/ FillTemp(m)
           \/ ReportConflict(m) \/ CheckNames(m) \/ WriteChangeSet(m) \/ ReadSourceLeaf(m)
           \/ WriteSourceChangeSet(m)
    PROVE  LeadInv'
<1> USE OrderOfSteps DEF Goes, Fails, At, Writes, store, history, metadata, reads
<1>1. ThreadsTypeOK
  BY DEF LeadInv, MergeInv, Typing
<1>2. UNCHANGED <<wasDerivedFrom, references, committed, applied, into, target, number>>
  BY DEF Send, Check, ReadSource, DropTemp, CreateTemp, FillTemp, ReportConflict, CheckNames,
         WriteChangeSet, ReadSourceLeaf, WriteSourceChangeSet
<1>3. /\ pc'[m] \in HasTarget => pc[m] \in HasTarget
      /\ pc'[m] \in HasPrior => pc[m] \in HasPrior \ {"number"} /\ prior'[m] = prior[m]
      /\ pc'[m] \in Derives => pc[m] \in Derives
      /\ pc'[m] # "full"
      /\ source'[m] = source[m] \/ pc'[m] \in {"target", "failed"}
  <2> USE <1>1 DEF ThreadsTypeOK, HasTarget, HasPrior, Derives
  <2>1. CASE Send(m) \/ Check(m) \/ ReadSource(m)
    BY <2>1 DEF Send, Check, ReadSource
  <2>2. CASE DropTemp(m) \/ CreateTemp(m) \/ FillTemp(m)
    BY <2>2 DEF DropTemp, CreateTemp, FillTemp
  <2>3. CASE ReportConflict(m) \/ CheckNames(m) \/ WriteChangeSet(m)
    BY <2>3 DEF ReportConflict, CheckNames, WriteChangeSet
  <2>4. CASE ReadSourceLeaf(m) \/ WriteSourceChangeSet(m)
    BY <2>4 DEF ReadSourceLeaf, WriteSourceChangeSet
  <2> QED
    BY <2>1, <2>2, <2>3, <2>4
<1>4. LeadsOn(m)' /\ NumberFollows(m)'
  <2>1. CASE source'[m] = source[m]
    BY <1>2, <1>3, <2>1, StepsWithin
  <2>2. CASE pc'[m] \in {"target", "failed"}
    BY <2>2 DEF LeadsOn, NumberFollows, HasTarget, HasPrior, Derives
  <2> QED
    BY <1>3, <2>1, <2>2
<1> QED
  BY <1>2, <1>4, QuietStepLeads

\* The leaf of the target; the leaf that the revision will be derived from; its
\* number, greater than that of any revision.
LEMMA ReadsLead ==
    ASSUME LeadInv, MergeInv', NEW m \in Merge, OthersStay(m),
           ReadTarget(m) \/ ReadLeaf(m) \/ ReadNumber(m)
    PROVE  LeadInv'
<1> USE OrderOfSteps DEF Goes, Fails, At, store, history, metadata, reads
<1>1. ThreadsTypeOK /\ revisions \subseteq Rev /\ LeadsOn(m) /\ NumberFollows(m) /\ Ordered
  BY DEF LeadInv, MergeInv, Typing, HistoryTypeOK
<1>2. UNCHANGED <<wasDerivedFrom, references, committed, applied, into>>
  BY DEF ReadTarget, ReadLeaf, ReadNumber
<1>3. Ordered'
  BY <1>1, <1>2 DEF Ordered
<1>4. ASSUME ReadTarget(m) PROVE LeadsOn(m)' /\ NumberFollows(m)'
  <2>1. CASE pc'[m] = "failed"
    BY <2>1 DEF LeadsOn, NumberFollows, HasTarget, HasPrior, Derives
  <2>2. CASE \E v \in revisions : /\ IsLeaf(into[m], v)
                                  /\ target' = [target EXCEPT ![m] = v]
                                  /\ pc' = [pc EXCEPT ![m] = "drop"]
    <3>1. PICK v \in revisions : /\ IsLeaf(into[m], v)
                                 /\ target' = [target EXCEPT ![m] = v]
                                 /\ pc' = [pc EXCEPT ![m] = "drop"]
      BY <2>2
    <3>2. target'[m] = v /\ pc'[m] = "drop" /\ v \in references'[into'[m]]
      BY <1>1, <1>2, <3>1 DEF ThreadsTypeOK, IsLeaf
    <3>3. Leads(into[m], target[m])'
      BY <3>2 DEF Leads, DerivedStar
    <3> QED
      BY <3>2, <3>3 DEF LeadsOn, NumberFollows, HasTarget, HasPrior, Derives
  <2> QED
    BY <1>1, <1>4, <2>1, <2>2 DEF ReadTarget, ThreadsTypeOK
<1>5. ASSUME ReadLeaf(m) PROVE LeadsOn(m)' /\ NumberFollows(m)'
  <2>1. CASE pc'[m] = "failed"
    BY <2>1 DEF LeadsOn, NumberFollows, HasTarget, HasPrior, Derives
  <2>2. CASE \E v \in revisions : /\ IsLeaf(into[m], v)
                                  /\ prior' = [prior EXCEPT ![m] = v]
                                  /\ pc' = [pc EXCEPT ![m] = "number"]
    <3>1. PICK v \in revisions : /\ IsLeaf(into[m], v)
                                 /\ prior' = [prior EXCEPT ![m] = v]
                                 /\ pc' = [pc EXCEPT ![m] = "number"]
      BY <2>2
    <3>2. PICK t : t = target[m]
      OBVIOUS
    <3>3. prior'[m] = v /\ pc'[m] = "number" /\ target'[m] = t
      BY <1>1, <1>5, <3>1, <3>2 DEF ThreadsTypeOK, ReadLeaf
    <3>4. DerivedStar(v, t)
      BY <1>1, <1>5, <3>1, <3>2 DEF ReadLeaf, LeadsOn, HasTarget, Leads, IsLeaf
    <3>5. DerivedStar(v, t)'
      BY <1>1, <1>2, <1>3, <3>4, StarIsKept
    <3> QED
      BY <3>3, <3>5 DEF LeadsOn, NumberFollows, HasTarget, HasPrior, Derives
  <2> QED
    BY <1>1, <1>5, <2>1, <2>2 DEF ReadLeaf, ThreadsTypeOK
<1>6. ASSUME ReadNumber(m) PROVE LeadsOn(m)' /\ NumberFollows(m)'
  <2>1. PICK p, t : p = prior[m] /\ t = target[m]
    OBVIOUS
  <2>2. PICK n \in Rev : IsNextRevision(n) /\ number' = [number EXCEPT ![m] = n]
    BY <1>6 DEF ReadNumber
  <2>3. /\ pc'[m] = "names" /\ prior'[m] = p /\ target'[m] = t /\ number'[m] = n
        /\ source'[m] = source[m]
    BY <1>1, <1>6, <2>1, <2>2 DEF ThreadsTypeOK, ReadNumber
  <2>4. DerivedStar(p, t) /\ p \in Rev
    BY <1>1, <1>6, <2>1 DEF ReadNumber, LeadsOn, HasPrior, ThreadsTypeOK
  <2>5. DerivedStar(p, t)'
    BY <1>1, <1>2, <1>3, <2>4, StarIsKept
  <2>6. p \in revisions /\ source[m] \in revisions
    BY <2>1 DEF LeadInv, MergeInv, ReadsStand
  <2>7. p < n /\ source[m] < n
    BY <2>2, <2>6 DEF IsNextRevision
  <2> QED
    BY <2>3, <2>5, <2>7 DEF LeadsOn, NumberFollows, HasTarget, HasPrior, Derives
<1> QED
  BY <1>2, <1>4, <1>5, <1>6, QuietStepLeads

LEMMA EdgeIsOrdered ==
    ASSUME Ordered, NEW n \in Rev, NEW v \in Rev, v < n,
           wasDerivedFrom' = wasDerivedFrom \cup {<<n, v>>}
    PROVE  Ordered'
BY DEF Ordered

\* The new revision comes into the history with its edge.
LEMMA WriteRevisionLeads ==
    ASSUME LeadInv, MergeInv', NEW m \in Merge, OthersStay(m), WriteRevision(m)
    PROVE  LeadInv'
<1> USE OrderOfSteps DEF WriteRevision, Goes, At, Writes, store, history, metadata, reads
<1>1. /\ ThreadsTypeOK /\ BranchesTypeOK /\ revisions \subseteq Rev
      /\ LeadsOn(m) /\ NumberFollows(m) /\ Ordered
  BY DEF LeadInv, MergeInv, Typing, HistoryTypeOK
<1>2. PICK p, t, n : p = prior[m] /\ t = target[m] /\ n = number[m]
  OBVIOUS
<1>3. /\ pc'[m] = "sourceLeaf" /\ prior'[m] = p /\ target'[m] = t /\ number'[m] = n
      /\ source'[m] = source[m]
  BY <1>1, <1>2 DEF ThreadsTypeOK
<1>4. p \in Rev /\ t \in Rev /\ n \in Rev /\ p < n
  BY <1>1, <1>2 DEF ThreadsTypeOK, NumberFollows, HasPrior
<1>5. wasDerivedFrom' = wasDerivedFrom \cup {<<n, p>>}
  BY <1>2
<1>6. Ordered'
  BY <1>1, <1>4, <1>5, EdgeIsOrdered
<1>7. DerivedStar(n, t)'
  <2>1. DerivedStar(p, t)
    BY <1>1, <1>2 DEF LeadsOn, HasPrior
  <2>2. DerivedStar(p, t)'
    BY <1>1, <1>4, <1>5, <1>6, <2>1, StarIsKept
  <2> QED
    BY <1>4, <1>5, <1>6, <2>2, NewEdgeLeads
<1>8. LeadsOn(m)' /\ NumberFollows(m)'
  BY <1>1, <1>3, <1>7 DEF LeadsOn, NumberFollows, HasTarget, HasPrior, Derives
<1>9. \A r \in Branch : \A x \in Rev : Leads(r, x) => Leads(r, x)'
  BY <1>5, <1>6, LeadsIsKept
<1>10. PICK M : M = {m}
  OBVIOUS
<1>11. M \in SUBSET Merge /\ \A k \in M : LeadsOn(k)' /\ NumberFollows(k)'
  BY <1>8, <1>10
<1> QED
  BY <1>5, <1>6, <1>9, <1>10, <1>11, StepLeads DEF OthersStay

\* The second edge, to the leaf of the source as it was read first.
LEMMA WriteCommitLeads ==
    ASSUME LeadInv, MergeInv', NEW m \in Merge, OthersStay(m), WriteCommit(m)
    PROVE  LeadInv'
<1> USE OrderOfSteps DEF WriteCommit, Goes, At, Writes, store, history, metadata, reads
<1>1. ThreadsTypeOK /\ LeadsOn(m) /\ NumberFollows(m) /\ Ordered
  BY DEF LeadInv, MergeInv, Typing
<1>2. PICK s, t, n : s = source[m] /\ t = target[m] /\ n = number[m]
  OBVIOUS
<1>3. pc'[m] = "move" /\ target'[m] = t /\ number'[m] = n /\ source'[m] = source[m]
  BY <1>1, <1>2 DEF ThreadsTypeOK
<1>4. s \in Rev /\ t \in Rev /\ n \in Rev /\ s < n
  BY <1>1, <1>2 DEF ThreadsTypeOK, NumberFollows, Derives
<1>5. wasDerivedFrom' = wasDerivedFrom \cup {<<n, s>>}
  BY <1>2
<1>6. Ordered'
  BY <1>1, <1>4, <1>5, EdgeIsOrdered
<1>7. DerivedStar(n, t)'
  BY <1>1, <1>2, <1>4, <1>5, <1>6, StarIsKept DEF LeadsOn, Derives
<1>8. LeadsOn(m)' /\ NumberFollows(m)'
  BY <1>1, <1>2, <1>3, <1>4, <1>7 DEF LeadsOn, NumberFollows, HasTarget, HasPrior, Derives
<1>9. \A r \in Branch : \A x \in Rev : Leads(r, x) => Leads(r, x)'
  BY <1>5, <1>6, LeadsIsKept
<1>10. PICK M : M = {m}
  OBVIOUS
<1>11. M \in SUBSET Merge /\ \A k \in M : LeadsOn(k)' /\ NumberFollows(k)'
  BY <1>8, <1>10
<1> QED
  BY <1>5, <1>6, <1>9, <1>10, <1>11, StepLeads DEF OthersStay

\* The branch leaves a leaf that is in the history of the new revision: whatever
\* the branch led to, this revision leads to.
LEMMA MoveBranchLeads ==
    ASSUME LeadInv, MergeInv', NEW m \in Merge, OthersStay(m), MoveBranch(m)
    PROVE  LeadInv'
<1> USE OrderOfSteps DEF MoveBranch, Goes, At, Writes, store, history, metadata, reads
<1>1. /\ ThreadsTypeOK /\ BranchesTypeOK /\ revisions \subseteq Rev
      /\ LeadsOn(m) /\ Ordered
  BY DEF LeadInv, MergeInv, Typing, HistoryTypeOK
<1>2. PICK b, t, n : b = into[m] /\ t = target[m] /\ n = number[m]
  OBVIOUS
<1>3. pc'[m] = "full" /\ into'[m] = b /\ number'[m] = n
  BY <1>1, <1>2 DEF ThreadsTypeOK
<1>4. b \in Branch /\ t \in Rev /\ n \in Rev /\ DerivedStar(n, t)
  BY <1>1, <1>2 DEF ThreadsTypeOK, LeadsOn, Derives
<1>5. /\ references'[b] = (references[b] \ {t}) \cup {n}
      /\ \A r \in Branch \ {b} : references'[r] = references[r]
  BY <1>1, <1>2, <1>4 DEF BranchesTypeOK, Moved
<1>6. Ordered'
  BY <1>1 DEF Ordered
<1>7. ASSUME NEW r \in Branch, NEW x \in Rev, Leads(r, x)
      PROVE  Leads(r, x)'
  <2>1. PICK v \in references[r] : DerivedStar(v, x)
    BY <1>7 DEF Leads
  <2>2. v \in Rev
    BY <1>1 DEF BranchesTypeOK, BranchesOK
  <2>3. CASE v \in references'[r]
    BY <1>1, <1>6, <2>1, <2>2, <2>3, StarIsKept DEF Leads
  <2>4. CASE v \notin references'[r]
    <3>1. r = b /\ v = t
      BY <1>5, <2>1, <2>4
    <3>2. DerivedStar(n, x)
      BY <1>1, <1>4, <2>1, <3>1, StarIsTransitive
    <3>3. DerivedStar(n, x)'
      BY <1>1, <1>4, <1>6, <3>2, StarIsKept
    <3> QED
      BY <1>5, <3>1, <3>3 DEF Leads
  <2> QED
    BY <2>3, <2>4
<1>8. LeadsOn(m)' /\ NumberFollows(m)'
  <2>1. Leads(b, n)'
    BY <1>5 DEF Leads, DerivedStar
  <2> QED
    BY <1>3, <2>1 DEF LeadsOn, NumberFollows, HasTarget, HasPrior, Derives
<1>9. PICK M : M = {m}
  OBVIOUS
<1>10. M \in SUBSET Merge /\ \A k \in M : LeadsOn(k)' /\ NumberFollows(k)'
  BY <1>8, <1>9
<1> QED
  BY <1>6, <1>7, <1>9, <1>10, StepLeads DEF OthersStay

\* The full graph takes a change set that the branch leads to by now.
LEMMA UpdateFullGraphLeads ==
    ASSUME LeadInv, MergeInv', NEW m \in Merge, OthersStay(m), UpdateFullGraph(m)
    PROVE  LeadInv'
<1> USE OrderOfSteps DEF UpdateFullGraph, Goes, At, Writes, store, history, metadata, reads
<1>1. ThreadsTypeOK /\ BranchesTypeOK /\ LeadsOn(m) /\ Ordered
  BY DEF LeadInv, MergeInv, Typing
<1>2. PICK b, n : b = into[m] /\ n = number[m]
  OBVIOUS
<1>3. b \in Branch /\ n \in Rev /\ Leads(b, n)
  BY <1>1, <1>2 DEF ThreadsTypeOK, LeadsOn
<1>4. Ordered'
  BY <1>1 DEF Ordered
<1>5. Leads(b, n)'
  BY <1>3, <1>4, LeadsIsKept
<1>6. \A c \in committed' \ committed : c[1] = b /\ c[2] = n
  BY <1>2
<1>7. \A r \in Branch : \A x \in applied'[r] \ applied[r] : r = b /\ x = n
  BY <1>1, <1>2 DEF BranchesTypeOK
<1>8. /\ \A c \in committed' \ committed : Leads(c[1], c[2])'
      /\ \A r \in Branch : \A x \in applied'[r] \ applied[r] : Leads(r, x)'
  BY <1>5, <1>6, <1>7
<1>9. pc'[m] = "done"
  BY <1>1 DEF ThreadsTypeOK
<1>10. LeadsOn(m)' /\ NumberFollows(m)'
  BY <1>9 DEF LeadsOn, NumberFollows, HasTarget, HasPrior, Derives
<1> QED
  BY <1>8, <1>10, QuietStepLeads

LEMMA UpdateLeads ==
    ASSUME LeadInv, MergeInv', NEW b \in Branch, Update(b)
    PROVE  LeadInv'
<1>1. /\ ThreadsTypeOK /\ BranchesTypeOK /\ revisions \subseteq Rev /\ Ordered
  BY DEF LeadInv, MergeInv, Typing, HistoryTypeOK
<1>2. PICK v \in revisions, n \in Rev :
          /\ IsLeaf(b, v)
          /\ IsNextRevision(n)
          /\ wasDerivedFrom' = wasDerivedFrom \cup {<<n, v>>}
          /\ references' = [references EXCEPT ![b] = {n}]
          /\ applied' = [applied EXCEPT ![b] = @ \cup {n}]
          /\ committed' = committed \cup {<<b, n>>}
  BY DEF Update
<1>3. v \in Rev /\ v < n
  BY <1>1, <1>2 DEF IsNextRevision
<1>4. Ordered'
  BY <1>1, <1>2, <1>3, EdgeIsOrdered
<1>5. references'[b] = {n} /\ \A r \in Branch \ {b} : references'[r] = references[r]
  BY <1>1, <1>2 DEF BranchesTypeOK
<1>6. ASSUME NEW r \in Branch, NEW x \in Rev, Leads(r, x)
      PROVE  Leads(r, x)'
  <2>1. PICK w \in references[r] : DerivedStar(w, x)
    BY <1>6 DEF Leads
  <2>2. w \in Rev
    BY <1>1 DEF BranchesTypeOK, BranchesOK
  <2>3. DerivedStar(w, x)'
    BY <1>1, <1>2, <1>4, <2>1, <2>2, StarIsKept
  <2>4. CASE r = b
    <3>1. w = v
      BY <1>2, <2>1, <2>4 DEF IsLeaf
    <3>2. DerivedStar(n, x)'
      BY <1>2, <1>3, <1>4, <2>3, <3>1, NewEdgeLeads
    <3> QED
      BY <1>5, <2>4, <3>2 DEF Leads
  <2>5. CASE r # b
    BY <1>5, <2>1, <2>3, <2>5 DEF Leads
  <2> QED
    BY <2>4, <2>5
<1>7. Leads(b, n)'
  BY <1>5 DEF Leads, DerivedStar
<1>8. /\ \A c \in committed' \ committed : c[1] = b /\ c[2] = n
      /\ \A r \in Branch : \A x \in applied'[r] \ applied[r] : r = b /\ x = n
  BY <1>1, <1>2 DEF BranchesTypeOK
<1>9. /\ \A c \in committed' \ committed : Leads(c[1], c[2])'
      /\ \A r \in Branch : \A x \in applied'[r] \ applied[r] : Leads(r, x)'
  BY <1>7, <1>8
<1>10. UNCHANGED <<pc, into, target, source, prior, number>>
  BY DEF Update, reads
<1>11. PICK M : M = {}
  OBVIOUS
<1>12. M \in SUBSET Merge /\ \A k \in M : LeadsOn(k)' /\ NumberFollows(k)'
  BY <1>11
<1> QED
  BY <1>2, <1>4, <1>6, <1>9, <1>10, <1>11, <1>12, StepLeads

LEMMA RestartLeads ==
    ASSUME LeadInv, MergeInv', Restart
    PROVE  LeadInv'
<1>1. UNCHANGED <<wasDerivedFrom, references, committed, applied>>
  BY DEF Restart, metadata, history
<1>2. Ordered'
  BY <1>1 DEF LeadInv, Ordered
<1>3. \A r \in Branch : \A x \in Rev : Leads(r, x) => Leads(r, x)'
  BY <1>1, <1>2, LeadsIsKept
<1>4. ASSUME NEW m \in Merge
      PROVE  LeadsOn(m)' /\ NumberFollows(m)'
  <2>1. pc'[m] \in Ended
    BY DEF Restart, InProgress, Ended
  <2> QED
    BY <2>1 DEF LeadsOn, NumberFollows, HasTarget, HasPrior, Derives, Ended
<1>5. PICK M : M = Merge
  OBVIOUS
<1>6. M \in SUBSET Merge /\ \A k \in M : LeadsOn(k)' /\ NumberFollows(k)'
  BY <1>4, <1>5
<1> QED
  BY <1>1, <1>2, <1>3, <1>5, <1>6, StepLeads

LEMMA InitiallyLeads == Init => LeadInv
<1> SUFFICES ASSUME Init PROVE LeadInv
  OBVIOUS
<1>1. MergeInv
  BY InitiallySo
<1>2. Ordered
  BY DEF Init, Ordered
<1>3. \A m \in Merge : LeadsOn(m) /\ NumberFollows(m)
  BY DEF Init, LeadsOn, NumberFollows, HasTarget, HasPrior, Derives
<1>4. NothingIsLost
  BY DEF Init, NothingIsLost
<1>5. FullGraphIsNotAhead
  BY DEF Init, FullGraphIsNotAhead, DerivedStar
<1> QED
  BY <1>1, <1>2, <1>3, <1>4, <1>5 DEF LeadInv

LEMMA NextKeepsLeadInv == LeadInv /\ [Next]_vars => LeadInv'
<1> SUFFICES ASSUME LeadInv, [Next]_vars PROVE LeadInv'
  OBVIOUS
<1>1. MergeInv /\ MergeInv'
  BY NextKeepsMergeInv DEF LeadInv
<1>2. ASSUME NEW m \in Merge, Step(m)
      PROVE  LeadInv'
  <2>1. OthersStay(m)
    BY <1>1, <1>2, StepsAreOfOne
  <2> QED
    BY <1>1, <1>2, <2>1, QuietSteps, ReadsLead, WriteRevisionLeads, WriteCommitLeads,
       MoveBranchLeads, UpdateFullGraphLeads DEF Step
<1>3. ASSUME NEW r \in Branch, Update(r)
      PROVE  LeadInv'
  BY <1>1, <1>3, UpdateLeads
<1>4. ASSUME Restart
      PROVE  LeadInv'
  BY <1>1, <1>4, RestartLeads
<1>5. CASE UNCHANGED vars
  <2>1. UNCHANGED <<wasDerivedFrom, references, committed, applied,
                    pc, into, target, source, prior, number>>
    BY <1>5 DEF vars, store, metadata, reads, history
  <2>2. Ordered'
    BY <2>1 DEF LeadInv, Ordered
  <2>3. \A r \in Branch : \A x \in Rev : Leads(r, x) => Leads(r, x)'
    BY <2>1, <2>2, LeadsIsKept
  <2>4. PICK M : M = {}
    OBVIOUS
  <2>5. M \in SUBSET Merge /\ \A k \in M : LeadsOn(k)' /\ NumberFollows(k)'
    BY <2>4
  <2> QED
    BY <1>1, <2>1, <2>2, <2>3, <2>4, <2>5, StepLeads
<1> QED
  BY <1>2, <1>3, <1>4, <1>5 DEF Next

\* The inductive invariant of what branches lead to.
THEOREM LeadInvariant == Spec => []LeadInv
<1> QED
  BY InitiallyLeads, NextKeepsLeadInv, PTL DEF Spec

\* For every number of merges, branches and revisions, however merges and
\* updates interleave and wherever the server stops: the revision of an answered
\* request stays in the history of a revision that its branch references,
\* although updateReferenceCommit takes the branch off a leaf that the merge has
\* read long ago.
THEOREM MergesLoseNothing == Spec => []NothingIsLost
<1>1. LeadInv => NothingIsLost
  BY DEF LeadInv
<1> QED
  BY <1>1, LeadInvariant, PTL

\* For every number of merges, branches and revisions: a full graph holds no
\* change set that its branch does not lead to, since the branch is moved before
\* the full graph is written.
THEOREM FullGraphsAreNotAhead == Spec => []FullGraphIsNotAhead
<1>1. LeadInv => FullGraphIsNotAhead
  BY DEF LeadInv
<1> QED
  BY <1>1, LeadInvariant, PTL

-----------------------------------------------------------------------------
(***************************************************************************)
(* Whose triples the temporary graphs hold.  Of two merges in progress     *)
(* both are disturbed; one that never was finds its graph empty when it    *)
(* has dropped it, and its own triples in those that it has filled.        *)
(***************************************************************************)
Reading == {"ready", "check", "source", "target"}

FilledBefore(g) ==
    IF g = "from" THEN {}
    ELSE IF g = "into" THEN {"from"}
    ELSE IF g = "diff" THEN {"from", "into"}
    ELSE {"from", "into", "diff"}

Alone(m) ==
    /\ pc[m] \in {"create", "fill"} => temp[graph[m]] = {}
    /\ pc[m] \in {"drop", "create", "fill"} =>
           \A g \in FilledBefore(graph[m]) : temp[g] \subseteq {m}
    /\ pc[m] = "leaf" => temp["merged"] \subseteq {m}

AloneInv ==
    /\ \A m \in Merge : pc[m] \in Reading => graph[m] = "from"
    /\ \A m, k \in InProgress : m # k => m \in disturbed
    /\ \A m \in InProgress \ disturbed : Alone(m)

\* A step of one merge: the others, if there are any, are disturbed.
LEMMA StepIsAlone ==
    ASSUME MergeInv, AloneInv, NEW m \in Merge, Step(m), OthersStay(m)
    PROVE  AloneInv'
<1> USE OrderOfSteps DEF Goes, Fails, At, Writes, store, history, metadata, reads, Ended
<1>1. ThreadsTypeOK /\ TempTypeOK
  BY DEF MergeInv, Typing
<1>2. CASE Send(m)
  <2>1. pc'[m] = "check" /\ pc[m] = "ready" /\ UNCHANGED <<graph, temp>>
    BY <1>1, <1>2 DEF Send, ThreadsTypeOK
  <2>2. InProgress' = InProgress \cup {m} /\ m \notin InProgress
    BY <2>1 DEF InProgress, OthersStay
  <2>3. \A k \in InProgress : k \in disturbed' /\ m \in disturbed'
    BY <1>2 DEF Send
  <2>4. \A k \in Merge : pc'[k] \in Reading => pc[k] \in Reading
    BY <2>1 DEF OthersStay, Reading
  <2>5. \A k \in InProgress' \ disturbed' : Alone(k)'
    BY <2>1, <2>2, <2>3 DEF Alone
  <2> QED
    BY <2>1, <2>2, <2>3, <2>4, <2>5 DEF AloneInv
<1>3. ASSUME pc[m] \notin Ended, UNCHANGED disturbed, m \notin disturbed /\ pc'[m] \notin Ended => Alone(m)',
             pc'[m] \in Reading => pc[m] \in Reading /\ graph'[m] = graph[m],
             \A k \in Merge \ {m} : graph'[k] = graph[k],
             pc'[m] # "ready"
      PROVE  AloneInv'
  <2>1. m \in InProgress /\ InProgress' \subseteq InProgress
    BY <1>3 DEF InProgress, OthersStay
  <2>2. \A k \in InProgress : k # m => k \in disturbed
    BY <2>1 DEF AloneInv
  <2>3. \A k \in InProgress' \ disturbed' : k = m
    BY <1>3, <2>1, <2>2
  <2>4. \A k \in InProgress' \ disturbed' : Alone(k)'
    BY <1>3, <2>3 DEF InProgress
  <2>5. \A k \in Merge : pc'[k] \in Reading => graph'[k] = "from"
    BY <1>3 DEF AloneInv, OthersStay
  <2>6. \A k, j \in InProgress' : k # j => k \in disturbed'
    BY <1>3, <2>1 DEF AloneInv
  <2> QED
    BY <2>4, <2>5, <2>6 DEF AloneInv
<1>4. m \in InProgress /\ m \notin disturbed => Alone(m)
  BY DEF AloneInv
<1>5. CASE Check(m) \/ ReadSource(m)
  <2>1. /\ pc[m] \in {"check", "source"} /\ pc'[m] \in {"source", "target", "failed"}
        /\ UNCHANGED <<graph, disturbed>>
    BY <1>1, <1>5 DEF Check, ReadSource, ThreadsTypeOK
  <2>2. Alone(m)'
    BY <2>1 DEF Alone
  <2> QED
    BY <1>3, <2>1, <2>2 DEF Reading
<1>6. CASE ReadTarget(m)
  <2>1. /\ pc[m] = "target" /\ pc'[m] \in {"drop", "failed"}
        /\ UNCHANGED <<graph, disturbed>>
    BY <1>1, <1>6 DEF ReadTarget, ThreadsTypeOK
  <2>2. graph'[m] = "from"
    BY <2>1 DEF AloneInv, Reading
  <2>3. Alone(m)'
    BY <2>1, <2>2 DEF Alone, FilledBefore
  <2> QED
    BY <1>3, <2>1, <2>3 DEF Reading
<1>7. CASE DropTemp(m)
  <2>1. /\ pc[m] = "drop" /\ pc'[m] = "create" /\ UNCHANGED <<graph, disturbed>>
        /\ temp' = [temp EXCEPT ![graph[m]] = {}]
    BY <1>1, <1>7 DEF DropTemp, ThreadsTypeOK, Dropped
  <2>2. PICK x : x = graph[m]
    OBVIOUS
  <2>3. x \in TempGraph /\ temp'[x] = {} /\ \A g \in TempGraph \ {x} : temp'[g] = temp[g]
    BY <1>1, <2>1, <2>2 DEF TempTypeOK
  <2>4. FilledBefore(x) \subseteq TempGraph \ {x}
    BY <2>3, TempGraphs DEF FilledBefore
  <2>5. ASSUME m \notin disturbed PROVE Alone(m)'
    <3>1. \A g \in FilledBefore(x) : temp[g] \subseteq {m}
      BY <1>4, <2>1, <2>2, <2>5 DEF Alone, InProgress
    <3>2. \A g \in FilledBefore(x) : temp'[g] \subseteq {m}
      BY <2>3, <2>4, <3>1
    <3>3. graph'[m] = x
      BY <2>1, <2>2
    <3> QED
      BY <2>1, <2>3, <3>2, <3>3 DEF Alone
  <2> QED
    BY <1>3, <2>1, <2>5 DEF Reading
<1>8. CASE CreateTemp(m)
  <2>1. /\ pc[m] = "create" /\ pc'[m] \in {"fill", "failed"}
        /\ UNCHANGED <<graph, disturbed, temp>>
    BY <1>1, <1>8 DEF CreateTemp, ThreadsTypeOK
  <2>2. m \notin disturbed => Alone(m)'
    BY <1>4, <2>1 DEF Alone, InProgress
  <2> QED
    BY <1>3, <2>1, <2>2 DEF Reading
<1>9. CASE FillTemp(m)
  <2>1. pc[m] = "fill" /\ UNCHANGED disturbed
    BY <1>9 DEF FillTemp
  <2>2. PICK x : x = graph[m]
    OBVIOUS
  <2>3. x \in {"from", "into", "diff", "merged"}
    BY <1>1, <2>2, TempGraphs DEF TempTypeOK
  <2>4. /\ x = "merged" => pc'[m] = "leaf"
        /\ x # "merged" => pc'[m] = "drop"
        /\ x = "from" => graph'[m] = "into"
        /\ x = "into" => graph'[m] = "diff"
        /\ x = "diff" => graph'[m] = "merged"
        /\ \A k \in Merge \ {m} : graph'[k] = graph[k]
    <3>1. /\ Len(Graphs) = 4 /\ 1..3 = {1, 2, 3}
          /\ Graphs[1] = "from" /\ Graphs[2] = "into" /\ Graphs[3] = "diff" /\ Graphs[4] = "merged"
      BY DEF Graphs
    <3>2. CASE x = "merged"
      <4>1. \A i \in 1..(Len(Graphs) - 1) : Graphs[i] # x
        BY <3>1, <3>2
      <4> QED
        BY <1>1, <1>9, <2>1, <2>2, <3>2, <4>1 DEF FillTemp, ThreadsTypeOK
    <3>3. CASE x # "merged"
      <4>1. PICK i \in {1, 2, 3} : /\ Graphs[i] = x
                                   /\ graph' = [graph EXCEPT ![m] = Graphs[i + 1]]
                                   /\ pc' = [pc EXCEPT ![m] = "drop"]
        BY <1>9, <2>2, <3>1, <3>3 DEF FillTemp
      <4>2. graph'[m] = Graphs[i + 1] /\ pc'[m] = "drop"
        BY <1>1, <4>1 DEF ThreadsTypeOK, TempTypeOK
      <4>3. \A k \in Merge \ {m} : graph'[k] = graph[k]
        BY <1>1, <4>1 DEF TempTypeOK
      <4> QED
        BY <3>1, <3>3, <4>1, <4>2, <4>3
    <3> QED
      BY <3>2, <3>3
  <2>5. ASSUME m \notin disturbed PROVE Alone(m)'
    <3>1. temp[x] = {} /\ \A g \in FilledBefore(x) : temp[g] \subseteq {m}
      BY <1>4, <2>1, <2>2, <2>5 DEF Alone, InProgress
    <3>2. /\ x = "diff" => temp["from"] \cup temp["into"] \subseteq {m}
          /\ x = "merged" => temp["diff"] \subseteq {m}
      BY <3>1 DEF FilledBefore
    <3>3. ReadFor(x) \subseteq {m}
      BY <3>2 DEF ReadFor
    <3>4. PICK new : new \subseteq {m} /\ temp' = [temp EXCEPT ![x] = new]
      <4>1. PICK own \in {{}, {m}} :
              LET kept == IF x = "merged" THEN {} ELSE temp[x]
              IN  temp' = [temp EXCEPT ![x] = kept \cup ReadFor(x) \cup own]
        BY <1>9, <2>2 DEF FillTemp
      <4>2. temp' = [temp EXCEPT ![x] = {} \cup ReadFor(x) \cup own]
        BY <3>1, <4>1
      <4>3. {} \cup ReadFor(x) \cup own \subseteq {m}
        BY <3>3
      <4> QED
        BY <4>2, <4>3
    <3>5. temp'[x] \subseteq {m} /\ \A g \in TempGraph \ {x} : temp'[g] = temp[g]
      BY <1>1, <2>3, <3>4, TempGraphs DEF TempTypeOK
    <3>6. \A g \in FilledBefore(x) \cup {x} : temp'[g] \subseteq {m}
      BY <2>3, <3>1, <3>5, TempGraphs DEF FilledBefore
    <3>7. CASE x = "merged"
      BY <2>4, <3>6, <3>7 DEF Alone
    <3>8. CASE x # "merged"
      <4>1. FilledBefore(graph'[m]) = FilledBefore(x) \cup {x}
        BY <2>3, <2>4, <3>8 DEF FilledBefore
      <4> QED
        BY <2>4, <3>6, <3>8, <4>1 DEF Alone
    <3> QED
      BY <3>7, <3>8
  <2> QED
    BY <1>3, <2>1, <2>3, <2>4, <2>5 DEF Reading
<1>10. ASSUME UNCHANGED <<graph, temp, disturbed>>, pc[m] \notin Ended,
              pc'[m] \notin Reading \cup {"drop", "create", "fill", "leaf"}
       PROVE  AloneInv'
  <2>1. Alone(m)'
    BY <1>10 DEF Alone
  <2> QED
    BY <1>3, <1>10, <2>1 DEF Reading
<1>11. CASE ReportConflict(m) \/ ReadLeaf(m) \/ ReadNumber(m) \/ CheckNames(m)
  <2> USE <1>11 DEF ReportConflict, ReadLeaf, ReadNumber, CheckNames
  <2>1. UNCHANGED <<graph, temp, disturbed>> /\ pc[m] \notin Ended
    OBVIOUS
  <2>2. pc'[m] \in {"done", "failed", "number", "names", "changeSet"}
    BY <1>1 DEF ThreadsTypeOK
  <2> QED
    BY <1>10, <2>1, <2>2 DEF Reading
<1>12. CASE WriteChangeSet(m) \/ WriteRevision(m) \/ WriteSourceChangeSet(m)
  <2> USE <1>12 DEF WriteChangeSet, WriteRevision, WriteSourceChangeSet
  <2>1. UNCHANGED <<graph, temp, disturbed>> /\ pc[m] \notin Ended
    OBVIOUS
  <2>2. pc'[m] \in {"revision", "sourceLeaf", "meta"}
    BY <1>1 DEF ThreadsTypeOK
  <2> QED
    BY <1>10, <2>1, <2>2 DEF Reading
<1>14. CASE ReadSourceLeaf(m)
  <2>1. UNCHANGED <<graph, temp, disturbed>> /\ pc[m] \notin Ended
    BY <1>14 DEF ReadSourceLeaf
  <2>2. Fails(m) \/ Goes(m)
    <3> HIDE DEF Fails, Goes
    <3> QED
      BY <1>14 DEF ReadSourceLeaf
  <2>3. pc[m] = "sourceLeaf"
    BY <1>14 DEF ReadSourceLeaf
  <2>4. pc'[m] \in {"failed", "changeSetA"}
    BY <1>1, <2>2, <2>3 DEF ThreadsTypeOK
  <2> QED
    BY <1>10, <2>1, <2>4 DEF Reading
<1>13. CASE WriteCommit(m) \/ MoveBranch(m) \/ UpdateFullGraph(m)
  <2> USE <1>13 DEF WriteCommit, MoveBranch, UpdateFullGraph
  <2>1. UNCHANGED <<graph, temp, disturbed>> /\ pc[m] \notin Ended
    OBVIOUS
  <2>2. pc'[m] \in {"move", "full", "done"}
    BY <1>1 DEF ThreadsTypeOK
  <2> QED
    BY <1>10, <2>1, <2>2 DEF Reading
<1> QED
  BY <1>2, <1>5, <1>6, <1>7, <1>8, <1>9, <1>11, <1>12, <1>13, <1>14 DEF Step

LEMMA NextKeepsAloneInv == MergeInv /\ AloneInv /\ [Next]_vars => AloneInv'
<1> SUFFICES ASSUME MergeInv, AloneInv, [Next]_vars PROVE AloneInv'
  OBVIOUS
<1>1. ASSUME NEW m \in Merge, Step(m)
      PROVE  AloneInv'
  BY <1>1, StepsAreOfOne, StepIsAlone
<1>2. CASE UNCHANGED vars \/ \E r \in Branch : Update(r)
  <2>1. UNCHANGED <<pc, graph, temp, disturbed>>
    BY <1>2 DEF vars, store, history, Update
  <2> QED
    BY <2>1 DEF AloneInv, Alone, InProgress
<1>3. CASE Restart
  <2>1. InProgress' = {} /\ \A m \in Merge : graph'[m] = "from"
    BY <1>3 DEF Restart, InProgress, Ended
  <2> QED
    BY <2>1 DEF AloneInv
<1> QED
  BY <1>1, <1>2, <1>3 DEF Next

\* For every number of merges and branches, and wherever the server stops: a
\* merge that was the only one in progress finds its temporary graph empty when
\* createGraph asks for it, and takes the commit from a merged graph that it has
\* written itself, whatever other merges have left under the same names.
THEOREM UndisturbedMergesStayAlone == Spec => []UndisturbedMergesAreAlone
<1>1. Init => AloneInv
  BY DEF Init, AloneInv, InProgress, Ended
<1>2. AloneInv => UndisturbedMergesAreAlone
  BY DEF AloneInv, Alone, UndisturbedMergesAreAlone, InProgress, Ended, At
<1>3. MergeInv /\ AloneInv /\ [Next]_vars => AloneInv'
  BY NextKeepsAloneInv
<1> QED
  BY <1>1, <1>2, <1>3, MergeInvariant, PTL DEF Spec

=============================================================================
