-------------------------- MODULE CommitStepsProofs --------------------------
(***************************************************************************)
(* Theorems about CommitSteps: what holds of the revisions and references  *)
(* of a graph for every number of threads, of branches and of triples,     *)
(* however the threads interleave and wherever the server stops.           *)
(***************************************************************************)
EXTENDS CommitSteps, FiniteSetTheorems, WellFoundedInduction, TLAPS

USE RequestsAssumption, ClientAssumption

Steps == {"check", "leaf", "number", "names", "changeSet", "revision", "fill",
          "stripAdd", "stripDelete", "insert", "delete", "move", "done"}

LEMMA OrderOfSteps ==
    /\ {Order[i] : i \in 1..Len(Order)} = Steps
    /\ After("check") = "leaf" /\ After("leaf") = "number" /\ After("number") = "names"
    /\ After("names") = "changeSet" /\ After("changeSet") = "revision"
    /\ After("revision") = "fill" /\ After("fill") = "stripAdd"
    /\ After("stripAdd") = "stripDelete" /\ After("stripDelete") = "insert"
    /\ After("insert") = "delete" /\ After("delete") = "move" /\ After("move") = "done"
<1>1. Len(Order) = 13 /\ 1..13 = {1, 2, 3, 4, 5, 6, 7, 8, 9, 10, 11, 12, 13}
  BY DEF Order
<1>2. {Order[i] : i \in 1..Len(Order)} = Steps
  BY <1>1 DEF Order, Steps
<1>3. \A i \in 1..12 : After(Order[i]) = Order[i + 1]
  <2> SUFFICES ASSUME NEW i \in 1..12 PROVE After(Order[i]) = Order[i + 1]
    OBVIOUS
  <2>1. \A k \in 1..13 : Order[k] = Order[i] => k = i
    BY <1>1 DEF Order
  <2>2. (CHOOSE k \in 1..Len(Order) : Order[k] = Order[i]) = i
    BY <1>1, <2>1
  <2> QED
    BY <2>2 DEF After
<1>4. /\ Order[1] = "check" /\ Order[2] = "leaf" /\ Order[3] = "number" /\ Order[4] = "names"
      /\ Order[5] = "changeSet" /\ Order[6] = "revision" /\ Order[7] = "fill"
      /\ Order[8] = "stripAdd" /\ Order[9] = "stripDelete" /\ Order[10] = "insert"
      /\ Order[11] = "delete" /\ Order[12] = "move" /\ Order[13] = "done"
  BY DEF Order
<1>5. /\ After(Order[1]) = Order[2] /\ After(Order[2]) = Order[3]
      /\ After(Order[3]) = Order[4] /\ After(Order[4]) = Order[5]
      /\ After(Order[5]) = Order[6] /\ After(Order[6]) = Order[7]
      /\ After(Order[7]) = Order[8] /\ After(Order[8]) = Order[9]
      /\ After(Order[9]) = Order[10] /\ After(Order[10]) = Order[11]
      /\ After(Order[11]) = Order[12] /\ After(Order[12]) = Order[13]
  BY <1>3
<1> QED
  BY <1>2, <1>4, <1>5

-----------------------------------------------------------------------------
(***************************************************************************)
(* The numbers are dense, although they are drawn long before they are     *)
(* written: a number that is late has been written by the thread that      *)
(* was faster.                                                             *)
(***************************************************************************)
NotDrawn == {"ready", "check", "leaf", "number"}

HasRevision == {"fill", "stripAdd", "stripDelete", "insert", "delete", "move", "done"}

HasNumber == {"names", "changeSet", "revision"} \cup HasRevision

Dense == \E m \in Rev : revisions = 0..m /\ \A c \in Client : number[c] <= m + 1

Drawn ==
    /\ \A v \in revisions : v # 0 => \E c \in Client : number[c] = v
    /\ \A c \in Client :
          /\ pc[c] \in NotDrawn => number[c] = 0
          /\ pc[c] = "number" => prior[c] \in revisions
          /\ pc[c] \in HasNumber => prior[c] \in revisions /\ prior[c] < number[c]
          /\ pc[c] \in HasRevision => number[c] \in revisions

StepsInv ==
    /\ TypeOK
    /\ Dense
    /\ Drawn
    /\ LeavesExist
    /\ HistoryIsOrdered
    /\ wasDerivedFrom \subseteq revisions \X revisions

LEMMA RevIsInterval == Cardinality(Client) \in Nat /\ Rev = 0..Cardinality(Client)
  BY FS_CardinalityType DEF Rev

LEMMA StagesAreSteps == StepsInv => pc \in [Client -> Steps \cup Ended]
<1>1. {Order[i] : i \in 1..Len(Order)} = Steps
  BY OrderOfSteps
<1> QED
  BY <1>1 DEF StepsInv, TypeOK

LEMMA StepsInit == Init => StepsInv
<1> SUFFICES ASSUME Init PROVE StepsInv
  OBVIOUS
<1>1. 0 \in Rev /\ 0..0 = {0}
  BY RevIsInterval
<1>2. TypeOK
  <2>1. <<NoRevision, 0>> \in Edge
    BY <1>1 DEF Edge
  <2>2. /\ addSet \in [Edge -> SUBSET Triple] /\ deleteSet \in [Edge -> SUBSET Triple]
        /\ fullContent \in [Branch -> SUBSET Triple]
    BY DEF Init
  <2>3. references \in [Branch -> SUBSET Rev] /\ seen \in [Client -> [Branch -> SUBSET Rev]]
    BY <1>1 DEF Init
  <2>4. pc \in [Client -> {Order[i] : i \in 1..Len(Order)} \cup Ended]
    BY DEF Init, Ended
  <2>5. request \in [Client -> Requests]
    BY DEF Init
  <2>6. prior \in [Client -> Rev] /\ number \in [Client -> Rev]
    BY <1>1 DEF Init
  <2>7. revisions \subseteq Rev /\ wasDerivedFrom \subseteq Rev \X Rev /\ changeSets \subseteq Edge
    BY <1>1, <2>1 DEF Init
  <2> QED
    BY <2>2, <2>3, <2>4, <2>5, <2>6, <2>7 DEF TypeOK
<1>3. Dense
  BY <1>1 DEF Init, Dense
<1>4. Drawn
  BY DEF Init, Drawn, HasNumber, HasRevision
<1>5. LeavesExist
  BY DEF Init, LeavesExist
<1>6. HistoryIsOrdered
  BY DEF Init, HistoryIsOrdered, NoRevision
<1> QED
  BY <1>2, <1>3, <1>4, <1>5, <1>6 DEF StepsInv, Init

(***************************************************************************)
(* A thread that draws a number finds at most one revision for each other  *)
(* thread: there is a next number for it.                                  *)
(***************************************************************************)
LEMMA NextIsInRange ==
    ASSUME StepsInv, NEW c \in Client, pc[c] = "number", NEW n \in NextRevision
    PROVE  n \in Rev /\ \E m \in Rev : /\ revisions = 0..m /\ n = m + 1
                                      /\ \A d \in Client : number[d] <= m + 1
<1>1. PICK m \in Rev : revisions = 0..m /\ \A d \in Client : number[d] <= m + 1
  BY DEF StepsInv, Dense
<1>2. m \in Nat
  BY RevIsInterval
<1>3. n = m + 1
  <2>1. PICK w \in revisions : n = w + 1 /\ \A u \in revisions : u <= w
    BY DEF NextRevision
  <2>2. m \in revisions
    BY <1>1, <1>2
  <2> QED
    BY <1>1, <1>2, <2>1, <2>2
<1> DEFINE Others == Client \ {c}
           f == [v \in 1..m |-> CHOOSE d \in Others : number[d] = v]
<1>4. \A v \in 1..m : \E d \in Others : number[d] = v
  BY <1>1 DEF StepsInv, Drawn, NotDrawn
<1>5. f \in [1..m -> Others] /\ \A v \in 1..m : number[f[v]] = v
  BY <1>4
<1>6. IsFiniteSet(Others) /\ Cardinality(Others) = Cardinality(Client) - 1
  BY FS_RemoveElement
<1>7. IsFiniteSet(1..m) /\ Cardinality(1..m) = m
  BY <1>2, FS_Interval
<1>8. ~ (Cardinality(Others) < m)
  <2> SUFFICES ASSUME Cardinality(Others) < Cardinality(1..m) PROVE FALSE
    BY <1>7
  <2> HIDE DEF f, Others
  <2>1. \E v, w \in 1..m : v # w /\ f[v] = f[w]
    BY <1>5, <1>6, <1>7, FS_PigeonHole
  <2> QED
    BY <2>1, <1>5
<1>9. n \in Rev
  BY <1>2, <1>3, <1>6, <1>8, RevIsInterval
<1> QED
  BY <1>1, <1>3, <1>9

LEMMA StepsType ==
    ASSUME StepsInv, [Next]_vars
    PROVE  TypeOK'
<1> USE DEF store
<1>1. TypeOK
  BY DEF StepsInv
<1>2. pc \in [Client -> Steps \cup Ended]
  BY StagesAreSteps
<1>3. SUFFICES pc' \in [Client -> Steps \cup Ended] /\ (pc' \in [Client -> Steps \cup Ended] => TypeOK')
  OBVIOUS
<1>4. pc' \in [Client -> Steps \cup Ended]
  <2>1. ASSUME NEW c \in Client, Goes(c), pc[c] \in Steps \ {"done"}
        PROVE  pc' \in [Client -> Steps \cup Ended]
    <3>1. After(pc[c]) \in Steps
      BY <2>1, OrderOfSteps DEF Steps
    <3> QED
      BY <2>1, <3>1, <1>2 DEF Goes
  <2>2. ASSUME NEW c \in Client, Fails(c)
        PROVE  pc' \in [Client -> Steps \cup Ended]
    BY <2>2, <1>2 DEF Fails, Ended
  <2>3. ASSUME NEW c \in Client, Send(c)
        PROVE  pc' \in [Client -> Steps \cup Ended]
    BY <2>3, <1>2 DEF Send, Steps
  <2>4. ASSUME NEW c \in Client, Step(c), ~ Send(c)
        PROVE  Fails(c) \/ (Goes(c) /\ pc[c] \in Steps \ {"done"})
    BY <2>4 DEF Step, CheckUpToDate, ReadLeaf, ReadNumber, CheckNames, WriteChangeSet,
       WriteRevision, FillSets, RejectSets, StripAddSet, StripDeleteSet, InsertAddSet,
       DeleteDeleteSet, MoveBranch, At, Steps
  <2>5. CASE Crash
    BY <2>5, <1>2 DEF Crash, Ended
  <2>6. CASE UNCHANGED vars
    BY <2>6, <1>2 DEF vars
  <2> QED
    BY <2>1, <2>2, <2>3, <2>4, <2>5, <2>6 DEF Next, Rest
<1>5. ASSUME pc' \in [Client -> Steps \cup Ended]
      PROVE  TypeOK'
  <2>1. pc' \in [Client -> {Order[i] : i \in 1..Len(Order)} \cup Ended]
    BY <1>5, OrderOfSteps
  <2>2. ASSUME NEW c \in Client, Step(c)
        PROVE  TypeOK'
    <3>1. edge(c) \in Edge /\ ref(c) \in Branch
      <4>1. request[c] \in Request
        BY <1>1 DEF TypeOK
      <4> QED
        BY <1>1, <4>1 DEF TypeOK, Edge, edge, ref, Request
    <3>2. request[c].add \subseteq Triple /\ request[c].del \subseteq Triple
      BY <1>1 DEF TypeOK, Request
    <3>3. CASE Send(c)
      BY <3>3, <2>1, <1>1 DEF Send, TypeOK
    <3>4. CASE CheckUpToDate(c) \/ CheckNames(c) \/ RejectSets(c)
      BY <3>4, <2>1, <1>1 DEF CheckUpToDate, CheckNames, RejectSets, TypeOK
    <3>5. CASE ReadLeaf(c)
      <4>1. prior' \in [Client -> Rev]
        BY <3>5, <3>1, <1>1 DEF ReadLeaf, TypeOK
      <4> QED
        BY <3>5, <4>1, <2>1, <1>1 DEF ReadLeaf, TypeOK
    <3>6. CASE ReadNumber(c)
      <4>1. number' \in [Client -> Rev]
        BY <3>6, <1>1, NextIsInRange DEF ReadNumber, TypeOK, At
      <4> QED
        BY <3>6, <4>1, <2>1, <1>1 DEF ReadNumber, TypeOK
    <3>7. CASE WriteChangeSet(c)
      BY <3>7, <3>1, <2>1, <1>1 DEF WriteChangeSet, TypeOK
    <3>8. CASE WriteRevision(c)
      BY <3>8, <2>1, <1>1 DEF WriteRevision, TypeOK
    <3>9. CASE FillSets(c)
      BY <3>9, <3>1, <3>2, <2>1, <1>1 DEF FillSets, TypeOK
    <3>10. CASE StripAddSet(c) \/ StripDeleteSet(c)
      BY <3>10, <3>1, <2>1, <1>1 DEF StripAddSet, StripDeleteSet, TypeOK
    <3>11. CASE InsertAddSet(c) \/ DeleteDeleteSet(c)
      BY <3>11, <3>1, <2>1, <1>1 DEF InsertAddSet, DeleteDeleteSet, Merged, TypeOK
    <3>12. CASE MoveBranch(c)
      <4>1. references' \in [Branch -> SUBSET Rev]
        BY <3>12, <3>1, <1>1 DEF MoveBranch, TypeOK
      <4> QED
        BY <3>12, <4>1, <2>1, <1>1 DEF MoveBranch, TypeOK
    <3> QED
      BY <2>2, <3>3, <3>4, <3>5, <3>6, <3>7, <3>8, <3>9, <3>10, <3>11, <3>12 DEF Step
  <2>3. CASE Crash
    BY <2>3, <2>1, <1>1 DEF Crash, TypeOK
  <2>4. CASE UNCHANGED vars
    BY <2>4, <2>1, <1>1 DEF vars, TypeOK
  <2> QED
    BY <2>2, <2>3, <2>4 DEF Next, Rest
<1> QED
  BY <1>4, <1>5

(***************************************************************************)
(* The steps before and after the three that write to the history: they    *)
(* leave revisions, wasDerivedFrom, references and the numbers alone.      *)
(***************************************************************************)
LEMMA OtherSteps ==
    ASSUME StepsInv, NEW c \in Client, UNCHANGED <<revisions, wasDerivedFrom, references, number, prior>>,
           changeSets' = changeSets \/ changeSets' = changeSets \cup {edge(c)},
           changeSets' = changeSets \/ pc[c] \in HasNumber,
           \/ Fails(c)
           \/ pc[c] = "ready" /\ pc' = [pc EXCEPT ![c] = "check"]
           \/ Goes(c) /\ pc[c] \in {"check", "names", "changeSet"} \cup (HasRevision \ {"done"})
    PROVE  Dense' /\ Drawn' /\ LeavesExist' /\ HistoryIsOrdered'
           /\ (wasDerivedFrom \subseteq revisions \X revisions)'
<1>1. TypeOK
  BY DEF StepsInv
<1>2. Dense'
  BY DEF StepsInv, Dense
<1>3. Drawn'
  <2>1. /\ pc'[c] \in NotDrawn => pc[c] \in NotDrawn /\ pc'[c] # "number"
        /\ pc'[c] \in HasNumber => pc[c] \in HasNumber
        /\ pc'[c] \in HasRevision => pc[c] \in HasRevision
    BY <1>1, OrderOfSteps DEF Fails, Goes, NotDrawn, HasNumber, HasRevision, TypeOK
  <2>2. \A d \in Client : d # c => pc'[d] = pc[d]
    BY <1>1 DEF Fails, Goes, TypeOK
  <2>3. \A v \in revisions' : v # 0 => \E d \in Client : number'[d] = v
    BY DEF StepsInv, Drawn
  <2>4. ASSUME NEW d \in Client
        PROVE  /\ pc'[d] \in NotDrawn => pc[d] \in NotDrawn
               /\ pc'[d] = "number" => pc[d] = "number"
               /\ pc'[d] \in HasNumber => pc[d] \in HasNumber
               /\ pc'[d] \in HasRevision => pc[d] \in HasRevision
    BY <2>1, <2>2 DEF NotDrawn
  <2> QED
    BY <2>3, <2>4 DEF StepsInv, Drawn
<1>4. LeavesExist'
  BY DEF StepsInv, LeavesExist
<1>5. HistoryIsOrdered'
  BY DEF StepsInv, HistoryIsOrdered, Drawn, edge
<1>6. (wasDerivedFrom \subseteq revisions \X revisions)'
  BY DEF StepsInv
<1> QED
  BY <1>2, <1>3, <1>4, <1>5, <1>6

LEMMA StepsStep == StepsInv /\ [Next]_vars => StepsInv'
<1> SUFFICES ASSUME StepsInv, [Next]_vars
             PROVE  /\ Dense' /\ Drawn' /\ LeavesExist' /\ HistoryIsOrdered'
                    /\ (wasDerivedFrom \subseteq revisions \X revisions)'
  BY StepsType DEF StepsInv
<1> USE DEF store, At
<1>1. TypeOK
  BY DEF StepsInv
<1>2. ASSUME NEW c \in Client, Step(c)
      PROVE  /\ Dense' /\ Drawn' /\ LeavesExist' /\ HistoryIsOrdered'
             /\ (wasDerivedFrom \subseteq revisions \X revisions)'
  <2>1. CASE \/ Send(c) \/ CheckUpToDate(c) \/ CheckNames(c) \/ FillSets(c) \/ RejectSets(c)
             \/ StripAddSet(c) \/ StripDeleteSet(c) \/ InsertAddSet(c) \/ DeleteDeleteSet(c)
    <3> USE DEF HasNumber, HasRevision
    <3>1. CASE Send(c)
      BY <3>1, OtherSteps DEF Send
    <3>2. CASE CheckUpToDate(c)
      BY <3>2, OtherSteps DEF CheckUpToDate
    <3>3. CASE CheckNames(c)
      BY <3>3, OtherSteps DEF CheckNames
    <3>4. CASE FillSets(c)
      BY <3>4, OtherSteps DEF FillSets
    <3>5. CASE RejectSets(c)
      BY <3>5, OtherSteps DEF RejectSets
    <3>6. CASE StripAddSet(c)
      BY <3>6, OtherSteps DEF StripAddSet
    <3>7. CASE StripDeleteSet(c)
      BY <3>7, OtherSteps DEF StripDeleteSet
    <3>8. CASE InsertAddSet(c)
      BY <3>8, OtherSteps DEF InsertAddSet
    <3>9. CASE DeleteDeleteSet(c)
      BY <3>9, OtherSteps DEF DeleteDeleteSet
    <3> QED
      BY <2>1, <3>1, <3>2, <3>3, <3>4, <3>5, <3>6, <3>7, <3>8, <3>9
  <2>2. CASE ReadLeaf(c)
    <3>1. ASSUME ~ Goes(c)
          PROVE  Fails(c) /\ UNCHANGED prior
      BY <2>2, <3>1 DEF ReadLeaf
    <3>2. CASE ~ Goes(c)
      BY <2>2, <3>1, <3>2, OtherSteps DEF ReadLeaf
    <3>3. CASE Goes(c)
      <4>1. pc' = [pc EXCEPT ![c] = "number"] \/ Fails(c)
        BY <2>2, <3>3, OrderOfSteps DEF ReadLeaf, Goes
      <4>2. "number" # "failed"
        OBVIOUS
      <4>3. pc'[c] = "number"
        BY <2>2, <3>3, <1>1, OrderOfSteps DEF ReadLeaf, Goes, TypeOK
      <4>4. ~ Fails(c)
        BY <4>3, <1>1 DEF Fails, TypeOK
      <4>5. PICK v \in references[ref(c)] : prior' = [prior EXCEPT ![c] = v]
        BY <2>2, <4>4 DEF ReadLeaf
      <4>6. ref(c) \in Branch
        BY <1>1 DEF TypeOK, Request, ref
      <4>7. v \in revisions
        BY <4>5, <4>6 DEF StepsInv, LeavesExist
      <4>8. pc' = [pc EXCEPT ![c] = "number"]
        BY <4>1, <4>4
      <4>9. Drawn'
        BY <2>2, <4>5, <4>7, <4>8, <1>1
           DEF ReadLeaf, StepsInv, Drawn, NotDrawn, HasNumber, HasRevision, TypeOK
      <4> QED
        BY <2>2, <4>9 DEF ReadLeaf, StepsInv, Dense, LeavesExist, HistoryIsOrdered
    <3> QED
      BY <3>2, <3>3
  <2>3. CASE ReadNumber(c)
    <3>1. PICK n \in NextRevision : number' = [number EXCEPT ![c] = n]
      BY <2>3 DEF ReadNumber
    <3>2. PICK m \in Rev : /\ revisions = 0..m /\ n = m + 1
                           /\ \A d \in Client : number[d] <= m + 1
      BY <2>3, <3>1, NextIsInRange DEF ReadNumber
    <3>3. m \in Nat
      BY RevIsInterval
    <3>4. pc' = [pc EXCEPT ![c] = "names"]
      BY <2>3, OrderOfSteps DEF ReadNumber, Goes
    <3>5. Dense'
      BY <2>3, <3>1, <3>2, <3>3, <1>1 DEF ReadNumber, Dense, TypeOK
    <3>6. prior[c] \in revisions /\ prior[c] < n /\ number[c] = 0
      BY <2>3, <3>2, <3>3 DEF ReadNumber, StepsInv, Drawn, NotDrawn
    <3>7. Drawn'
      <4>1. \A v \in revisions' : v # 0 => \E d \in Client : number'[d] = v
        BY <2>3, <3>1, <3>6, <1>1 DEF ReadNumber, StepsInv, Drawn, TypeOK
      <4>2. \A d \in Client : d # c => pc'[d] = pc[d] /\ number'[d] = number[d]
        BY <3>1, <3>4, <1>1 DEF TypeOK
      <4>3. pc'[c] = "names" /\ number'[c] = n
        BY <3>1, <3>4, <1>1 DEF TypeOK
      <4>4. revisions' = revisions /\ prior' = prior
        BY <2>3 DEF ReadNumber
      <4> QED
        BY <3>6, <4>1, <4>2, <4>3, <4>4 DEF StepsInv, Drawn, NotDrawn, HasNumber, HasRevision
    <3> QED
      BY <2>3, <3>5, <3>7 DEF ReadNumber, StepsInv, LeavesExist, HistoryIsOrdered
  <2>4. CASE WriteChangeSet(c)
    BY <2>4, OtherSteps DEF WriteChangeSet, HasNumber
  <2>5. CASE WriteRevision(c)
    <3>1. pc[c] = "revision" /\ pc' = [pc EXCEPT ![c] = "fill"]
      BY <2>5, OrderOfSteps DEF WriteRevision, Goes
    <3>2. prior[c] \in revisions /\ prior[c] < number[c]
      BY <3>1 DEF StepsInv, Drawn, HasNumber
    <3>3. PICK m \in Rev : revisions = 0..m /\ \A d \in Client : number[d] <= m + 1
      BY DEF StepsInv, Dense
    <3>4. m \in Nat /\ number[c] \in Nat
      BY RevIsInterval, <1>1 DEF TypeOK
    <3>5. Dense'
      <4>1. CASE number[c] = m + 1
        <5>1. revisions' = 0..(m + 1)
          BY <2>5, <3>3, <3>4, <4>1 DEF WriteRevision
        <5>2. \A d \in Client : number'[d] <= (m + 1) + 1
          <6> TAKE d \in Client
          <6>1. number[d] \in Nat /\ number[d] <= m + 1 /\ number' = number
            BY <2>5, <1>1, <3>3, RevIsInterval DEF WriteRevision, TypeOK
          <6> QED
            BY <6>1, <3>4
        <5>3. m + 1 \in Rev
          BY <4>1, <1>1 DEF TypeOK
        <5> QED
          BY <5>1, <5>2, <5>3 DEF Dense
      <4>2. CASE number[c] # m + 1
        <5>1. revisions' = revisions
          BY <2>5, <3>3, <3>4, <4>2 DEF WriteRevision
        <5> QED
          BY <2>5, <5>1 DEF WriteRevision, StepsInv, Dense
      <4> QED
        BY <4>1, <4>2
    <3>6. revisions' = revisions \cup {number[c]}
      BY <2>5 DEF WriteRevision
    <3>7. Drawn'
      BY <2>5, <3>1, <3>2, <3>6, <1>1
         DEF WriteRevision, StepsInv, Drawn, NotDrawn, HasNumber, HasRevision, TypeOK
    <3>8. LeavesExist'
      BY <2>5, <3>6 DEF WriteRevision, StepsInv, LeavesExist
    <3>9. HistoryIsOrdered' /\ (wasDerivedFrom \subseteq revisions \X revisions)'
      BY <2>5, <3>2, <3>6 DEF WriteRevision, StepsInv, HistoryIsOrdered
    <3> QED
      BY <3>5, <3>7, <3>8, <3>9
  <2>6. CASE MoveBranch(c)
    <3>1. PICK e \in wasDerivedFrom :
              /\ e[1] = number[c]
              /\ references' = [references EXCEPT ![ref(c)] = (@ \ {e[2]}) \cup {number[c]}]
      BY <2>6 DEF MoveBranch
    <3>2. number[c] \in revisions
      BY <3>1 DEF StepsInv
    <3>3. LeavesExist'
      BY <2>6, <3>1, <3>2, <1>1 DEF MoveBranch, StepsInv, LeavesExist, TypeOK
    <3>4. pc[c] = "move" /\ pc' = [pc EXCEPT ![c] = "done"]
      BY <2>6, OrderOfSteps DEF MoveBranch, Goes
    <3>5. Drawn'
      BY <2>6, <3>4, <1>1
         DEF MoveBranch, StepsInv, Drawn, NotDrawn, HasNumber, HasRevision, TypeOK
    <3> QED
      BY <2>6, <3>3, <3>5 DEF MoveBranch, StepsInv, Dense, HistoryIsOrdered
  <2> QED
    BY <1>2, <2>1, <2>2, <2>3, <2>4, <2>5, <2>6 DEF Step
<1>3. CASE Crash
  <2>1. \A d \in Client : pc'[d] = pc[d] \/ pc'[d] = "failed"
    BY <1>3, <1>1 DEF Crash, TypeOK
  <2>2. Drawn'
    BY <1>3, <2>1 DEF Crash, StepsInv, Drawn, NotDrawn, HasNumber, HasRevision
  <2> QED
    BY <1>3, <2>2 DEF Crash, StepsInv, Dense, LeavesExist, HistoryIsOrdered
<1>4. CASE UNCHANGED vars
  BY <1>4 DEF vars, StepsInv, Dense, Drawn, LeavesExist, HistoryIsOrdered
<1> QED
  BY <1>2, <1>3, <1>4 DEF Next, Rest

-----------------------------------------------------------------------------
\* The inductive invariant of any interleaving of the transactions.
THEOREM StepsInvariant == Spec => []StepsInv
  BY StepsInit, StepsStep, PTL DEF Spec

\* Every variable keeps its type: though threads draw their numbers from each
\* other's unfinished work, no number runs ahead of the number of requests.
THEOREM StepsTyping == Spec => []TypeOK
  BY StepsInvariant, PTL DEF StepsInv

\* No branch loses its last revision and none references a revision that was
\* not written, whatever the threads that move it had read.
THEOREM BranchesStand == Spec => []LeavesExist
  BY StepsInvariant, PTL DEF StepsInv

\* Following wasDerivedFrom or the change sets back always ends, even from a
\* revision that several threads wrote.
THEOREM HistoryEnds == Spec => []HistoryIsOrdered
  BY StepsInvariant, PTL DEF StepsInv

-----------------------------------------------------------------------------
(***************************************************************************)
(* What the threads of a branch write reaches it.  A triple comes into a   *)
(* change set only from a request that has drawn this change set, and      *)
(* whoever has drawn one keeps it: a branch whose change sets are its own  *)
(* has them from its own requests only.                                    *)
(***************************************************************************)
Provenance ==
    \A e \in Edge, t \in Triple :
        /\ t \in addSet[e] =>
               \/ e[2] = 0
               \/ \E d \in Client : number[d] # 0 /\ edge(d) = e /\ t \in request[d].add
        /\ t \in deleteSet[e] =>
               \E d \in Client : number[d] # 0 /\ edge(d) = e /\ t \in request[d].del

Fellows(c) == {d \in Client : ref(d) = ref(c)}

\* What c adds and no request on its branch deletes, and the other way round.
Wanted(c) == request[c].add \ UNION {request[d].del : d \in Fellows(c)}

Unwanted(c) == request[c].del \ UNION {request[d].add : d \in Fellows(c)}

Filled == {"stripAdd", "stripDelete", "insert"}

TakesEffect(c) ==
    /\ pc[c] \in Filled => Wanted(c) \subseteq addSet[edge(c)] \cup fullContent[ref(c)]
    /\ pc[c] \in {"delete", "move", "done"} => Wanted(c) \subseteq fullContent[ref(c)]
    /\ pc[c] \in Filled \cup {"delete"} =>
           Unwanted(c) \cap fullContent[ref(c)] \subseteq deleteSet[edge(c)]
    /\ pc[c] \in {"move", "done"} => Unwanted(c) \cap fullContent[ref(c)] = {}

EffectInv ==
    /\ StepsInv
    /\ Provenance
    /\ \A c \in Client : Apart(ref(c)) => TakesEffect(c)

LEMMA RequestsAreTyped ==
    ASSUME StepsInv, NEW c \in Client
    PROVE  /\ ref(c) \in Branch /\ edge(c) \in Edge
           /\ request[c].add \subseteq Triple /\ request[c].del \subseteq Triple
<1>1. request[c] \in Request
  BY DEF StepsInv, TypeOK
<1>2. prior[c] \in Rev /\ number[c] \in Rev
  BY DEF StepsInv, TypeOK
<1> QED
  BY <1>1, <1>2 DEF Request, ref, edge, Edge

LEMMA NumbersAreDrawn ==
    ASSUME StepsInv, NEW c \in Client
    PROVE  pc[c] \in HasNumber <=> pc[c] # "failed" /\ number[c] # 0
<1>1. pc[c] \in Steps \cup Ended /\ prior[c] \in Nat /\ number[c] \in Nat
  BY OrderOfSteps, RevIsInterval DEF StepsInv, TypeOK
<1>2. pc[c] \in HasNumber => prior[c] < number[c]
  BY DEF StepsInv, Drawn
<1>3. pc[c] \in NotDrawn => number[c] = 0
  BY DEF StepsInv, Drawn
<1> QED
  BY <1>1, <1>2, <1>3 DEF Steps, Ended, NotDrawn, HasNumber, HasRevision

\* The change set of a branch that has its own: what none of its requests
\* deletes or adds is not in it.
LEMMA OwnSets ==
    ASSUME StepsInv, Provenance, NEW x \in Client, NEW c \in Client, Apart(ref(x)),
           ref(c) = ref(x), number[c] # 0
    PROVE  /\ \A t \in Wanted(x) : t \notin deleteSet[edge(c)]
           /\ \A t \in Unwanted(x) : t \notin addSet[edge(c)]
<1>1. edge(c) \in Edge /\ edge(c)[2] # 0
  BY RequestsAreTyped DEF edge
<1>2. \A d \in Client : edge(d) = edge(c) => ref(d) = ref(x)
  BY DEF Apart
<1>3. Wanted(x) \subseteq Triple /\ Unwanted(x) \subseteq Triple
  BY RequestsAreTyped DEF Wanted, Unwanted
<1>4. ASSUME NEW t \in Wanted(x), t \in deleteSet[edge(c)]
      PROVE  FALSE
  <2>1. PICK d \in Client : edge(d) = edge(c) /\ t \in request[d].del
    BY <1>1, <1>3, <1>4 DEF Provenance
  <2>2. d \in Fellows(x)
    BY <1>2, <2>1 DEF Fellows
  <2> QED
    BY <2>1, <2>2 DEF Wanted
<1>5. ASSUME NEW t \in Unwanted(x), t \in addSet[edge(c)]
      PROVE  FALSE
  <2>1. PICK d \in Client : edge(d) = edge(c) /\ t \in request[d].add
    BY <1>1, <1>3, <1>5 DEF Provenance
  <2>2. d \in Fellows(x)
    BY <1>2, <2>1 DEF Fellows
  <2> QED
    BY <2>1, <2>2 DEF Unwanted
<1> QED
  BY <1>4, <1>5

WritesSets(c) ==
    \/ FillSets(c) \/ StripAddSet(c) \/ StripDeleteSet(c) \/ InsertAddSet(c) \/ DeleteDeleteSet(c)

\* What a thread writes to a change set or a full graph takes nothing of the
\* effect of another one from its branch.
LEMMA EffectsStay ==
    ASSUME StepsInv, Provenance, NEW c \in Client, WritesSets(c),
           NEW x \in Client, number[x] # 0, Apart(ref(x)),
           NEW r, r = ref(x), NEW e, e = edge(x)
    PROVE  /\ \A t \in Wanted(x) :
                 /\ t \in addSet[e] \cup fullContent[r] => t \in addSet'[e] \cup fullContent'[r]
                 /\ t \in fullContent[r] => t \in fullContent'[r]
           /\ \A t \in Unwanted(x) :
                 /\ (t \in fullContent[r] => t \in deleteSet[e])
                        => (t \in fullContent'[r] => t \in deleteSet'[e])
                 /\ t \notin fullContent[r] => t \notin fullContent'[r]
<1>1. /\ addSet \in [Edge -> SUBSET Triple] /\ deleteSet \in [Edge -> SUBSET Triple]
      /\ fullContent \in [Branch -> SUBSET Triple]
  BY DEF StepsInv, TypeOK
<1>2. PICK q, f : q = ref(c) /\ f = edge(c)
  OBVIOUS
<1>3. q \in Branch /\ f \in Edge /\ r \in Branch /\ e \in Edge
  BY <1>2, RequestsAreTyped
<1>4. number[c] # 0
  BY NumbersAreDrawn DEF WritesSets, FillSets, StripAddSet, StripDeleteSet, InsertAddSet,
     DeleteDeleteSet, At, HasNumber, HasRevision
<1>5. f = e => q = r
  BY <1>2 DEF Apart
<1>6. q = r => /\ \A t \in Wanted(x) : t \notin deleteSet[f]
               /\ \A t \in Unwanted(x) : t \notin addSet[f]
  BY <1>2, <1>4, OwnSets
<1>7. CASE FillSets(c)
  <2>1. /\ addSet' = [addSet EXCEPT ![f] = @ \cup request[c].add]
        /\ deleteSet' = [deleteSet EXCEPT ![f] = @ \cup request[c].del]
        /\ fullContent' = fullContent
    BY <1>2, <1>7 DEF FillSets
  <2> QED
    BY <1>1, <1>3, <2>1
<1>8. CASE StripAddSet(c)
  <2>1. /\ addSet' = [addSet EXCEPT ![f] = @ \ fullContent[q]]
        /\ deleteSet' = deleteSet /\ fullContent' = fullContent
    BY <1>2, <1>8 DEF StripAddSet
  <2> QED
    BY <1>1, <1>3, <1>5, <2>1
<1>9. CASE StripDeleteSet(c)
  <2>1. /\ deleteSet' = [deleteSet EXCEPT ![f] = @ \cap fullContent[q]]
        /\ addSet' = addSet /\ fullContent' = fullContent
    BY <1>2, <1>9 DEF StripDeleteSet
  <2> QED
    BY <1>1, <1>3, <1>5, <2>1
<1>10. CASE InsertAddSet(c)
  <2>1. /\ fullContent' = [fullContent EXCEPT ![q] = @ \cup addSet[f]]
        /\ addSet' = addSet /\ deleteSet' = deleteSet
    BY <1>2, <1>10 DEF InsertAddSet, Merged
  <2> QED
    BY <1>1, <1>3, <1>6, <2>1
<1>11. CASE DeleteDeleteSet(c)
  <2>1. /\ fullContent' = [fullContent EXCEPT ![q] = @ \ deleteSet[f]]
        /\ addSet' = addSet /\ deleteSet' = deleteSet
    BY <1>2, <1>11 DEF DeleteDeleteSet
  <2> QED
    BY <1>1, <1>3, <1>6, <2>1
<1> QED
  BY <1>7, <1>8, <1>9, <1>10, <1>11 DEF WritesSets

\* Who has drawn a number keeps it, and the leaf that was read with it.
LEMMA DrawnStays ==
    ASSUME StepsInv, [Next]_vars
    PROVE  /\ request' = request
           /\ \A x \in Client : number[x] # 0 => number'[x] = number[x] /\ prior'[x] = prior[x]
<1> USE DEF store, At
<1>1. /\ prior \in [Client -> Rev] /\ number \in [Client -> Rev]
      /\ \A c \in Client : pc[c] \in NotDrawn => number[c] = 0
  BY DEF StepsInv, TypeOK, Drawn
<1>2. ASSUME NEW c \in Client, ReadLeaf(c) \/ ReadNumber(c)
      PROVE  /\ request' = request
             /\ \A x \in Client : number[x] # 0 => number'[x] = number[x] /\ prior'[x] = prior[x]
  BY <1>1, <1>2 DEF ReadLeaf, ReadNumber, NotDrawn
<1>3. ASSUME NEW c \in Client, Step(c), ~ ReadLeaf(c), ~ ReadNumber(c)
      PROVE  UNCHANGED <<request, prior, number>>
  BY <1>3 DEF Step, Send, CheckUpToDate, CheckNames, WriteChangeSet, WriteRevision, FillSets,
     RejectSets, StripAddSet, StripDeleteSet, InsertAddSet, DeleteDeleteSet, MoveBranch
<1>4. CASE Crash \/ UNCHANGED vars
  BY <1>4 DEF Crash, vars
<1> QED
  BY <1>2, <1>3, <1>4 DEF Next, Rest

LEMMA ApartBefore ==
    ASSUME StepsInv, [Next]_vars, NEW r, Apart(r)'
    PROVE  Apart(r)
<1> SUFFICES ASSUME NEW c \in Client, NEW d \in Client, ref(c) = r, ref(d) # r, number[c] # 0,
                    edge(c) = edge(d)
             PROVE  FALSE
  BY DEF Apart
<1>1. number[d] # 0
  BY DEF edge
<1>2. /\ request' = request
      /\ number'[c] = number[c] /\ prior'[c] = prior[c]
      /\ number'[d] = number[d] /\ prior'[d] = prior[d]
  BY <1>1, DrawnStays
<1>3. /\ request'[c].ref = r /\ request'[d].ref # r /\ number'[c] # 0
      /\ <<prior'[c], number'[c]>> = <<prior'[d], number'[d]>>
  BY <1>2 DEF ref, edge
<1> QED
  BY <1>3 DEF Apart, ref, edge

LEMMA ProvenanceStays ==
    ASSUME StepsInv, Provenance, [Next]_vars
    PROVE  Provenance'
<1>1. addSet \in [Edge -> SUBSET Triple] /\ deleteSet \in [Edge -> SUBSET Triple]
  BY DEF StepsInv, TypeOK
<1>2. ASSUME NEW e \in Edge, NEW t \in Triple
      PROVE  /\ t \in addSet'[e] /\ t \notin addSet[e] =>
                    \E d \in Client : number[d] # 0 /\ edge(d) = e /\ t \in request[d].add
             /\ t \in deleteSet'[e] /\ t \notin deleteSet[e] =>
                    \E d \in Client : number[d] # 0 /\ edge(d) = e /\ t \in request[d].del
  <2>1. ASSUME NEW c \in Client, FillSets(c)
        PROVE  /\ addSet' = [addSet EXCEPT ![edge(c)] = @ \cup request[c].add]
               /\ deleteSet' = [deleteSet EXCEPT ![edge(c)] = @ \cup request[c].del]
               /\ number[c] # 0 /\ edge(c) \in Edge
    BY <2>1, RequestsAreTyped, NumbersAreDrawn DEF FillSets, At, HasNumber, HasRevision
  <2>2. CASE \E c \in Client : FillSets(c)
    BY <1>1, <2>1, <2>2
  <2>3. ASSUME NEW c \in Client, StripAddSet(c) \/ StripDeleteSet(c)
        PROVE  addSet'[e] \subseteq addSet[e] /\ deleteSet'[e] \subseteq deleteSet[e]
    <3>1. edge(c) \in Edge
      BY RequestsAreTyped
    <3> QED
      BY <1>1, <2>3, <3>1 DEF StripAddSet, StripDeleteSet
  <2>4. ASSUME NEW c \in Client, Step(c), ~ FillSets(c), ~ (StripAddSet(c) \/ StripDeleteSet(c))
        PROVE  UNCHANGED <<addSet, deleteSet>>
    BY <2>4 DEF Step, Send, CheckUpToDate, ReadLeaf, ReadNumber, CheckNames, WriteChangeSet,
       WriteRevision, RejectSets, InsertAddSet, DeleteDeleteSet, MoveBranch, store
  <2>5. CASE Crash \/ UNCHANGED vars
    BY <2>5 DEF Crash, vars, store
  <2> QED
    BY <2>2, <2>3, <2>4, <2>5 DEF Next, Rest
<1>3. ASSUME NEW d \in Client, number[d] # 0
      PROVE  number'[d] # 0 /\ edge(d)' = edge(d) /\ request'[d] = request[d]
  BY <1>3, DrawnStays DEF edge
<1>4. ASSUME NEW e \in Edge, NEW t \in Triple
      PROVE  /\ t \in addSet'[e] =>
                    \/ e[2] = 0
                    \/ \E d \in Client : number'[d] # 0 /\ edge(d)' = e /\ t \in request'[d].add
             /\ t \in deleteSet'[e] =>
                    \E d \in Client : number'[d] # 0 /\ edge(d)' = e /\ t \in request'[d].del
  <2>1. t \in addSet'[e] =>
            e[2] = 0 \/ \E d \in Client : number[d] # 0 /\ edge(d) = e /\ t \in request[d].add
    BY <1>2 DEF Provenance
  <2>2. t \in deleteSet'[e] =>
            \E d \in Client : number[d] # 0 /\ edge(d) = e /\ t \in request[d].del
    BY <1>2 DEF Provenance
  <2> QED
    BY <1>3, <2>1, <2>2
<1> QED
  BY <1>4 DEF Provenance

\* The steps of others, and those of the thread itself that do not fill its
\* sets, insert or delete.
LEMMA TakesEffectStays ==
    ASSUME StepsInv, Provenance, [Next]_vars, NEW x \in Client, Apart(ref(x)), TakesEffect(x),
           \/ pc'[x] = pc[x] \/ pc'[x] \notin HasRevision
           \/ pc[x] = "fill" /\ pc'[x] = "fill"
           \/ pc[x] \in Filled /\ pc'[x] \in Filled
           \/ pc[x] = "move" /\ pc'[x] = "done",
           UNCHANGED <<addSet, deleteSet, fullContent>> \/ \E c \in Client : WritesSets(c)
    PROVE  TakesEffect(x)'
<1>1. CASE pc'[x] \notin HasRevision \/ pc'[x] = "fill"
  BY <1>1 DEF TakesEffect, Filled, HasRevision
<1>2. CASE pc'[x] \in HasRevision /\ pc'[x] # "fill"
  <2>0. /\ pc[x] \in HasRevision \ {"fill"}
        /\ pc'[x] \in Filled => pc[x] \in Filled
        /\ pc'[x] = "delete" => pc[x] = "delete"
        /\ pc'[x] \in {"move", "done"} => pc[x] \in {"move", "done"}
    BY <1>2 DEF Filled, HasRevision
  <2>1. number[x] # 0
    BY <2>0, NumbersAreDrawn DEF HasNumber
  <2>2. PICK r, e, W, U : r = ref(x) /\ e = edge(x) /\ W = Wanted(x) /\ U = Unwanted(x)
    OBVIOUS
  <2>3. /\ number'[x] = number[x] /\ prior'[x] = prior[x] /\ request' = request
    BY <2>1, DrawnStays
  <2>4. ref(x)' = r /\ edge(x)' = e
    BY <2>2, <2>3 DEF ref, edge
  <2>5. Wanted(x)' = W /\ Unwanted(x)' = U
    BY <2>2, <2>3 DEF Wanted, Unwanted, Fellows, ref
  <2>6. /\ \A t \in W :
             /\ t \in addSet[e] \cup fullContent[r] => t \in addSet'[e] \cup fullContent'[r]
             /\ t \in fullContent[r] => t \in fullContent'[r]
        /\ \A t \in U :
             /\ (t \in fullContent[r] => t \in deleteSet[e])
                    => (t \in fullContent'[r] => t \in deleteSet'[e])
             /\ t \notin fullContent[r] => t \notin fullContent'[r]
    BY <2>1, <2>2, EffectsStay
  <2>7. /\ pc[x] \in Filled => W \subseteq addSet[e] \cup fullContent[r]
        /\ pc[x] \in {"delete", "move", "done"} => W \subseteq fullContent[r]
        /\ pc[x] \in Filled \cup {"delete"} => U \cap fullContent[r] \subseteq deleteSet[e]
        /\ pc[x] \in {"move", "done"} => U \cap fullContent[r] = {}
    BY <2>2 DEF TakesEffect
  <2>8. /\ pc'[x] \in Filled => W \subseteq addSet'[e] \cup fullContent'[r]
        /\ pc'[x] \in {"delete", "move", "done"} => W \subseteq fullContent'[r]
        /\ pc'[x] \in Filled \cup {"delete"} => U \cap fullContent'[r] \subseteq deleteSet'[e]
        /\ pc'[x] \in {"move", "done"} => U \cap fullContent'[r] = {}
    BY <2>0, <2>6, <2>7
  <2> QED
    BY <2>4, <2>5, <2>8 DEF TakesEffect
<1> QED
  BY <1>1, <1>2

\* The steps that bring a request on: its sets are filled, inserted, deleted.
LEMMA TakesEffectNext ==
    ASSUME StepsInv, Provenance, [Next]_vars, NEW x \in Client, Apart(ref(x)), TakesEffect(x),
           FillSets(x) \/ InsertAddSet(x) \/ DeleteDeleteSet(x)
    PROVE  TakesEffect(x)'
<1> USE DEF At
<1>1. /\ addSet \in [Edge -> SUBSET Triple] /\ deleteSet \in [Edge -> SUBSET Triple]
      /\ fullContent \in [Branch -> SUBSET Triple]
      /\ pc \in [Client -> Steps \cup Ended]
  BY StagesAreSteps DEF StepsInv, TypeOK
<1>2. PICK r, e, W, U : r = ref(x) /\ e = edge(x) /\ W = Wanted(x) /\ U = Unwanted(x)
  OBVIOUS
<1>3. r \in Branch /\ e \in Edge /\ W \subseteq request[x].add /\ U \subseteq request[x].del
  BY <1>2, RequestsAreTyped DEF Wanted, Unwanted
<1>4. number[x] # 0
  BY NumbersAreDrawn DEF FillSets, InsertAddSet, DeleteDeleteSet, HasNumber, HasRevision
<1>5. \A t \in W : t \notin deleteSet[e]
  BY <1>2, <1>4, OwnSets
<1>6. \A t \in U : t \notin addSet[e]
  BY <1>2, <1>4, OwnSets
<1>7. number'[x] = number[x] /\ prior'[x] = prior[x] /\ request' = request
  BY <1>4, DrawnStays
<1>8. ref(x)' = r /\ edge(x)' = e
  BY <1>2, <1>7 DEF ref, edge
<1>9. Wanted(x)' = W /\ Unwanted(x)' = U
  BY <1>2, <1>7 DEF Wanted, Unwanted, Fellows, ref
<1>10. CASE FillSets(x)
  <2>1. /\ addSet'[e] = addSet[e] \cup request[x].add
        /\ deleteSet'[e] = deleteSet[e] \cup request[x].del
        /\ pc'[x] = "stripAdd"
    BY <1>1, <1>2, <1>3, <1>10, OrderOfSteps DEF FillSets, Goes
  <2>2. W \subseteq addSet'[e] /\ U \subseteq deleteSet'[e]
    BY <1>3, <2>1
  <2> QED
    BY <1>8, <1>9, <2>1, <2>2 DEF TakesEffect, Filled
<1>11. CASE InsertAddSet(x)
  <2>1. /\ fullContent'[r] = fullContent[r] \cup addSet[e] /\ deleteSet' = deleteSet
        /\ pc[x] = "insert" /\ pc'[x] = "delete"
    BY <1>1, <1>2, <1>3, <1>11, OrderOfSteps DEF InsertAddSet, Merged, Goes
  <2>2. W \subseteq addSet[e] \cup fullContent[r] /\ U \cap fullContent[r] \subseteq deleteSet[e]
    BY <1>2, <2>1 DEF TakesEffect, Filled
  <2>3. W \subseteq fullContent'[r] /\ U \cap fullContent'[r] \subseteq deleteSet'[e]
    BY <1>6, <2>1, <2>2
  <2> QED
    BY <1>8, <1>9, <2>1, <2>3 DEF TakesEffect, Filled
<1>12. CASE DeleteDeleteSet(x)
  <2>1. /\ fullContent'[r] = fullContent[r] \ deleteSet[e]
        /\ pc[x] = "delete" /\ pc'[x] = "move"
    BY <1>1, <1>2, <1>3, <1>12, OrderOfSteps DEF DeleteDeleteSet, Goes
  <2>2. W \subseteq fullContent[r] /\ U \cap fullContent[r] \subseteq deleteSet[e]
    BY <1>2, <2>1 DEF TakesEffect, Filled
  <2>3. W \subseteq fullContent'[r] /\ U \cap fullContent'[r] = {}
    BY <1>5, <2>1, <2>2
  <2> QED
    BY <1>8, <1>9, <2>1, <2>3 DEF TakesEffect, Filled
<1> QED
  BY <1>10, <1>11, <1>12

LEMMA EffectStep == EffectInv /\ [Next]_vars => EffectInv'
<1> SUFFICES ASSUME EffectInv, [Next]_vars PROVE EffectInv'
  OBVIOUS
<1>1. StepsInv /\ StepsInv' /\ Provenance /\ Provenance'
  BY StepsStep, ProvenanceStays DEF EffectInv
<1>2. pc \in [Client -> Steps \cup Ended]
  BY <1>1, StagesAreSteps
<1>3. ASSUME NEW x \in Client, Apart(ref(x))'
      PROVE  TakesEffect(x)'
  <2>1. Apart(ref(x)) /\ TakesEffect(x)
    <3>1. PICK r : r = ref(x)
      OBVIOUS
    <3>2. ref(x)' = r
      BY <1>1, <3>1, DrawnStays DEF ref
    <3>3. Apart(r)'
      BY <1>3, <3>2 DEF Apart
    <3>4. Apart(r)
      BY <1>1, <3>3, ApartBefore
    <3> QED
      BY <3>1, <3>4 DEF EffectInv
  <2>2. ASSUME NEW c \in Client, Step(c)
        PROVE  \/ TakesEffect(x)'
               \/ /\ \/ pc'[x] = pc[x] \/ pc'[x] \notin HasRevision
                     \/ pc[x] = "fill" /\ pc'[x] = "fill"
                     \/ pc[x] \in Filled /\ pc'[x] \in Filled
                     \/ pc[x] = "move" /\ pc'[x] = "done"
                  /\ UNCHANGED <<addSet, deleteSet, fullContent>> \/ \E d \in Client : WritesSets(d)
    <3> USE DEF At, Goes, Fails, store
    <3>1. \A d \in Client \ {c} : pc'[d] = pc[d]
      <4>1. \E s : pc' = [pc EXCEPT ![c] = s]
        BY <2>2 DEF Step, Send, CheckUpToDate, ReadLeaf, ReadNumber, CheckNames, WriteChangeSet,
           WriteRevision, FillSets, RejectSets, StripAddSet, StripDeleteSet, InsertAddSet,
           DeleteDeleteSet, MoveBranch
      <4> QED
        BY <1>2, <4>1
    <3>2. UNCHANGED <<addSet, deleteSet, fullContent>> \/ WritesSets(c)
      BY <2>2 DEF Step, Send, CheckUpToDate, ReadLeaf, ReadNumber, CheckNames, WriteChangeSet,
         WriteRevision, RejectSets, MoveBranch, WritesSets
    <3>3. CASE x # c
      BY <3>1, <3>2, <3>3
    <3>4. CASE x = c /\ (FillSets(c) \/ InsertAddSet(c) \/ DeleteDeleteSet(c))
      BY <1>1, <2>1, <3>4, TakesEffectNext
    <3>5. CASE x = c /\ (StripAddSet(c) \/ StripDeleteSet(c))
      <4>1. pc[x] \in Filled /\ pc'[x] \in Filled
        BY <1>2, <3>5, OrderOfSteps DEF StripAddSet, StripDeleteSet, Filled
      <4> QED
        BY <3>2, <4>1
    <3>6. CASE x = c /\ MoveBranch(c)
      <4>1. pc[x] = "move" /\ pc'[x] = "done"
        BY <1>2, <3>6, OrderOfSteps DEF MoveBranch
      <4> QED
        BY <3>2, <4>1
    <3>7. CASE x = c /\ WriteRevision(c)
      <4>1. pc'[x] = "fill"
        BY <1>2, <3>7, OrderOfSteps DEF WriteRevision
      <4> QED
        BY <4>1 DEF TakesEffect, Filled
    <3>8. CASE x = c /\ (Send(c) \/ CheckUpToDate(c) \/ ReadNumber(c) \/ CheckNames(c) \/ WriteChangeSet(c)
                         \/ RejectSets(c))
      <4>1. pc'[x] \notin HasRevision
        BY <1>2, <3>8, OrderOfSteps DEF Send, CheckUpToDate, ReadNumber, CheckNames,
           WriteChangeSet, RejectSets, HasRevision
      <4> QED
        BY <3>2, <4>1
    <3>9. CASE x = c /\ ReadLeaf(c)
      <4>1. Fails(c) \/ Goes(c)
        <5> HIDE DEF Fails, Goes
        <5> QED
          BY <3>9 DEF ReadLeaf
      <4>2. pc[c] = "leaf"
        BY <3>9 DEF ReadLeaf
      <4>3. pc'[x] \notin HasRevision
        BY <1>2, <3>9, <4>1, <4>2, OrderOfSteps DEF HasRevision
      <4> QED
        BY <3>2, <4>3
    <3> QED
      BY <2>2, <3>3, <3>4, <3>5, <3>6, <3>7, <3>8, <3>9 DEF Step
  <2>3. CASE Crash
    <3>1. pc'[x] = pc[x] \/ pc'[x] = "failed"
      BY <2>3, <1>2 DEF Crash
    <3>2. UNCHANGED <<addSet, deleteSet, fullContent>>
      BY <2>3 DEF Crash, store
    <3> QED
      BY <1>1, <2>1, <3>1, <3>2, TakesEffectStays DEF HasRevision
  <2>4. CASE UNCHANGED vars
    BY <1>1, <2>1, <2>4, TakesEffectStays DEF vars, store
  <2>5. CASE \E c \in Client : Step(c)
    BY <1>1, <2>1, <2>2, <2>5, TakesEffectStays
  <2> QED
    BY <2>3, <2>4, <2>5 DEF Next, Rest
<1> QED
  BY <1>1, <1>3 DEF EffectInv

\* For every number of threads, branches and triples: when a request is
\* answered, the full graph of its branch holds what it added and holds nothing
\* of what it deleted, as far as no request on this branch wants the opposite
\* and no request on another branch has drawn a change set of this branch;
\* however the threads interleave between the transactions of createUpdateCommit,
\* two of them in the same change set included, and wherever the server stops.
THEOREM AnsweredRequestsTakeEffect == Spec => []RequestsTakeEffect
<1>1. Init => EffectInv
  <2> SUFFICES ASSUME Init PROVE EffectInv
    OBVIOUS
  <2>1. Provenance
    BY DEF Init, Provenance
  <2>2. \A c \in Client : TakesEffect(c)
    BY DEF Init, TakesEffect, Filled
  <2> QED
    BY <2>1, <2>2, StepsInit DEF EffectInv
<1>2. EffectInv => RequestsTakeEffect
  <2> SUFFICES ASSUME EffectInv, NEW c \in Client, pc[c] = "done", Apart(ref(c))
               PROVE  /\ Wanted(c) \subseteq fullContent[ref(c)]
                      /\ Unwanted(c) \subseteq Triple \ fullContent[ref(c)]
    BY DEF RequestsTakeEffect, Wanted, Unwanted, Fellows, At
  <2>1. TakesEffect(c)
    BY DEF EffectInv
  <2>2. Unwanted(c) \subseteq Triple
    BY RequestsAreTyped DEF EffectInv, Unwanted
  <2> QED
    BY <2>1, <2>2 DEF TakesEffect
<1> QED
  BY <1>1, <1>2, EffectStep, PTL DEF Spec

-----------------------------------------------------------------------------
(***************************************************************************)
(* The content of a revision.  Change sets lead to older revisions, so     *)
(* that the recursion over them ends: there is such a function, and it     *)
(* says of a revision what its change sets and those before it say.        *)
(***************************************************************************)
LEMMA LeastNatural ==
    ASSUME NEW T, T \subseteq Nat, T # {}
    PROVE  \E x \in T : \A y \in T : x <= y
<1>1. \E x \in T : \A y \in T : ~ (<<y, x>> \in OpToRel(<, Nat))
  BY NatLessThanWellFounded, WFMin
<1>2. PICK x \in T : \A y \in T : ~ (<<y, x>> \in OpToRel(<, Nat))
  BY <1>1
<1>3. \A y \in T : ~ (y < x)
  BY <1>2 DEF OpToRel
<1> QED
  BY <1>3

OrderedSets ==
    /\ changeSets \subseteq Edge
    /\ \A e \in changeSets : e[1] < e[2]

\* What the change sets of v make of the contents f.
ContentFrom(f, v) ==
    IF v = NoRevision THEN {}
    ELSE UNION {(f[e[1]] \cup addSet[e]) \ deleteSet[e] : e \in {d \in changeSets : d[2] = v}}

ContentUnfolds ==
    \A v \in Rev \cup {NoRevision} : ContentOf[v] = ContentFrom(ContentOf, v)

LEMMA SameContentFrom ==
    ASSUME NEW f, NEW g, NEW v, \A e \in changeSets : e[2] = v => f[e[1]] = g[e[1]]
    PROVE  ContentFrom(f, v) = ContentFrom(g, v)
<1>1. \A e \in {d \in changeSets : d[2] = v} :
          (f[e[1]] \cup addSet[e]) \ deleteSet[e] = (g[e[1]] \cup addSet[e]) \ deleteSet[e]
  OBVIOUS
<1>2. {(f[e[1]] \cup addSet[e]) \ deleteSet[e] : e \in {d \in changeSets : d[2] = v}}
        = {(g[e[1]] \cup addSet[e]) \ deleteSet[e] : e \in {d \in changeSets : d[2] = v}}
  BY <1>1
<1> QED
  BY <1>2 DEF ContentFrom

LEMMA ContentIsComputed == OrderedSets => ContentUnfolds
<1> SUFFICES ASSUME OrderedSets PROVE ContentUnfolds
  OBVIOUS
<1> DEFINE D == Rev \cup {NoRevision}
           Upto(n) == {v \in D : v < n}
           Partly(f, n) == f = [v \in Upto(n) |-> ContentFrom(f, v)]
           Solves(f) == f = [v \in D |-> ContentFrom(f, v)]
           bad == {n \in Nat : ~ \E f : Partly(f, n)}
<1>1. /\ D \subseteq Int
      /\ \A v \in D : -1 <= v
      /\ \A e \in changeSets : e[1] \in D /\ e[2] \in D /\ e[1] < e[2]
  BY RevIsInterval DEF OrderedSets, Edge, NoRevision
<1>2. bad = {}
  <2> SUFFICES ASSUME bad # {} PROVE FALSE
    OBVIOUS
  <2>1. PICK n \in bad : \A k \in bad : n <= k
    BY LeastNatural
  <2>2. CASE n = 0
    <3> DEFINE f == [v \in Upto(0) |-> {}]
    <3>1. \A v \in Upto(0) : v = NoRevision
      BY <1>1 DEF NoRevision
    <3>2. \A v \in Upto(0) : ContentFrom(f, v) = {}
      BY <3>1 DEF ContentFrom
    <3>3. Partly(f, 0)
      BY <3>2
    <3> QED
      BY <2>1, <2>2, <3>3
  <2>3. CASE n # 0
    <3>0. n \in Nat
      OBVIOUS
    <3>1. n - 1 \in Nat /\ n - 1 \notin bad
      <4> HIDE DEF bad
      <4> QED
        BY <2>1, <2>3, <3>0
    <3>2. PICK g : Partly(g, n - 1)
      BY <3>1
    <3> DEFINE f == [v \in Upto(n) |-> IF v < n - 1 THEN g[v] ELSE ContentFrom(g, v)]
    <3>3. ASSUME NEW v \in Upto(n)
          PROVE  ContentFrom(g, v) = ContentFrom(f, v)
      <4>1. ASSUME NEW e \in changeSets, e[2] = v
            PROVE  g[e[1]] = f[e[1]]
        <5>1. e[1] \in D /\ e[1] < n - 1 /\ e[1] \in Upto(n)
          BY <1>1, <3>0, <4>1
        <5> QED
          BY <5>1
      <4> HIDE DEF f
      <4> QED
        BY <4>1, SameContentFrom
    <3>4. \A v \in Upto(n) : f[v] = ContentFrom(g, v)
      <4> SUFFICES ASSUME NEW v \in Upto(n) PROVE f[v] = ContentFrom(g, v)
        OBVIOUS
      <4>1. CASE v < n - 1
        <5>1. v \in Upto(n - 1)
          BY <4>1
        <5>2. g[v] = ContentFrom(g, v)
          BY <3>2, <5>1
        <5> QED
          BY <4>1, <5>2
      <4> QED
        BY <4>1
    <3>5. Partly(f, n)
      BY <3>3, <3>4
    <3> QED
      BY <2>1, <3>5
  <2> QED
    BY <2>2, <2>3
<1>3. \E f : Solves(f)
  <2>1. PICK n \in Nat : \A v \in D : v < n
    <3>1. Cardinality(Client) + 1 \in Nat /\ \A v \in D : v < Cardinality(Client) + 1
      BY RevIsInterval DEF NoRevision
    <3> QED
      BY <3>1
  <2>2. Upto(n) = D
    BY <2>1
  <2>3. PICK f : Partly(f, n)
    BY <1>2
  <2>4. Solves(f)
    BY <2>2, <2>3
  <2> QED
    BY <2>4
<1>4. ContentOf = CHOOSE f : Solves(f)
  BY DEF ContentOf, ContentFrom
<1>5. Solves(ContentOf)
  <2> HIDE DEF Solves
  <2> QED
    BY <1>3, <1>4
<1> QED
  BY <1>5 DEF ContentUnfolds

\* Writing to the change sets of a revision changes no older content.
LEMMA OlderContentStays ==
    ASSUME OrderedSets, OrderedSets', NEW n \in Rev,
           \A e \in Edge : e[2] < n => /\ e \in changeSets' <=> e \in changeSets
                                       /\ addSet'[e] = addSet[e]
                                       /\ deleteSet'[e] = deleteSet[e],
           NEW v \in Rev \cup {NoRevision}, v < n
    PROVE  ContentOf'[v] = ContentOf[v]
<1>1. ContentUnfolds /\ ContentUnfolds'
  <2>1. OrderedSets' => ContentUnfolds'
    BY ContentIsComputed, PTL
  <2> QED
    BY <2>1, ContentIsComputed
<1> DEFINE D == Rev \cup {NoRevision}
           bad == {k \in Nat : k - 1 \in D /\ k - 1 < n /\ ContentOf'[k - 1] # ContentOf[k - 1]}
<1>2. /\ D \subseteq Int
      /\ \A w \in D : -1 <= w
      /\ \A e \in changeSets : e \in Edge /\ e[1] \in D /\ e[2] \in D /\ e[1] < e[2]
      /\ changeSets' \subseteq Edge
  BY RevIsInterval DEF OrderedSets, Edge, NoRevision
<1>3. SUFFICES bad = {}
  <2>1. v + 1 \in Nat /\ (v + 1) - 1 = v
    BY <1>2
  <2>2. v + 1 \notin bad
    BY <1>3
  <2> QED
    BY <2>1, <2>2
<1>4. SUFFICES ASSUME bad # {} PROVE FALSE
  OBVIOUS
<1>5. PICK k \in bad : \A j \in bad : k <= j
  BY <1>4, LeastNatural
<1>6. PICK w : w = k - 1
  OBVIOUS
<1>7. k \in Nat /\ w \in D /\ w < n /\ w \in Int /\ n \in Int /\ ContentOf'[w] # ContentOf[w]
  BY <1>2, <1>5, <1>6
<1>8. \A e \in changeSets : e[2] = w => ContentOf'[e[1]] = ContentOf[e[1]]
  <2> SUFFICES ASSUME NEW e \in changeSets, e[2] = w, ContentOf'[e[1]] # ContentOf[e[1]] PROVE FALSE
    OBVIOUS
  <2>1. e[1] \in D /\ e[1] \in Int /\ e[1] < w /\ e[1] < n /\ e[1] + 1 \in Nat
    BY <1>2, <1>7
  <2>2. (e[1] + 1) - 1 = e[1]
    BY <2>1
  <2>3. e[1] + 1 \in bad
    BY <2>1, <2>2
  <2>4. k <= e[1] + 1 /\ k = w + 1
    BY <1>5, <1>6, <1>7, <2>3
  <2> QED
    BY <1>7, <2>1, <2>4
<1>9. /\ ContentOf[w] = ContentFrom(ContentOf, w)
      /\ ContentOf'[w] = ContentFrom(ContentOf, w)'
  BY <1>1, <1>7 DEF ContentUnfolds
<1>10. {d \in changeSets' : d[2] = w} = {d \in changeSets : d[2] = w}
  BY <1>2, <1>7
<1>11. \A e \in {d \in changeSets : d[2] = w} :
          (ContentOf'[e[1]] \cup addSet'[e]) \ deleteSet'[e]
              = (ContentOf[e[1]] \cup addSet[e]) \ deleteSet[e]
  BY <1>2, <1>7, <1>8
<1>12. {(ContentOf'[e[1]] \cup addSet'[e]) \ deleteSet'[e] : e \in {d \in changeSets' : d[2] = w}}
         = {(ContentOf[e[1]] \cup addSet[e]) \ deleteSet[e] : e \in {d \in changeSets : d[2] = w}}
  BY <1>10, <1>11
<1>13. ContentFrom(ContentOf, w)' = ContentFrom(ContentOf, w)
  BY <1>12 DEF ContentFrom
<1> QED
  BY <1>7, <1>9, <1>13

-----------------------------------------------------------------------------
(***************************************************************************)
(* One request after the other.  The number that a request has drawn is    *)
(* newer than all revisions until the revision is written, and the change  *)
(* sets of the graph belong to revisions, but for that of a request in     *)
(* progress.                                                               *)
(***************************************************************************)
Draft == {"names", "changeSet", "revision"}

OneAtATime == \A c, d \in Client : InProgress(c) /\ InProgress(d) => c = d

SetsHaveRevisions ==
    \A e \in changeSets :
        e[2] \in revisions \/ \E c \in Client : pc[c] = "revision" /\ e = edge(c)

NumbersAreNew ==
    \A c \in Client : pc[c] \in Draft => \A v \in revisions : v < number[c]

SerialInv == StepsInv /\ OneAtATime /\ SetsHaveRevisions /\ NumbersAreNew

LEMMA SerialInit == Init => SerialInv
<1> SUFFICES ASSUME Init PROVE SerialInv
  OBVIOUS
<1>1. OneAtATime /\ NumbersAreNew
  BY DEF Init, OneAtATime, InProgress, Ended, NumbersAreNew, Draft
<1>2. SetsHaveRevisions
  BY DEF Init, SetsHaveRevisions
<1> QED
  BY <1>1, <1>2, StepsInit DEF SerialInv

LEMMA SerialIsNext == [SerialNext]_vars => [Next]_vars
  BY DEF SerialNext, Next

\* What the others are while one request runs.
LEMMA OthersRest ==
    ASSUME StepsInv, NEW c \in Client, Step(c)
    PROVE  /\ InProgress(c) \/ pc[c] = "ready"
           /\ \A d \in Client \ {c} : /\ pc'[d] = pc[d] /\ number'[d] = number[d]
                                      /\ prior'[d] = prior[d]
           /\ request' = request
<1>1. /\ pc \in [Client -> Steps \cup Ended] /\ prior \in [Client -> Rev]
      /\ number \in [Client -> Rev]
  BY StagesAreSteps DEF StepsInv, TypeOK
<1>2. InProgress(c) \/ pc[c] = "ready"
  BY DEF Step, Send, CheckUpToDate, ReadLeaf, ReadNumber, CheckNames, WriteChangeSet,
     WriteRevision, FillSets, RejectSets, StripAddSet, StripDeleteSet, InsertAddSet,
     DeleteDeleteSet, MoveBranch, At, InProgress, Ended
<1>3. \E s : pc' = [pc EXCEPT ![c] = s]
  BY DEF Step, Send, CheckUpToDate, ReadLeaf, ReadNumber, CheckNames, WriteChangeSet,
     WriteRevision, FillSets, RejectSets, StripAddSet, StripDeleteSet, InsertAddSet,
     DeleteDeleteSet, MoveBranch, Goes, Fails
<1>4. /\ number' = number \/ \E n : number' = [number EXCEPT ![c] = n]
      /\ prior' = prior \/ \E v : prior' = [prior EXCEPT ![c] = v]
      /\ request' = request
  BY DEF Step, Send, CheckUpToDate, ReadLeaf, ReadNumber, CheckNames, WriteChangeSet,
     WriteRevision, FillSets, RejectSets, StripAddSet, StripDeleteSet, InsertAddSet,
     DeleteDeleteSet, MoveBranch, store
<1> QED
  BY <1>1, <1>2, <1>3, <1>4

LEMMA SerialStep == SerialInv /\ [SerialNext]_vars => SerialInv'
<1> SUFFICES ASSUME SerialInv, [SerialNext]_vars PROVE SerialInv'
  OBVIOUS
<1> USE DEF At, Goes, Fails, store
<1>1. /\ StepsInv /\ StepsInv'
      /\ pc \in [Client -> Steps \cup Ended] /\ number \in [Client -> Rev]
      /\ revisions \subseteq Rev /\ Rev \subseteq Nat
  <2>1. StepsInv /\ StepsInv'
    BY SerialIsNext, StepsStep DEF SerialInv
  <2>2. pc \in [Client -> Steps \cup Ended] /\ number \in [Client -> Rev] /\ revisions \subseteq Rev
    BY <2>1, StagesAreSteps DEF StepsInv, TypeOK
  <2> QED
    BY <2>1, <2>2, RevIsInterval
<1>2. ASSUME NEW c \in Client, Step(c), \A d \in Client \ {c} : ~ InProgress(d)
      PROVE  SerialInv'
  <2>1. \A d \in Client \ {c} : /\ pc'[d] = pc[d] /\ ~ InProgress(d)
                                /\ number'[d] = number[d] /\ prior'[d] = prior[d]
    BY <1>1, <1>2, OthersRest
  <2>2. \A d \in Client \ {c} : pc'[d] \in Ended
    BY <2>1 DEF InProgress
  <2>3. OneAtATime'
    BY <2>2 DEF OneAtATime, InProgress
  <2>4. ASSUME UNCHANGED <<revisions, changeSets>>, pc[c] # "revision",
               pc'[c] \notin Draft \/ (pc[c] \in Draft /\ number'[c] = number[c])
        PROVE  SetsHaveRevisions' /\ NumbersAreNew'
    <3>1. \A d \in Client : pc[d] # "revision"
      BY <2>1, <2>4 DEF InProgress, Ended
    <3>2. \A e \in changeSets : e[2] \in revisions
      BY <3>1 DEF SerialInv, SetsHaveRevisions
    <3>3. NumbersAreNew'
      BY <2>2, <2>4 DEF SerialInv, NumbersAreNew, Draft, Ended
    <3> QED
      BY <2>4, <3>2, <3>3 DEF SetsHaveRevisions
  <2>5. CASE Send(c) \/ CheckUpToDate(c) \/ FillSets(c) \/ RejectSets(c)
    <3>1. UNCHANGED <<revisions, changeSets>> /\ pc[c] # "revision" /\ pc'[c] \notin Draft
      BY <1>1, <2>5, OrderOfSteps DEF Send, CheckUpToDate, FillSets, RejectSets, Draft
    <3> QED
      BY <1>1, <2>3, <2>4, <3>1 DEF SerialInv
  <2>6. CASE StripAddSet(c) \/ StripDeleteSet(c) \/ InsertAddSet(c) \/ DeleteDeleteSet(c)
             \/ MoveBranch(c)
    <3>1. UNCHANGED <<revisions, changeSets>> /\ pc[c] # "revision" /\ pc'[c] \notin Draft
      BY <1>1, <2>6, OrderOfSteps DEF StripAddSet, StripDeleteSet, InsertAddSet, DeleteDeleteSet,
         MoveBranch, Draft
    <3> QED
      BY <1>1, <2>3, <2>4, <3>1 DEF SerialInv
  <2>7. CASE ReadLeaf(c)
    <3>1. Fails(c) \/ Goes(c)
      <4> HIDE DEF Fails, Goes
      <4> QED
        BY <2>7 DEF ReadLeaf
    <3>2. UNCHANGED <<revisions, changeSets>> /\ pc[c] = "leaf"
      BY <2>7 DEF ReadLeaf
    <3>3. pc'[c] \notin Draft
      BY <1>1, <3>1, <3>2, OrderOfSteps DEF Draft
    <3> QED
      BY <1>1, <2>3, <2>4, <3>2, <3>3 DEF SerialInv
  <2>8. CASE CheckNames(c)
    <3>1. UNCHANGED <<revisions, changeSets>> /\ pc[c] = "names" /\ number' = number
      BY <2>8 DEF CheckNames
    <3> QED
      BY <1>1, <2>3, <2>4, <3>1 DEF SerialInv, Draft
  <2>9. CASE ReadNumber(c)
    <3>1. UNCHANGED <<revisions, changeSets>> /\ pc[c] = "number"
      BY <2>9 DEF ReadNumber
    <3>2. PICK n \in NextRevision : number' = [number EXCEPT ![c] = n]
      BY <2>9 DEF ReadNumber
    <3>3. number'[c] = n /\ \A v \in revisions : v < n
      BY <1>1, <3>2 DEF NextRevision
    <3>4. \A d \in Client : pc[d] # "revision"
      BY <2>1, <3>1 DEF InProgress, Ended
    <3>5. SetsHaveRevisions'
      BY <3>1, <3>4 DEF SerialInv, SetsHaveRevisions
    <3>6. NumbersAreNew'
      BY <2>2, <3>1, <3>3 DEF NumbersAreNew, Draft, Ended
    <3> QED
      BY <1>1, <2>3, <3>5, <3>6 DEF SerialInv
  <2>10. CASE WriteChangeSet(c)
    <3>1. /\ revisions' = revisions /\ changeSets' = changeSets \cup {edge(c)}
          /\ pc[c] = "changeSet" /\ pc'[c] = "revision" /\ number' = number /\ prior' = prior
      BY <1>1, <2>10, OrderOfSteps DEF WriteChangeSet
    <3>2. \A d \in Client : pc[d] # "revision"
      BY <2>1, <3>1 DEF InProgress, Ended
    <3>3. \A e \in changeSets : e[2] \in revisions
      BY <3>2 DEF SerialInv, SetsHaveRevisions
    <3>4. edge(c)' = edge(c)
      BY <3>1 DEF edge
    <3>5. SetsHaveRevisions'
      BY <3>1, <3>3, <3>4 DEF SetsHaveRevisions
    <3>6. NumbersAreNew'
      BY <2>2, <3>1 DEF SerialInv, NumbersAreNew, Draft, Ended
    <3> QED
      BY <1>1, <2>3, <3>5, <3>6 DEF SerialInv
  <2>11. CASE WriteRevision(c)
    <3>1. /\ revisions' = revisions \cup {number[c]} /\ changeSets' = changeSets
          /\ pc[c] = "revision" /\ pc'[c] = "fill"
      BY <1>1, <2>11, OrderOfSteps DEF WriteRevision
    <3>2. \A d \in Client : pc[d] = "revision" => d = c
      BY <2>1 DEF InProgress, Ended
    <3>3. \A e \in changeSets : e[2] \in revisions \/ e = edge(c)
      BY <3>2 DEF SerialInv, SetsHaveRevisions
    <3>4. SetsHaveRevisions'
      BY <3>1, <3>3 DEF SetsHaveRevisions, edge
    <3>5. NumbersAreNew'
      BY <2>2, <3>1 DEF NumbersAreNew, Draft, Ended
    <3> QED
      BY <1>1, <2>3, <3>4, <3>5 DEF SerialInv
  <2> QED
    BY <1>2, <2>5, <2>6, <2>7, <2>8, <2>9, <2>10, <2>11 DEF Step
<1>3. CASE UNCHANGED vars
  BY <1>1, <1>3 DEF vars, SerialInv, OneAtATime, InProgress, SetsHaveRevisions, NumbersAreNew, edge
<1> QED
  BY <1>2, <1>3 DEF SerialNext, Rest

\* The inductive invariant of requests that are served one after the other:
\* what the request in progress has drawn is new, and every other is at rest.
THEOREM SerialInvariant == SerialSpec => []SerialInv
  BY SerialInit, SerialStep, PTL DEF SerialSpec

\* For every number of requests, one after the other: the change set names that
\* a draft computes are free, whatever became of the requests before it.
THEOREM NamesStayFree == SerialSpec => []NamesAreFree
<1>1. SerialInv => NamesAreFree
  <2> SUFFICES ASSUME SerialInv, NEW c \in Client, pc[c] = "names", edge(c) \in changeSets
               PROVE  FALSE
    BY DEF NamesAreFree, At
  <2>1. \A d \in Client : pc[d] # "revision"
    BY DEF SerialInv, OneAtATime, InProgress, Ended
  <2>2. number[c] \in revisions
    BY <2>1 DEF SerialInv, SetsHaveRevisions, edge
  <2>3. number[c] < number[c] /\ number[c] \in Nat
    BY <2>2, RevIsInterval DEF SerialInv, StepsInv, TypeOK, NumbersAreNew, Draft
  <2> QED
    BY <2>3
<1> QED
  BY <1>1, SerialInvariant, PTL

-----------------------------------------------------------------------------
(***************************************************************************)
(* The full graph of a branch is the content of its one leaf, but for what *)
(* the request in progress has brought into it so far; with the branch     *)
(* this content becomes that of the new revision.                          *)
(***************************************************************************)
Building == {"fill", "stripAdd", "stripDelete", "insert", "delete", "move"}

OneSetEach == \A e, f \in changeSets : e[2] = f[2] => e = f

OneLeaf == \A r \in Branch : \A v, w \in references[r] : v = w

Heads(c) ==
    /\ pc[c] \in {"number"} \cup Draft \cup Building => references[ref(c)] = {prior[c]}
    /\ pc[c] \in Draft \cup Building => \A r \in Branch : \A v \in references[r] : v < number[c]
    /\ pc[c] \in {"revision"} \cup Building => edge(c) \in changeSets
    /\ pc[c] \in Building => \A e \in wasDerivedFrom : e[1] = number[c] => e[2] = prior[c]

FullIs(r, v) ==
    /\ (\A c \in Client : ref(c) = r => pc[c] \notin {"delete", "move"})
           => fullContent[r] = ContentOf[v]
    /\ \A c \in Client : ref(c) = r /\ pc[c] = "delete"
           => fullContent[r] = ContentOf[v] \cup addSet[edge(c)]
    /\ \A c \in Client : ref(c) = r /\ pc[c] = "move"
           => fullContent[r] = (ContentOf[v] \cup addSet[edge(c)]) \ deleteSet[edge(c)]

FullInv == \A r \in Branch : \A v \in references[r] : FullIs(r, v)

MaterialInv ==
    /\ SerialInv
    /\ OneSetEach
    /\ OneLeaf
    /\ \A c \in Client : Heads(c)
    /\ FullInv

LEMMA SetsAreOrdered == StepsInv => OrderedSets
  BY DEF StepsInv, TypeOK, HistoryIsOrdered, OrderedSets

LEMMA MaterialInit == Init => MaterialInv
<1> SUFFICES ASSUME Init PROVE MaterialInv
  OBVIOUS
<1>1. SerialInv /\ OrderedSets
  BY SerialInit, SetsAreOrdered DEF SerialInv
<1>2. OneSetEach /\ OneLeaf
  BY DEF Init, OneSetEach, OneLeaf
<1>3. \A c \in Client : Heads(c)
  BY DEF Init, Heads, Draft, Building
<1>4. PICK base \in SUBSET Triple :
          /\ addSet = [e \in Edge |-> IF e = <<NoRevision, 0>> THEN base ELSE {}]
          /\ fullContent = [r \in Branch |-> base]
  BY DEF Init
<1>5. ContentOf[0] = base
  <2>1. 0 \in Rev /\ 0 # NoRevision /\ <<NoRevision, 0>> \in Edge
    BY RevIsInterval DEF NoRevision, Edge
  <2>2. ContentOf[0] = ContentFrom(ContentOf, 0) /\ ContentOf[NoRevision] = {}
    BY <1>1, <2>1, ContentIsComputed DEF ContentUnfolds, ContentFrom
  <2>3. {d \in changeSets : d[2] = 0} = {<<NoRevision, 0>>}
    BY DEF Init
  <2>4. addSet[<<NoRevision, 0>>] = base /\ deleteSet[<<NoRevision, 0>>] = {}
    BY <1>4, <2>1 DEF Init
  <2>5. ContentFrom(ContentOf, 0) = ({} \cup base) \ {}
    BY <2>1, <2>2, <2>3, <2>4 DEF ContentFrom
  <2> QED
    BY <2>2, <2>5
<1>6. FullInv
  BY <1>4, <1>5 DEF Init, FullInv, FullIs
<1> QED
  BY <1>1, <1>2, <1>3, <1>6 DEF MaterialInv

\* What is written to the request's own change set changes no leaf's content.
LEMMA LeafContentStays ==
    ASSUME MaterialInv, StepsInv', NEW c \in Client, pc[c] \in Draft \cup Building,
           NEW E, E = edge(c),
           \A e \in Edge : e # E => /\ e \in changeSets' <=> e \in changeSets
                                    /\ addSet'[e] = addSet[e]
                                    /\ deleteSet'[e] = deleteSet[e],
           NEW r \in Branch, NEW v \in references[r]
    PROVE  ContentOf'[v] = ContentOf[v]
<1>1. PICK n : n = number[c]
  OBVIOUS
<1>2. n \in Rev /\ v \in Rev /\ v < n /\ E[2] = n /\ Rev \subseteq Nat
  <2>1. TypeOK /\ Heads(c)
    BY DEF MaterialInv, SerialInv, StepsInv
  <2>2. v \in Rev /\ n \in Rev
    BY <1>1, <2>1 DEF TypeOK
  <2>3. v < n
    BY <1>1, <2>1 DEF Heads
  <2> QED
    BY <1>1, <2>2, <2>3, RevIsInterval DEF edge
<1>3. OrderedSets /\ OrderedSets'
  <2>1. StepsInv' => OrderedSets'
    BY SetsAreOrdered, PTL
  <2> QED
    BY <2>1, SetsAreOrdered DEF MaterialInv, SerialInv
<1>4. \A e \in Edge : e[2] < n => e # E
  BY <1>2
<1> QED
  BY <1>2, <1>3, <1>4, OlderContentStays

\* Steps before the insertion, which leave branches and full graphs alone.
LEMMA FullsStay ==
    ASSUME MaterialInv, NEW c \in Client, UNCHANGED <<references, fullContent, request>>,
           pc[c] \notin {"delete", "move"}, pc'[c] \notin {"delete", "move"},
           \A d \in Client \ {c} : pc[d] \in Ended /\ pc'[d] \in Ended,
           \A r \in Branch : \A v \in references[r] : ContentOf'[v] = ContentOf[v]
    PROVE  FullInv'
<1>1. \A d \in Client : pc[d] \notin {"delete", "move"} /\ pc'[d] \notin {"delete", "move"}
  BY DEF Ended
<1>2. \A r \in Branch : \A v \in references[r] : fullContent[r] = ContentOf[v]
  BY <1>1 DEF MaterialInv, FullInv, FullIs
<1>3. \A r \in Branch : \A v \in references'[r] : fullContent'[r] = ContentOf'[v]
  BY <1>2
<1> QED
  BY <1>1, <1>3 DEF FullInv, FullIs

LEMMA MaterialStep == MaterialInv /\ [SerialNext]_vars => MaterialInv'
<1> SUFFICES ASSUME MaterialInv, [SerialNext]_vars PROVE MaterialInv'
  OBVIOUS
<1> USE DEF At, Goes, Fails, store
<1>1. SerialInv /\ SerialInv' /\ StepsInv /\ StepsInv'
  BY SerialStep DEF MaterialInv, SerialInv
<1>2. /\ pc \in [Client -> Steps \cup Ended] /\ number \in [Client -> Rev] /\ prior \in [Client -> Rev]
      /\ revisions \subseteq Rev /\ Rev \subseteq Nat
      /\ addSet \in [Edge -> SUBSET Triple] /\ deleteSet \in [Edge -> SUBSET Triple]
      /\ changeSets \subseteq Edge
  BY <1>1, StagesAreSteps, RevIsInterval DEF StepsInv, TypeOK
<1>3. references = [r \in Branch |-> references[r]] /\ fullContent = [r \in Branch |-> fullContent[r]]
  BY <1>1 DEF StepsInv, TypeOK
<1>4. ASSUME NEW c \in Client, Step(c), \A d \in Client \ {c} : ~ InProgress(d)
      PROVE  MaterialInv'
  <2>1. /\ request' = request
        /\ \A d \in Client \ {c} : pc'[d] = pc[d] /\ number'[d] = number[d] /\ prior'[d] = prior[d]
    BY <1>1, <1>4, OthersRest
  <2>2. \A d \in Client \ {c} : pc[d] \in Ended /\ pc'[d] \in Ended
    BY <1>4, <2>1 DEF InProgress
  <2>3. \A d \in Client \ {c} : Heads(d)'
    BY <2>2 DEF Heads, Ended, Draft, Building
  <2>4. ref(c) \in Branch /\ edge(c) \in Edge /\ ref(c)' = ref(c) /\ Heads(c)
    BY <1>1, <2>1, RequestsAreTyped DEF ref, MaterialInv
  \* Before the number is drawn, and after the end.
  <2>5. CASE Send(c) \/ CheckUpToDate(c) \/ CheckNames(c) \/ RejectSets(c)
    <3>1. UNCHANGED store /\ UNCHANGED <<prior, number>>
      BY <2>5 DEF Send, CheckUpToDate, CheckNames, RejectSets
    <3>2. /\ pc[c] \notin {"delete", "move"} /\ pc'[c] \notin {"delete", "move"}
          /\ pc'[c] \notin {"number", "revision"} \cup Building
          /\ pc'[c] \in Draft => pc[c] \in Draft
      BY <1>2, <2>5, OrderOfSteps DEF Send, CheckUpToDate, CheckNames, RejectSets, Draft, Building
    <3>3. Heads(c)'
      BY <2>4, <3>1, <3>2 DEF Heads
    <3>4. OneSetEach' /\ OneLeaf'
      BY <3>1 DEF MaterialInv, OneSetEach, OneLeaf
    <3>5. \A r \in Branch : \A v \in references[r] : ContentOf'[v] = ContentOf[v]
      BY <3>1 DEF ContentOf
    <3>6. FullInv'
      BY <2>1, <2>2, <3>1, <3>2, <3>5, FullsStay
    <3> QED
      BY <1>1, <2>3, <3>3, <3>4, <3>6 DEF MaterialInv
  <2>6. CASE ReadLeaf(c)
    <3>1. UNCHANGED store /\ UNCHANGED number /\ pc[c] = "leaf"
      BY <2>6 DEF ReadLeaf
    <3>2. \/ pc'[c] = "failed"
          \/ pc'[c] = "number" /\ \E v \in references[ref(c)] : prior'[c] = v
      <4>1. \/ Fails(c)
            \/ Goes(c) /\ \E v \in references[ref(c)] : prior' = [prior EXCEPT ![c] = v]
        <5> HIDE DEF Fails, Goes
        <5> QED
          BY <2>6 DEF ReadLeaf
      <4> QED
        BY <1>2, <3>1, <4>1, OrderOfSteps
    <3>3. Heads(c)'
      <4>1. pc'[c] = "number" => references[ref(c)] = {prior'[c]}
        BY <2>4, <3>2 DEF MaterialInv, OneLeaf
      <4>2. pc'[c] \notin Draft \cup Building
        BY <3>2 DEF Draft, Building
      <4> QED
        BY <2>4, <3>1, <3>2, <4>1, <4>2 DEF Heads, Building, Draft
    <3>4. OneSetEach' /\ OneLeaf'
      BY <3>1 DEF MaterialInv, OneSetEach, OneLeaf
    <3>5. \A r \in Branch : \A v \in references[r] : ContentOf'[v] = ContentOf[v]
      BY <3>1 DEF ContentOf
    <3>6. FullInv'
      BY <2>1, <2>2, <3>1, <3>2, <3>5, FullsStay
    <3> QED
      BY <1>1, <2>3, <3>3, <3>4, <3>6 DEF MaterialInv
  <2>7. CASE ReadNumber(c)
    <3>1. UNCHANGED store /\ UNCHANGED prior /\ pc[c] = "number" /\ pc'[c] = "names"
      BY <1>2, <2>7, OrderOfSteps DEF ReadNumber
    <3>2. \A r \in Branch : references'[r] \subseteq revisions'
      BY <1>1 DEF StepsInv, LeavesExist
    <3>3. \A v \in revisions' : v < number'[c]
      BY <1>1, <3>1 DEF SerialInv, NumbersAreNew, Draft
    <3>4. Heads(c)'
      <4>1. references'[ref(c)] = {prior'[c]}
        BY <2>4, <3>1 DEF Heads
      <4> QED
        BY <2>4, <3>1, <3>2, <3>3, <4>1 DEF Heads, Building, Draft
    <3>5. OneSetEach' /\ OneLeaf'
      BY <3>1 DEF MaterialInv, OneSetEach, OneLeaf
    <3>6. \A r \in Branch : \A v \in references[r] : ContentOf'[v] = ContentOf[v]
      BY <3>1 DEF ContentOf
    <3>7. FullInv'
      BY <2>1, <2>2, <3>1, <3>6, FullsStay
    <3> QED
      BY <1>1, <2>3, <3>4, <3>5, <3>7 DEF MaterialInv
  <2>8. CASE WriteChangeSet(c)
    <3>1. /\ changeSets' = changeSets \cup {edge(c)} /\ pc[c] = "changeSet" /\ pc'[c] = "revision"
          /\ UNCHANGED <<revisions, wasDerivedFrom, addSet, deleteSet, references, fullContent,
                         prior, number>>
      BY <1>2, <2>8, OrderOfSteps DEF WriteChangeSet
    <3>2. \A e \in changeSets : e[2] # number[c]
      <4>1. \A d \in Client : pc[d] # "revision"
        BY <2>2, <3>1 DEF Ended
      <4>2. \A e \in changeSets : e[2] \in revisions
        BY <1>1, <4>1 DEF SerialInv, SetsHaveRevisions
      <4>3. number[c] \notin revisions
        <5>1. number[c] \in Nat /\ \A v \in revisions : v < number[c]
          BY <1>1, <1>2, <3>1 DEF SerialInv, NumbersAreNew, Draft
        <5> QED
          BY <5>1
      <4> QED
        BY <4>2, <4>3
    <3>3. OneSetEach'
      BY <3>1, <3>2 DEF MaterialInv, OneSetEach, edge
    <3>4. OneLeaf'
      BY <3>1 DEF MaterialInv, OneLeaf
    <3>5. Heads(c)'
      BY <2>4, <3>1 DEF Heads, Building, Draft, edge
    <3>6. \A r \in Branch : \A v \in references[r] : ContentOf'[v] = ContentOf[v]
      BY <1>1, <3>1, LeafContentStays DEF Draft
    <3>7. FullInv'
      BY <2>1, <2>2, <3>1, <3>6, FullsStay
    <3> QED
      BY <1>1, <2>3, <3>3, <3>4, <3>5, <3>7 DEF MaterialInv
  <2>9. CASE WriteRevision(c)
    <3>1. /\ wasDerivedFrom' = wasDerivedFrom \cup {<<number[c], prior[c]>>}
          /\ pc[c] = "revision" /\ pc'[c] = "fill"
          /\ UNCHANGED <<changeSets, addSet, deleteSet, references, fullContent, prior, number>>
      BY <1>2, <2>9, OrderOfSteps DEF WriteRevision
    <3>2. \A e \in wasDerivedFrom : e[1] # number[c]
      <4>1. wasDerivedFrom \subseteq revisions \X revisions
        BY <1>1 DEF StepsInv
      <4>2. number[c] \notin revisions
        <5>1. number[c] \in Nat /\ \A v \in revisions : v < number[c]
          BY <1>1, <1>2, <3>1 DEF SerialInv, NumbersAreNew, Draft
        <5> QED
          BY <5>1
      <4> QED
        BY <4>1, <4>2
    <3>3. OneSetEach' /\ OneLeaf'
      BY <3>1 DEF MaterialInv, OneSetEach, OneLeaf
    <3>4. Heads(c)'
      BY <2>4, <3>1, <3>2 DEF Heads, Building, Draft, edge
    <3>5. \A r \in Branch : \A v \in references[r] : ContentOf'[v] = ContentOf[v]
      BY <3>1 DEF ContentOf
    <3>6. FullInv'
      BY <2>1, <2>2, <3>1, <3>5, FullsStay
    <3> QED
      BY <1>1, <2>3, <3>3, <3>4, <3>6 DEF MaterialInv
  <2>10. CASE FillSets(c) \/ StripAddSet(c) \/ StripDeleteSet(c)
    <3>1. /\ pc[c] \in Building \ {"delete", "move"} /\ pc'[c] \in Building \ {"delete", "move"}
          /\ UNCHANGED <<revisions, wasDerivedFrom, changeSets, references, fullContent, prior, number>>
      BY <1>2, <2>10, OrderOfSteps DEF FillSets, StripAddSet, StripDeleteSet, Building
    <3>2. PICK E : E = edge(c)
      OBVIOUS
    <3>3. \A e \in Edge : e # E => addSet'[e] = addSet[e] /\ deleteSet'[e] = deleteSet[e]
      BY <1>2, <2>10, <3>2 DEF FillSets, StripAddSet, StripDeleteSet
    <3>4. OneSetEach' /\ OneLeaf'
      BY <3>1 DEF MaterialInv, OneSetEach, OneLeaf
    <3>5. Heads(c)'
      BY <2>4, <3>1 DEF Heads, Building, edge
    <3>6. \A r \in Branch : \A v \in references[r] : ContentOf'[v] = ContentOf[v]
      BY <1>1, <3>1, <3>2, <3>3, LeafContentStays
    <3>7. FullInv'
      BY <2>1, <2>2, <3>1, <3>6, FullsStay
    <3> QED
      BY <1>1, <2>3, <3>4, <3>5, <3>7 DEF MaterialInv
  <2>11. CASE InsertAddSet(c) \/ DeleteDeleteSet(c)
    <3>1. /\ UNCHANGED <<revisions, wasDerivedFrom, changeSets, addSet, deleteSet, references,
                         prior, number>>
          /\ pc[c] \in {"insert", "delete"} /\ pc'[c] \in {"delete", "move"}
      BY <1>2, <2>11, OrderOfSteps DEF InsertAddSet, DeleteDeleteSet
    <3>2. OneSetEach' /\ OneLeaf'
      BY <3>1 DEF MaterialInv, OneSetEach, OneLeaf
    <3>3. Heads(c)'
      BY <2>4, <3>1 DEF Heads, Building, edge
    <3>4. PICK q, E : q = ref(c) /\ E = edge(c)
      OBVIOUS
    <3>5. /\ ref(c)' = q /\ edge(c)' = E /\ ContentOf' = ContentOf /\ request' = request
          /\ \A r \in Branch : r # q => fullContent'[r] = fullContent[r]
      BY <1>3, <2>1, <2>4, <2>11, <3>1, <3>4
         DEF ContentOf, edge, InsertAddSet, DeleteDeleteSet
    <3>6. ASSUME NEW r \in Branch, r # q, NEW v \in references[r]
          PROVE  FullIs(r, v)'
      <4>1. \A d \in Client : ref(d) = r => pc[d] \in Ended /\ pc'[d] \in Ended
        BY <2>2, <3>4, <3>6
      <4>2. \A d \in Client : ref(d) = r => pc[d] \notin {"delete", "move"}
                                           /\ pc'[d] \notin {"delete", "move"}
        BY <4>1 DEF Ended
      <4>3. \A d \in Client : ref(d)' = ref(d)
        BY <2>1 DEF ref
      <4>4. FullIs(r, v)
        BY DEF MaterialInv, FullInv
      <4>5. fullContent[r] = ContentOf[v]
        BY <4>2, <4>4 DEF FullIs
      <4>6. fullContent'[r] = ContentOf'[v]
        BY <3>5, <3>6, <4>5
      <4> QED
        BY <4>2, <4>3, <4>6 DEF FullIs
    <3>7. ASSUME NEW v \in references[q]
          PROVE  FullIs(q, v)'
      <4>1. q \in Branch /\ FullIs(q, v)
        BY <2>4, <3>4 DEF MaterialInv, FullInv
      <4>2. \A d \in Client \ {c} : pc[d] \notin {"delete", "move"} /\ pc'[d] \notin {"delete", "move"}
        BY <2>2 DEF Ended
      <4>3. CASE InsertAddSet(c)
        <5>1. pc[c] = "insert" /\ pc'[c] = "delete"
          BY <1>2, <4>3, OrderOfSteps DEF InsertAddSet
        <5>2. fullContent[q] = ContentOf[v]
          BY <4>1, <4>2, <5>1 DEF FullIs
        <5>3. fullContent'[q] = fullContent[q] \cup addSet[E]
          BY <1>3, <3>4, <4>1, <4>3 DEF InsertAddSet, Merged
        <5>4. fullContent'[q] = ContentOf'[v] \cup addSet'[E]
          BY <3>1, <3>5, <5>2, <5>3
        <5> QED
          BY <3>5, <4>2, <5>1, <5>4 DEF FullIs
      <4>4. CASE DeleteDeleteSet(c)
        <5>1. pc[c] = "delete" /\ pc'[c] = "move"
          BY <1>2, <4>4, OrderOfSteps DEF DeleteDeleteSet
        <5>2. fullContent[q] = ContentOf[v] \cup addSet[E]
          BY <3>4, <4>1, <5>1 DEF FullIs
        <5>3. fullContent'[q] = fullContent[q] \ deleteSet[E]
          BY <1>3, <3>4, <4>1, <4>4 DEF DeleteDeleteSet
        <5>4. fullContent'[q] = (ContentOf'[v] \cup addSet'[E]) \ deleteSet'[E]
          BY <3>1, <3>5, <5>2, <5>3
        <5> QED
          BY <3>5, <4>2, <5>1, <5>4 DEF FullIs
      <4> QED
        BY <2>11, <4>3, <4>4
    <3>8. FullInv'
      <4>1. references' = references
        BY <3>1
      <4> QED
        BY <3>6, <3>7, <4>1 DEF FullInv
    <3> QED
      BY <1>1, <2>3, <3>2, <3>3, <3>8 DEF MaterialInv
  <2>12. CASE MoveBranch(c)
    <3>1. PICK e \in wasDerivedFrom :
              /\ e[1] = number[c]
              /\ references' = [references EXCEPT ![ref(c)] = (@ \ {e[2]}) \cup {number[c]}]
      BY <2>12 DEF MoveBranch
    <3>2. /\ UNCHANGED <<revisions, wasDerivedFrom, changeSets, addSet, deleteSet, fullContent,
                         prior, number>>
          /\ pc[c] = "move" /\ pc'[c] = "done"
      BY <1>2, <2>12, OrderOfSteps DEF MoveBranch
    <3>3. PICK q, E, n : q = ref(c) /\ E = edge(c) /\ n = number[c]
      OBVIOUS
    <3>4. references'[q] = {n} /\ \A r \in Branch : r # q => references'[r] = references[r]
      <4>1. references[q] = {prior[c]} /\ e[2] = prior[c]
        BY <2>4, <3>1, <3>2, <3>3 DEF Heads, Building
      <4> QED
        BY <1>3, <2>4, <3>1, <3>3, <4>1
    <3>5. OneSetEach' /\ OneLeaf'
      BY <3>2, <3>4 DEF MaterialInv, OneSetEach, OneLeaf
    <3>6. Heads(c)'
      BY <3>2 DEF Heads, Building, Draft
    <3>7. ContentOf' = ContentOf
      BY <3>2 DEF ContentOf
    <3>8. fullContent[q] = ContentOf[n]
      <4>1. PICK v : v = prior[c] /\ v \in references[q]
        BY <2>4, <3>2, <3>3 DEF Heads, Building
      <4>2. fullContent[q] = (ContentOf[v] \cup addSet[E]) \ deleteSet[E]
        BY <2>4, <3>2, <3>3, <4>1 DEF MaterialInv, FullInv, FullIs
      <4>3. {d \in changeSets : d[2] = n} = {E} /\ E[1] = v
        BY <2>4, <3>2, <3>3, <4>1 DEF Heads, Building, MaterialInv, OneSetEach, edge
      <4>4. n \in Rev /\ n # NoRevision
        BY <1>2, <3>3 DEF NoRevision
      <4>5. ContentOf[n] = ContentFrom(ContentOf, n)
        BY <1>1, <4>4, SetsAreOrdered, ContentIsComputed DEF ContentUnfolds
      <4>6. ContentFrom(ContentOf, n) = (ContentOf[v] \cup addSet[E]) \ deleteSet[E]
        BY <4>3, <4>4 DEF ContentFrom
      <4> QED
        BY <4>2, <4>5, <4>6
    <3>9. \A d \in Client : pc'[d] \notin {"delete", "move"}
      BY <2>2, <3>2 DEF Ended
    <3>10. ASSUME NEW r \in Branch, r # q, NEW v \in references[r]
           PROVE  fullContent[r] = ContentOf[v]
      <4>1. \A d \in Client : ref(d) = r => pc[d] \notin {"delete", "move"}
        BY <2>2, <3>3, <3>10 DEF Ended
      <4> QED
        BY <4>1 DEF MaterialInv, FullInv, FullIs
    <3>11. \A r \in Branch : \A v \in references'[r] : fullContent'[r] = ContentOf'[v]
      BY <3>2, <3>4, <3>7, <3>8, <3>10
    <3>12. FullInv'
      BY <3>9, <3>11 DEF FullInv, FullIs
    <3> QED
      BY <1>1, <2>3, <3>5, <3>6, <3>12 DEF MaterialInv
  <2> QED
    BY <1>4, <2>5, <2>6, <2>7, <2>8, <2>9, <2>10, <2>11, <2>12 DEF Step
<1>5. CASE UNCHANGED vars
  <2>1. ContentOf' = ContentOf
    BY <1>5 DEF vars, ContentOf
  <2>2. FullInv'
    BY <1>5, <2>1 DEF vars, MaterialInv, FullInv, FullIs, ref, edge
  <2>3. OneSetEach' /\ OneLeaf' /\ \A c \in Client : Heads(c)'
    BY <1>5 DEF vars, MaterialInv, OneSetEach, OneLeaf, Heads, ref, edge
  <2> QED
    BY <1>1, <2>2, <2>3 DEF MaterialInv
<1> QED
  BY <1>4, <1>5 DEF SerialNext, Rest

\* For every number of requests, one after the other, of branches and triples:
\* between requests, the full graph of a branch is what the change sets give for
\* its leaf, although insertion, deletion and the move of the branch are three
\* transactions and a request may be rejected with its revision written.
THEOREM FullGraphsAreMaterialized == SerialSpec => []Materialized
<1>1. MaterialInv => Materialized
  <2> SUFFICES ASSUME MaterialInv, \A c \in Client : ~ InProgress(c),
                      NEW r \in Branch, NEW v \in references[r]
               PROVE  fullContent[r] = ContentOf[v]
    BY DEF Materialized
  <2>1. \A c \in Client : pc[c] \notin {"delete", "move"}
    BY DEF InProgress, Ended
  <2> QED
    BY <2>1 DEF MaterialInv, FullInv, FullIs
<1> QED
  BY <1>1, MaterialInit, MaterialStep, PTL DEF SerialSpec

-----------------------------------------------------------------------------
(***************************************************************************)
(* The refinement of VersionedGraph.  The revision in progress is the      *)
(* newest one, has the one edge that its request has written and, until    *)
(* the sets are filled, no changes: a client sees nothing of it before the *)
(* branch is moved or the request rejected.                                *)
(***************************************************************************)
Unfilled == \A e \in Edge : e[2] \notin revisions => addSet[e] = {} /\ deleteSet[e] = {}

Newest(c) ==
    /\ pc[c] \in Building => /\ \A v \in revisions : v <= number[c]
                             /\ <<number[c], prior[c]>> \in wasDerivedFrom
    /\ pc[c] = "fill" => addSet[edge(c)] = {} /\ deleteSet[edge(c)] = {}

ShownInv ==
    /\ MaterialInv
    /\ Unfilled
    /\ \A c \in Client : Newest(c)

LEMMA ShownStep == ShownInv /\ [SerialNext]_vars => ShownInv'
<1> SUFFICES ASSUME ShownInv, [SerialNext]_vars PROVE ShownInv'
  OBVIOUS
<1> USE DEF At, Goes, Fails, store
<1>1. MaterialInv' /\ StepsInv /\ StepsInv' /\ SerialInv
  BY MaterialStep DEF ShownInv, MaterialInv, SerialInv
<1>2. /\ pc \in [Client -> Steps \cup Ended] /\ number \in [Client -> Rev] /\ prior \in [Client -> Rev]
      /\ revisions \subseteq Rev /\ Rev \subseteq Nat
      /\ addSet \in [Edge -> SUBSET Triple] /\ deleteSet \in [Edge -> SUBSET Triple]
  BY <1>1, StagesAreSteps, RevIsInterval DEF StepsInv, TypeOK
<1>3. ASSUME NEW c \in Client, Step(c), \A d \in Client \ {c} : ~ InProgress(d)
      PROVE  ShownInv'
  <2>1. \A d \in Client \ {c} : pc'[d] \in Ended
    BY <1>1, <1>3, OthersRest DEF InProgress
  <2>2. \A d \in Client \ {c} : Newest(d)'
    BY <2>1 DEF Newest, Ended, Building
  <2>3. edge(c) \in Edge
    BY <1>1, RequestsAreTyped
  <2>4. CASE Send(c) \/ CheckUpToDate(c) \/ CheckNames(c) \/ RejectSets(c) \/ ReadNumber(c)
             \/ WriteChangeSet(c)
    <3>1. /\ UNCHANGED <<revisions, addSet, deleteSet>>
          /\ pc'[c] \notin Building
      BY <1>2, <2>4, OrderOfSteps DEF Send, CheckUpToDate, CheckNames, RejectSets, ReadNumber,
         WriteChangeSet, Building
    <3>2. Newest(c)' /\ Unfilled'
      BY <3>1 DEF ShownInv, Newest, Unfilled, Building
    <3> QED
      BY <1>1, <2>2, <3>2 DEF ShownInv
  <2>5. CASE ReadLeaf(c)
    <3>1. Fails(c) \/ Goes(c)
      <4> HIDE DEF Fails, Goes
      <4> QED
        BY <2>5 DEF ReadLeaf
    <3>2. UNCHANGED <<revisions, addSet, deleteSet>> /\ pc[c] = "leaf"
      BY <2>5 DEF ReadLeaf
    <3>3. pc'[c] \notin Building
      BY <1>2, <3>1, <3>2, OrderOfSteps DEF Building
    <3>4. Newest(c)' /\ Unfilled'
      BY <3>2, <3>3 DEF ShownInv, Newest, Unfilled, Building
    <3> QED
      BY <1>1, <2>2, <3>4 DEF ShownInv
  <2>6. CASE WriteRevision(c)
    <3>1. /\ revisions' = revisions \cup {number[c]}
          /\ wasDerivedFrom' = wasDerivedFrom \cup {<<number[c], prior[c]>>}
          /\ pc[c] = "revision" /\ pc'[c] = "fill"
          /\ UNCHANGED <<addSet, deleteSet, prior, number>>
      BY <1>2, <2>6, OrderOfSteps DEF WriteRevision
    <3>2. \A v \in revisions : v < number[c] /\ v \in Nat
      BY <1>1, <1>2, <3>1 DEF SerialInv, NumbersAreNew, Draft
    <3>3. number[c] \notin revisions /\ number[c] \in Nat
      <4>1. number[c] \in Nat
        BY <1>2
      <4> QED
        BY <3>2, <4>1
    <3>4. addSet[edge(c)] = {} /\ deleteSet[edge(c)] = {}
      BY <2>3, <3>3 DEF ShownInv, Unfilled, edge
    <3>5. edge(c)' = edge(c)
      BY <3>1 DEF edge
    <3>6. \A v \in revisions' : v <= number'[c]
      BY <3>1, <3>2, <3>3
    <3>7. Newest(c)'
      BY <3>1, <3>4, <3>5, <3>6 DEF Newest
    <3>8. Unfilled'
      BY <3>1 DEF ShownInv, Unfilled
    <3> QED
      BY <1>1, <2>2, <3>7, <3>8 DEF ShownInv
  <2>7. CASE \/ FillSets(c) \/ StripAddSet(c) \/ StripDeleteSet(c) \/ InsertAddSet(c)
             \/ DeleteDeleteSet(c)
    <3>1. /\ UNCHANGED <<revisions, wasDerivedFrom, prior, number>>
          /\ pc[c] \in Building /\ pc'[c] \in Building \ {"fill"}
      BY <1>2, <2>7, OrderOfSteps DEF FillSets, StripAddSet, StripDeleteSet, InsertAddSet,
         DeleteDeleteSet, Building
    <3>2. PICK E : E = edge(c)
      OBVIOUS
    <3>3. \A e \in Edge : e # E => addSet'[e] = addSet[e] /\ deleteSet'[e] = deleteSet[e]
      BY <1>2, <2>7, <3>2 DEF FillSets, StripAddSet, StripDeleteSet, InsertAddSet, DeleteDeleteSet
    <3>4. E[2] \in revisions
      BY <1>1, <3>1, <3>2 DEF StepsInv, Drawn, HasRevision, Building, edge
    <3>5. Unfilled'
      BY <3>1, <3>3, <3>4 DEF ShownInv, Unfilled
    <3>6. Newest(c)'
      BY <3>1 DEF ShownInv, Newest, Building
    <3> QED
      BY <1>1, <2>2, <3>5, <3>6 DEF ShownInv
  <2>8. CASE MoveBranch(c)
    <3>1. UNCHANGED <<revisions, addSet, deleteSet>> /\ pc'[c] = "done"
      BY <1>2, <2>8, OrderOfSteps DEF MoveBranch
    <3>2. Newest(c)' /\ Unfilled'
      BY <3>1 DEF ShownInv, Newest, Unfilled, Building
    <3> QED
      BY <1>1, <2>2, <3>2 DEF ShownInv
  <2> QED
    BY <1>3, <2>4, <2>5, <2>6, <2>7, <2>8 DEF Step
<1>4. CASE UNCHANGED vars
  BY <1>1, <1>4 DEF vars, ShownInv, Unfilled, Newest, edge
<1> QED
  BY <1>3, <1>4 DEF SerialNext, Rest

LEMMA ShownInit == Init => ShownInv
<1> SUFFICES ASSUME Init PROVE ShownInv
  OBVIOUS
<1>1. MaterialInv
  BY MaterialInit
<1>2. \A c \in Client : Newest(c)
  BY DEF Init, Newest, Building
<1>3. Unfilled
  BY DEF Init, Unfilled
<1> QED
  BY <1>1, <1>2, <1>3 DEF ShownInv

\* What a client sees.
Shown == [v \in Rev |-> IF v \in Visible THEN ContentOf[v] ELSE {}]

Before == {e \in Visible \X Visible : e[1] # e[2] /\ DerivedStar(e[1], e[2])}

Views == [r \in Branch |-> ViewOf(r)]

\* A branch shows the content of its leaf, and the leaf can be seen.
LeavesAreShown ==
    \A r \in Branch : \A v \in references[r] : ViewOf(r) = ContentOf[v] /\ v \in Visible

LEMMA LeafIsShown == MaterialInv => LeavesAreShown
<1> SUFFICES ASSUME MaterialInv, NEW r \in Branch, NEW v \in references[r]
             PROVE  ViewOf(r) = ContentOf[v] /\ v \in Visible
  BY DEF LeavesAreShown
<1>1. v \in Visible
  <2>1. v \in revisions /\ v \in Nat
    BY RevIsInterval DEF MaterialInv, SerialInv, StepsInv, LeavesExist, TypeOK
  <2>2. ASSUME NEW c \in Client, InProgress(c)
        PROVE  number[c] # v \/ v = 0
    <3>1. pc[c] \in NotDrawn \cup Draft \cup Building
      BY <2>2, OrderOfSteps
         DEF MaterialInv, SerialInv, StepsInv, TypeOK, InProgress, Ended, Steps, NotDrawn, Draft, Building
    <3>2. CASE pc[c] \in NotDrawn
      BY <3>2 DEF MaterialInv, SerialInv, StepsInv, Drawn
    <3>3. CASE pc[c] \in Draft \cup Building
      <4>1. v < number[c]
        BY <3>3 DEF MaterialInv, Heads
      <4> QED
        BY <2>1, <4>1
    <3> QED
      BY <3>1, <3>2, <3>3
  <2> QED
    BY <2>1, <2>2 DEF Visible
<1>2. CASE \E c \in Client : InProgress(c) /\ ref(c) = r
  <2>1. ViewOf(r) = UNION {ContentOf[w] : w \in references[r]}
    BY <1>2 DEF ViewOf
  <2>2. references[r] = {v}
    BY DEF MaterialInv, OneLeaf
  <2> QED
    BY <1>1, <2>1, <2>2
<1>3. CASE ~ \E c \in Client : InProgress(c) /\ ref(c) = r
  <2>1. ViewOf(r) = fullContent[r]
    BY <1>3 DEF ViewOf
  <2>2. \A c \in Client : ref(c) = r => pc[c] \notin {"delete", "move"}
    BY <1>3 DEF InProgress, Ended
  <2>3. fullContent[r] = ContentOf[v]
    BY <2>2 DEF MaterialInv, FullInv, FullIs
  <2> QED
    BY <1>1, <2>1, <2>3
<1> QED
  BY <1>2, <1>3

\* What changes neither what can be seen nor what it is derived from.
LEMMA NothingShows ==
    ASSUME MaterialInv, MaterialInv', references' = references, Visible' = Visible,
           \A v \in Visible : ContentOf'[v] = ContentOf[v],
           \A v, u \in Visible : DerivedStar(v, u)' <=> DerivedStar(v, u)
    PROVE  UNCHANGED Versioned!vars
<1>1. LeavesAreShown /\ LeavesAreShown'
  <2>1. MaterialInv' => LeavesAreShown'
    BY LeafIsShown, PTL
  <2> QED
    BY <2>1, LeafIsShown
<1>2. Shown' = Shown
  BY DEF Shown
<1>3. Before' = Before
  BY DEF Before
<1>4. Views' = Views
  <2>1. ASSUME NEW r \in Branch
        PROVE  ViewOf(r)' = ViewOf(r)
    <3>1. PICK v : v \in references[r]
      BY DEF MaterialInv, SerialInv, StepsInv, LeavesExist
    <3>2. ViewOf(r) = ContentOf[v] /\ ViewOf(r)' = ContentOf'[v] /\ v \in Visible
      BY <1>1, <3>1 DEF LeavesAreShown
    <3> QED
      BY <3>2
  <2> QED
    BY <2>1 DEF Views
<1> QED
  BY <1>2, <1>3, <1>4 DEF Versioned!vars, Shown, Before, Views

\* The edge of a revision that nothing is derived from yet.
LEMMA NewEdgeHides ==
    ASSUME wasDerivedFrom \subseteq revisions \X revisions, revisions \subseteq Rev,
           NEW n \in Rev \ revisions, NEW p \in Rev,
           wasDerivedFrom' = wasDerivedFrom \cup {<<n, p>>},
           NEW v \in revisions, NEW u
    PROVE  DerivedStar(v, u)' <=> DerivedStar(v, u)
<1>1. ASSUME DerivedStar(v, u) PROVE DerivedStar(v, u)'
  BY <1>1 DEF DerivedStar
<1>2. ASSUME DerivedStar(v, u)' PROVE DerivedStar(v, u)
  <2> SUFFICES ASSUME NEW S \in SUBSET Rev, v \in S, \A e \in wasDerivedFrom : e[1] \in S => e[2] \in S
               PROVE  u \in S
    BY DEF DerivedStar
  <2>1. S \ {n} \in SUBSET Rev /\ v \in S \ {n}
    OBVIOUS
  <2>2. \A e \in wasDerivedFrom' : e[1] \in S \ {n} => e[2] \in S \ {n}
    OBVIOUS
  <2>3. u \in S \ {n}
    BY <1>2, <2>1, <2>2 DEF DerivedStar
  <2> QED
    BY <2>3
<1> QED
  BY <1>1, <1>2

\* The newest revision is derived from what its prior revision is derived from,
\* and no other revision is derived from it.
LEMMA NewestDerives ==
    ASSUME wasDerivedFrom \subseteq revisions \X revisions, revisions \subseteq Rev, Rev \subseteq Nat,
           \A e \in wasDerivedFrom : e[2] < e[1],
           NEW n \in revisions, \A v \in revisions : v <= n,
           NEW p \in revisions, <<n, p>> \in wasDerivedFrom,
           \A e \in wasDerivedFrom : e[1] = n => e[2] = p
    PROVE  /\ \A u : u # n => (DerivedStar(n, u) <=> DerivedStar(p, u))
           /\ \A v \in revisions : v # n => ~ DerivedStar(v, n)
<1>1. ASSUME NEW u, u # n, DerivedStar(n, u)
      PROVE  DerivedStar(p, u)
  <2> SUFFICES ASSUME NEW S \in SUBSET Rev, p \in S, \A e \in wasDerivedFrom : e[1] \in S => e[2] \in S
               PROVE  u \in S
    BY DEF DerivedStar
  <2>1. S \cup {n} \in SUBSET Rev /\ n \in S \cup {n}
    OBVIOUS
  <2>2. \A e \in wasDerivedFrom : e[1] \in S \cup {n} => e[2] \in S \cup {n}
    OBVIOUS
  <2>3. u \in S \cup {n}
    BY <1>1, <2>1, <2>2 DEF DerivedStar
  <2> QED
    BY <1>1, <2>3
<1>2. ASSUME NEW u, DerivedStar(p, u)
      PROVE  DerivedStar(n, u)
  <2> SUFFICES ASSUME NEW S \in SUBSET Rev, n \in S, \A e \in wasDerivedFrom : e[1] \in S => e[2] \in S
               PROVE  u \in S
    BY DEF DerivedStar
  <2>1. p \in S
    OBVIOUS
  <2> QED
    BY <1>2, <2>1 DEF DerivedStar
<1>3. ASSUME NEW v \in revisions, v # n
      PROVE  ~ DerivedStar(v, n)
  <2> DEFINE S == Rev \ {n}
  <2>1. S \in SUBSET Rev /\ v \in S
    BY <1>3
  <2>2. ASSUME NEW e \in wasDerivedFrom
        PROVE  e[2] \in S
    <3>1. e[1] \in revisions /\ e[2] \in revisions
      OBVIOUS
    <3>2. e[1] \in Nat /\ e[2] \in Nat /\ n \in Nat /\ e[2] < e[1] /\ e[1] <= n
      BY <3>1
    <3> QED
      BY <3>1, <3>2
  <2>3. n \notin S
    OBVIOUS
  <2> HIDE DEF S
  <2> QED
    BY <2>1, <2>2, <2>3 DEF DerivedStar
<1> QED
  BY <1>1, <1>2, <1>3

\* The end of a request whose revision was written: the revision is recorded
\* after the one that the branch was at.
LEMMA EndRecords ==
    ASSUME ShownInv, NEW c \in Client, pc[c] \in Building, \A d \in Client \ {c} : ~ InProgress(d),
           \A d \in Client : pc'[d] \in Ended,
           UNCHANGED <<revisions, wasDerivedFrom, changeSets, addSet, deleteSet>>,
           NEW p, p = prior[c], NEW n, n = number[c]
    PROVE  Versioned!Record(p, n, ContentOf[n])
<1>1. /\ StepsInv /\ Heads(c) /\ Newest(c)
      /\ wasDerivedFrom \subseteq revisions \X revisions /\ revisions \subseteq Rev /\ Rev \subseteq Nat
      /\ n \in Rev /\ \A e \in wasDerivedFrom : e[2] < e[1]
  BY RevIsInterval
     DEF ShownInv, MaterialInv, SerialInv, StepsInv, TypeOK, HistoryIsOrdered
<1>2. p \in revisions /\ n \in revisions /\ p < n /\ p \in Nat /\ n \in Nat
  BY <1>1 DEF StepsInv, Drawn, HasNumber, HasRevision, Building
<1>3. /\ \A v \in revisions : v <= n
      /\ <<n, p>> \in wasDerivedFrom
      /\ \A e \in wasDerivedFrom : e[1] = n => e[2] = p
  BY <1>1 DEF Newest, Heads
<1>4. InProgress(c) /\ \A d \in Client : ~ InProgress(d)'
  BY DEF InProgress, Ended, Building
<1>5. Visible = revisions \ {n} /\ Visible' = revisions
  <2>1. n # 0
    BY <1>2
  <2>2. Visible = revisions \ {n}
    BY <1>4, <2>1 DEF Visible
  <2>3. Visible' = revisions
    BY <1>4 DEF Visible
  <2> QED
    BY <2>2, <2>3
<1>6. p \in Visible /\ n \notin Visible /\ Visible' = Visible \cup {n}
  BY <1>2, <1>5
<1>7. Shown' = [Shown EXCEPT ![n] = ContentOf[n]]
  <2>1. ContentOf' = ContentOf
    BY DEF ContentOf
  <2> QED
    BY <1>1, <1>6, <2>1 DEF Shown
<1>8. Before' = Before \cup {<<n, u>> : u \in {w \in Visible : w = p \/ <<p, w>> \in Before}}
  <2>1. \A v, u : DerivedStar(v, u)' <=> DerivedStar(v, u)
    BY DEF DerivedStar
  <2>2. /\ \A u : u # n => (DerivedStar(n, u) <=> DerivedStar(p, u))
        /\ \A v \in revisions : v # n => ~ DerivedStar(v, n)
    BY <1>1, <1>2, <1>3, NewestDerives
  <2>3. DerivedStar(p, p)
    BY DEF DerivedStar
  <2>4. Before' = {e \in revisions \X revisions : e[1] # e[2] /\ DerivedStar(e[1], e[2])}
    BY <1>5, <2>1 DEF Before
  <2>5. ASSUME NEW e \in Before'
        PROVE  e \in Before \cup {<<n, u>> : u \in {w \in Visible : w = p \/ <<p, w>> \in Before}}
    <3>1. PICK v, u : v \in revisions /\ u \in revisions /\ e = <<v, u>> /\ v # u /\ DerivedStar(v, u)
      BY <2>4, <2>5
    <3>2. u # n
      BY <2>2, <3>1
    <3>3. CASE v = n
      <4>1. DerivedStar(p, u) /\ u \in Visible
        BY <1>5, <2>2, <3>1, <3>2, <3>3
      <4>2. u = p \/ <<p, u>> \in Before
        BY <1>6, <4>1 DEF Before
      <4> QED
        BY <3>1, <3>3, <4>1, <4>2
    <3>4. CASE v # n
      BY <1>5, <3>1, <3>2, <3>4 DEF Before
    <3> QED
      BY <3>3, <3>4
  <2>6. ASSUME NEW e \in Before \cup {<<n, u>> : u \in {w \in Visible : w = p \/ <<p, w>> \in Before}}
        PROVE  e \in Before'
    <3>1. CASE e \in Before
      BY <1>5, <2>4, <3>1 DEF Before
    <3>2. CASE e \in {<<n, u>> : u \in {w \in Visible : w = p \/ <<p, w>> \in Before}}
      <4>1. PICK u \in Visible : e = <<n, u>> /\ (u = p \/ <<p, u>> \in Before)
        BY <3>2
      <4>2. DerivedStar(p, u)
        BY <2>3, <4>1 DEF Before
      <4>3. u # n /\ u \in revisions
        BY <1>5, <4>1
      <4>4. DerivedStar(n, u)
        BY <2>2, <4>2, <4>3
      <4> QED
        BY <1>2, <2>4, <4>1, <4>3, <4>4
    <3> QED
      BY <2>6, <3>1, <3>2
  <2> QED
    BY <2>5, <2>6
<1> QED
  BY <1>6, <1>7, <1>8 DEF Versioned!Record, Shown, Before

LEMMA SerialStepRefines ==
    ASSUME ShownInv, ShownInv', NEW c \in Client, Step(c), \A d \in Client \ {c} : ~ InProgress(d)
    PROVE  Versioned!Next \/ UNCHANGED Versioned!vars
<1> USE DEF At, Goes, Fails, store
<1>1. /\ MaterialInv /\ MaterialInv' /\ SerialInv /\ SerialInv' /\ StepsInv /\ StepsInv'
      /\ OrderedSets /\ OrderedSets'
  <2>1. StepsInv' => OrderedSets'
    BY SetsAreOrdered, PTL
  <2>2. StepsInv /\ StepsInv'
    BY DEF ShownInv, MaterialInv, SerialInv
  <2> QED
    BY <2>1, <2>2, SetsAreOrdered DEF ShownInv, MaterialInv
<1>2. /\ pc \in [Client -> Steps \cup Ended] /\ number \in [Client -> Rev] /\ prior \in [Client -> Rev]
      /\ revisions \subseteq Rev /\ Rev \subseteq Nat
      /\ addSet \in [Edge -> SUBSET Triple] /\ deleteSet \in [Edge -> SUBSET Triple]
      /\ references = [r \in Branch |-> references[r]]
      /\ wasDerivedFrom \subseteq revisions \X revisions
  <2>1. TypeOK /\ wasDerivedFrom \subseteq revisions \X revisions
    BY <1>1 DEF StepsInv
  <2>2. pc \in [Client -> Steps \cup Ended]
    BY <1>1, StagesAreSteps
  <2>3. /\ number \in [Client -> Rev] /\ prior \in [Client -> Rev] /\ revisions \subseteq Rev
        /\ addSet \in [Edge -> SUBSET Triple] /\ deleteSet \in [Edge -> SUBSET Triple]
        /\ references = [r \in Branch |-> references[r]]
    BY <2>1 DEF TypeOK
  <2> QED
    BY <2>1, <2>2, <2>3, RevIsInterval
<1>3. /\ request' = request
      /\ \A d \in Client \ {c} : /\ pc'[d] = pc[d] /\ ~ InProgress(d) /\ ~ InProgress(d)'
                                /\ number'[d] = number[d] /\ prior'[d] = prior[d]
  BY <1>1, OthersRest DEF InProgress
<1>4. ref(c) \in Branch /\ edge(c) \in Edge
  BY <1>1, RequestsAreTyped
<1>5. /\ pc[c] \in NotDrawn => number[c] = 0
      /\ pc'[c] \in NotDrawn => number'[c] = 0
      /\ pc[c] \in Draft => number[c] \notin revisions
      /\ pc'[c] \in Draft => number'[c] \notin revisions'
  <2>1. /\ pc[c] \in NotDrawn => number[c] = 0
        /\ pc'[c] \in NotDrawn => number'[c] = 0
    BY <1>1 DEF StepsInv, Drawn
  <2>2. number[c] \in Nat /\ number'[c] \in Nat
    BY <1>1, RevIsInterval DEF StepsInv, TypeOK
  <2>3. /\ pc[c] \in Draft => \A v \in revisions : v < number[c]
        /\ pc'[c] \in Draft => \A v \in revisions' : v < number'[c]
    BY <1>1 DEF SerialInv, NumbersAreNew
  <2> QED
    BY <2>1, <2>2, <2>3
<1>6. ASSUME pc[c] \in NotDrawn \cup Draft PROVE Visible = revisions
  <2>1. \A d \in Client : InProgress(d) => number[d] \notin revisions \/ number[d] = 0
    BY <1>3, <1>5, <1>6
  <2> QED
    BY <2>1 DEF Visible
<1>7. ASSUME pc'[c] \in NotDrawn \cup Draft \cup {"failed"}, pc'[c] # "failed" \/ ~ InProgress(c)' PROVE Visible' = revisions'
  <2>1. \A d \in Client : InProgress(d)' => number'[d] \notin revisions' \/ number'[d] = 0
    BY <1>3, <1>5, <1>7 DEF InProgress, Ended
  <2> QED
    BY <2>1 DEF Visible
<1>8. CASE Send(c) \/ CheckUpToDate(c) \/ ReadLeaf(c) \/ ReadNumber(c) \/ CheckNames(c)
  <2>1. UNCHANGED store
    BY <1>8 DEF Send, CheckUpToDate, ReadLeaf, ReadNumber, CheckNames
  <2>2. pc[c] \in NotDrawn \cup Draft
    BY <1>8 DEF Send, CheckUpToDate, ReadLeaf, ReadNumber, CheckNames, NotDrawn, Draft
  <2>3. pc'[c] \in NotDrawn \cup Draft \cup {"failed"}
    <3>1. CASE Send(c)
      BY <1>2, <3>1 DEF Send, NotDrawn
    <3>2. CASE Fails(c)
      BY <1>2, <3>2
    <3>3. CASE Goes(c) /\ pc[c] \in {"check", "leaf", "number", "names"}
      BY <1>2, <3>3, OrderOfSteps DEF NotDrawn, Draft
    <3>4. Send(c) \/ Fails(c) \/ (Goes(c) /\ pc[c] \in {"check", "leaf", "number", "names"})
      <4> HIDE DEF Fails, Goes
      <4> QED
        BY <1>8 DEF CheckUpToDate, ReadLeaf, ReadNumber, CheckNames
    <3> QED
      BY <3>1, <3>2, <3>3, <3>4
  <2>4. Visible' = Visible
    BY <1>6, <1>7, <2>1, <2>2, <2>3 DEF InProgress, Ended
  <2>5. /\ references' = references
        /\ \A v \in Visible : ContentOf'[v] = ContentOf[v]
        /\ \A v, u \in Visible : DerivedStar(v, u)' <=> DerivedStar(v, u)
    BY <2>1 DEF ContentOf, DerivedStar
  <2> QED
    BY <1>1, <2>4, <2>5, NothingShows
<1>9. CASE WriteChangeSet(c)
  <2>1. /\ changeSets' = changeSets \cup {edge(c)} /\ pc[c] = "changeSet" /\ pc'[c] = "revision"
        /\ UNCHANGED <<revisions, wasDerivedFrom, addSet, deleteSet, references, number>>
    BY <1>2, <1>9, OrderOfSteps DEF WriteChangeSet
  <2>2. Visible' = Visible /\ Visible = revisions
    BY <1>6, <1>7, <2>1 DEF Draft
  <2>3. PICK n : n = number[c]
    OBVIOUS
  <2>4. n \in Rev /\ \A v \in revisions : v < n
    BY <1>1, <1>2, <2>1, <2>3 DEF SerialInv, NumbersAreNew, Draft
  <2>5. \A e \in Edge : e[2] < n => e # edge(c)
    BY <1>2, <2>3, <2>4 DEF edge
  <2>6. \A v \in Visible : ContentOf'[v] = ContentOf[v]
    BY <1>1, <1>2, <2>1, <2>2, <2>4, <2>5, OlderContentStays
  <2>7. \A v, u \in Visible : DerivedStar(v, u)' <=> DerivedStar(v, u)
    BY <2>1 DEF DerivedStar
  <2> QED
    BY <1>1, <2>1, <2>2, <2>6, <2>7, NothingShows
<1>10. CASE WriteRevision(c)
  <2>1. /\ revisions' = revisions \cup {number[c]}
        /\ wasDerivedFrom' = wasDerivedFrom \cup {<<number[c], prior[c]>>}
        /\ pc[c] = "revision" /\ pc'[c] = "fill"
        /\ UNCHANGED <<changeSets, addSet, deleteSet, references, number, prior>>
    BY <1>2, <1>10, OrderOfSteps DEF WriteRevision
  <2>2. PICK n, p : n = number[c] /\ p = prior[c]
    OBVIOUS
  <2>3. n \in Rev \ revisions /\ p \in Rev /\ n # 0
    <3>1. p < n /\ p \in Nat /\ n \in Nat
      BY <1>1, <1>2, <2>1, <2>2 DEF StepsInv, Drawn, HasNumber
    <3> QED
      BY <1>2, <1>5, <2>1, <2>2, <3>1 DEF Draft
  <2>4. Visible = revisions
    BY <1>6, <2>1 DEF Draft
  <2>5. Visible' = revisions
    <3>1. InProgress(c)' /\ number'[c] = n
      BY <2>1, <2>2 DEF InProgress, Ended
    <3>2. \A d \in Client : InProgress(d)' => d = c
      BY <1>3
    <3>3. Visible' = revisions' \ {n}
      BY <2>3, <3>1, <3>2 DEF Visible
    <3> QED
      BY <2>1, <2>2, <2>3, <3>3
  <2>6. \A v \in Visible : ContentOf'[v] = ContentOf[v]
    BY <2>1 DEF ContentOf
  <2>7. \A v, u \in Visible : DerivedStar(v, u)' <=> DerivedStar(v, u)
    BY <1>2, <2>1, <2>2, <2>3, <2>4, NewEdgeHides
  <2> QED
    BY <1>1, <2>1, <2>4, <2>5, <2>6, <2>7, NothingShows
<1>11. CASE \/ FillSets(c) \/ StripAddSet(c) \/ StripDeleteSet(c) \/ InsertAddSet(c)
            \/ DeleteDeleteSet(c)
  <2>1. /\ UNCHANGED <<revisions, wasDerivedFrom, changeSets, references, number>>
        /\ pc[c] \in Building /\ pc'[c] \in Building
    BY <1>2, <1>11, OrderOfSteps DEF FillSets, StripAddSet, StripDeleteSet, InsertAddSet,
       DeleteDeleteSet, Building
  <2>2. PICK n, E : n = number[c] /\ E = edge(c)
    OBVIOUS
  <2>3. \A e \in Edge : e # E => addSet'[e] = addSet[e] /\ deleteSet'[e] = deleteSet[e]
    BY <1>2, <1>11, <2>2 DEF FillSets, StripAddSet, StripDeleteSet, InsertAddSet, DeleteDeleteSet
  <2>4. InProgress(c) /\ InProgress(c)'
    BY <2>1 DEF InProgress, Ended, Building
  <2>5. Visible' = Visible
    BY <1>3, <2>1, <2>4 DEF Visible
  <2>6. n \in Rev /\ \A v \in revisions : v <= n
    BY <1>2, <2>1, <2>2 DEF ShownInv, Newest
  <2>7. n # 0
    BY <1>1, <1>2, <2>1, <2>2, NumbersAreDrawn DEF Building, HasNumber, HasRevision
  <2>8. n \notin Visible /\ Visible \subseteq revisions
    BY <2>2, <2>4, <2>7 DEF Visible
  <2>9. \A v \in Visible : v \in Rev /\ v < n
    BY <1>2, <2>6, <2>8
  <2>10. \A e \in Edge : e[2] < n => e # E
    BY <1>2, <2>2, <2>6 DEF edge
  <2>11. \A v \in Visible : ContentOf'[v] = ContentOf[v]
    BY <1>1, <2>1, <2>3, <2>6, <2>9, <2>10, OlderContentStays
  <2>12. \A v, u \in Visible : DerivedStar(v, u)' <=> DerivedStar(v, u)
    BY <2>1 DEF DerivedStar
  <2> QED
    BY <1>1, <2>1, <2>5, <2>11, <2>12, NothingShows
<1>12. ASSUME RejectSets(c) \/ MoveBranch(c),
              NEW p, p = prior[c], NEW n, n = number[c]
       PROVE  /\ Versioned!Record(p, n, ContentOf[n])
              /\ p \in Rev /\ n \in Rev /\ p \in Visible /\ references[ref(c)] = {p}
              /\ LeavesAreShown /\ LeavesAreShown' /\ ContentOf' = ContentOf
  <2>1. /\ pc[c] \in {"fill", "move"} /\ pc'[c] \in Ended
        /\ UNCHANGED <<revisions, wasDerivedFrom, changeSets, addSet, deleteSet>>
    BY <1>2, <1>12, OrderOfSteps DEF RejectSets, MoveBranch, Ended
  <2>2. \A d \in Client : pc'[d] \in Ended
    BY <1>3, <2>1 DEF InProgress
  <2>3. Versioned!Record(p, n, ContentOf[n])
    BY <1>12, <2>1, <2>2, EndRecords DEF Building
  <2>4. references[ref(c)] = {p}
    BY <1>1, <1>12, <2>1 DEF MaterialInv, Heads, Building
  <2>5. LeavesAreShown /\ LeavesAreShown'
    <3>1. MaterialInv' => LeavesAreShown'
      BY LeafIsShown, PTL
    <3> QED
      BY <1>1, <3>1, LeafIsShown
  <2>6. p \in Visible
    BY <1>4, <2>4, <2>5 DEF LeavesAreShown
  <2>7. p \in Rev /\ n \in Rev
    BY <1>2, <1>12
  <2>8. ContentOf' = ContentOf
    BY <2>1 DEF ContentOf
  <2> QED
    BY <2>3, <2>4, <2>5, <2>6, <2>7, <2>8
<1>13. PICK p, n, q : p = prior[c] /\ n = number[c] /\ q = ref(c)
  OBVIOUS
<1>14. CASE RejectSets(c)
  <2>1. pc[c] = "fill" /\ UNCHANGED <<references, fullContent>>
    BY <1>14 DEF RejectSets
  <2>2. /\ Versioned!Record(p, n, ContentOf[n])
        /\ p \in Rev /\ n \in Rev /\ p \in Visible
        /\ LeavesAreShown /\ LeavesAreShown' /\ ContentOf' = ContentOf
    BY <1>12, <1>13, <1>14
  <2>3. ContentOf[n] = ContentOf[p]
    <3>1. {d \in changeSets : d[2] = n} = {edge(c)} /\ edge(c)[1] = p
      <4>1. PICK E : E = edge(c)
        OBVIOUS
      <4>2. E \in changeSets
        BY <1>1, <2>1, <4>1 DEF MaterialInv, Heads, Building
      <4>3. E[1] = p /\ E[2] = n
        BY <1>13, <4>1 DEF edge
      <4>4. \A d \in changeSets : d[2] = n => d = E
        BY <1>1, <4>2, <4>3 DEF MaterialInv, OneSetEach
      <4>5. {d \in changeSets : d[2] = n} = {E}
        BY <4>2, <4>3, <4>4
      <4> QED
        BY <4>1, <4>3, <4>5
    <3>2. addSet[edge(c)] = {} /\ deleteSet[edge(c)] = {}
      BY <2>1 DEF ShownInv, Newest
    <3>3. ContentOf[n] = ContentFrom(ContentOf, n) /\ n # NoRevision
      BY <1>1, <1>2, <2>2, ContentIsComputed DEF ContentUnfolds, NoRevision
    <3>4. ContentFrom(ContentOf, n) = (ContentOf[p] \cup {}) \ {}
      BY <3>1, <3>2, <3>3 DEF ContentFrom
    <3> QED
      BY <3>3, <3>4
  <2>4. Views' = Views
    <3>1. ASSUME NEW r \in Branch
          PROVE  ViewOf(r)' = ViewOf(r)
      <4>1. PICK v : v \in references[r]
        BY <1>1 DEF StepsInv, LeavesExist
      <4>2. ViewOf(r) = ContentOf[v] /\ ViewOf(r)' = ContentOf'[v]
        BY <2>1, <2>2, <4>1 DEF LeavesAreShown
      <4> QED
        BY <2>2, <4>2
    <3> QED
      BY <3>1 DEF Views
  <2>5. Shown[p] = ContentOf[n]
    BY <2>2, <2>3 DEF Shown
  <2>6. Versioned!Fail(p, n)
    <3>1. Versioned!Record(p, n, Shown[p])
      BY <2>2, <2>5 DEF Versioned!Record
    <3> QED
      BY <2>1, <2>4, <3>1 DEF Versioned!Fail, Views, Shown
  <2> QED
    BY <2>2, <2>6 DEF Versioned!Next
<1>15. CASE MoveBranch(c)
  <2>1. /\ Versioned!Record(p, n, ContentOf[n])
        /\ p \in Rev /\ n \in Rev /\ p \in Visible /\ references[q] = {p}
        /\ LeavesAreShown /\ LeavesAreShown' /\ ContentOf' = ContentOf
    BY <1>12, <1>13, <1>15
  <2>2. PICK e \in wasDerivedFrom :
            /\ e[1] = n
            /\ references' = [references EXCEPT ![q] = (@ \ {e[2]}) \cup {n}]
    BY <1>13, <1>15 DEF MoveBranch
  <2>3. pc[c] = "move" /\ e[2] = p
    BY <1>1, <1>13, <1>15, <2>2 DEF MoveBranch, MaterialInv, Heads, Building
  <2>4. q \in Branch
    BY <1>4, <1>13
  <2>5. (references[q] \ {e[2]}) \cup {n} = {n}
    BY <2>1, <2>3
  <2>6. references' = [references EXCEPT ![q] = {n}]
    BY <2>2, <2>5
  <2>7. Views' = [Views EXCEPT ![q] = ContentOf[n]]
    <3>1. ASSUME NEW r \in Branch, r # q
          PROVE  ViewOf(r)' = ViewOf(r)
      <4>1. PICK v : v \in references[r] /\ v \in references'[r]
        BY <1>1, <1>2, <2>6, <3>1 DEF StepsInv, LeavesExist
      <4>2. ViewOf(r) = ContentOf[v] /\ ViewOf(r)' = ContentOf'[v]
        BY <2>1, <4>1 DEF LeavesAreShown
      <4> QED
        BY <2>1, <4>2
    <3>2. ViewOf(q)' = ContentOf[n]
      <4>1. n \in references'[q]
        BY <1>2, <2>4, <2>6
      <4> QED
        BY <2>1, <2>4, <4>1 DEF LeavesAreShown
    <3>3. Views' = [r \in Branch |-> IF r = q THEN ContentOf[n] ELSE ViewOf(r)]
      BY <3>1, <3>2 DEF Views
    <3> QED
      BY <3>3 DEF Views
  <2>8. Versioned!Commit(q, p, n, ContentOf[n])
    BY <2>1, <2>6, <2>7 DEF Versioned!Commit, Views
  <2>9. ContentOf[n] \in SUBSET Triple
    <3>1. ViewOf(q)' = ContentOf'[n]
      <4>1. n \in references'[q]
        BY <1>2, <2>4, <2>6
      <4> QED
        BY <2>1, <2>4, <4>1 DEF LeavesAreShown
    <3>2. ~ InProgress(c)'
      BY <1>2, <1>15, OrderOfSteps DEF MoveBranch, InProgress, Ended
    <3>3. ViewOf(q)' = fullContent'[q]
      BY <1>3, <3>2 DEF ViewOf
    <3>4. fullContent'[q] \in SUBSET Triple
      BY <1>1, <2>4 DEF StepsInv, TypeOK
    <3> QED
      BY <2>1, <3>1, <3>3, <3>4
  <2> QED
    BY <2>1, <2>4, <2>8, <2>9 DEF Versioned!Next
<1> QED
  BY <1>8, <1>9, <1>10, <1>11, <1>14, <1>15 DEF Step

LEMMA SerialNextRefines ==
    ShownInv /\ [SerialNext]_vars => [Versioned!Next]_(Versioned!vars)
<1> SUFFICES ASSUME ShownInv, [SerialNext]_vars
             PROVE  Versioned!Next \/ UNCHANGED Versioned!vars
  OBVIOUS
<1>1. ShownInv'
  BY ShownStep
<1>2. ASSUME NEW c \in Client, Step(c), \A d \in Client \ {c} : ~ InProgress(d)
      PROVE  Versioned!Next \/ UNCHANGED Versioned!vars
  BY <1>1, <1>2, SerialStepRefines
<1>3. CASE UNCHANGED vars
  <2>1. /\ references' = references /\ Visible' = Visible
        /\ \A v \in Visible : ContentOf'[v] = ContentOf[v]
        /\ \A v, u \in Visible : DerivedStar(v, u)' <=> DerivedStar(v, u)
    BY <1>3 DEF vars, store, Visible, InProgress, ContentOf, DerivedStar
  <2> QED
    BY <1>1, <2>1, NothingShows DEF ShownInv
<1> QED
  BY <1>2, <1>3 DEF SerialNext, Rest

\* For every number of requests, one after the other, of branches and triples:
\* the chain of transactions of a request is one step of the versioned graph for
\* everybody who reads between requests, one that is rejected included: revision,
\* change set, full graph and branch change together or not at all.
THEOREM RequestsAppearAtomic == SerialSpec => AppearsAtomic
<1>1. Init => ShownInv
  BY ShownInit
<1>2. ShownInv /\ [SerialNext]_vars => ShownInv'
  BY ShownStep
<1>3. ShownInv /\ [SerialNext]_vars => [Versioned!Next]_(Versioned!vars)
  BY SerialNextRefines
<1> QED
  BY <1>1, <1>2, <1>3, PTL DEF SerialSpec, AppearsAtomic

=============================================================================
