-------------------- MODULE RevisionGraphRefinementProofs --------------------
(***************************************************************************)
(* RevisionGraph implements VersionedGraph, for every value of the         *)
(* constants.                                                              *)
(***************************************************************************)
EXTENDS RevisionGraphRefinement, RevisionGraphProofs

(***************************************************************************)
(* wasDerivedFrom* and wasDerivedFrom+                                     *)
(***************************************************************************)
LEMMA StarContainsStart ==
    ASSUME NEW v PROVE DerivedStar(v, v)
BY DEF DerivedStar

LEMMA StarIsClosed ==
    ASSUME NEW v, NEW e \in wasDerivedFrom, DerivedStar(v, e[1])
    PROVE  DerivedStar(v, e[2])
BY DEF DerivedStar

LEMMA StarUnfolds ==
    ASSUME wasDerivedFrom \subseteq Rev \X Rev, NEW v \in Rev, NEW u, DerivedStar(v, u)
    PROVE  u = v \/ DerivedPlus(v, u)
<1> DEFINE S == {w \in Rev : w = v \/ DerivedPlus(v, w)}
<1>1. ASSUME NEW e \in wasDerivedFrom, e[1] \in S
      PROVE  e[2] \in S
  <2>1. e[2] \in Rev
    OBVIOUS
  <2>2. CASE e[1] = v
    BY <2>1, <2>2, StarContainsStart DEF DerivedPlus
  <2>3. CASE DerivedPlus(v, e[1])
    <3>1. PICK d \in wasDerivedFrom : d[1] = v /\ DerivedStar(d[2], e[1])
      BY <2>3 DEF DerivedPlus
    <3>2. DerivedStar(d[2], e[2])
      BY <3>1, StarIsClosed
    <3> QED
      BY <2>1, <3>1, <3>2 DEF DerivedPlus
  <2> QED
    BY <1>1, <2>2, <2>3
<1>2. v \in S /\ S \in SUBSET Rev
  OBVIOUS
<1> HIDE DEF S
<1>3. u \in S
  BY <1>1, <1>2 DEF DerivedStar
<1> QED
  BY <1>3 DEF S

LEMMA StarStaysInHistory ==
    ASSUME revisions \subseteq Rev, wasDerivedFrom \subseteq revisions \X revisions,
           NEW v \in revisions, NEW u, DerivedStar(v, u)
    PROVE  u \in revisions
<1>1. revisions \in SUBSET Rev /\ \A e \in wasDerivedFrom : e[2] \in revisions
  OBVIOUS
<1> QED
  BY <1>1 DEF DerivedStar

\* A new revision n derived from v changes nothing below the other revisions.
LEMMA StarOfOlder ==
    ASSUME revisions \subseteq Rev, wasDerivedFrom \subseteq revisions \X revisions,
           NEW v \in revisions, NEW n \in Rev, n \notin revisions,
           wasDerivedFrom' = wasDerivedFrom \cup {<<n, v>>},
           NEW w \in revisions, NEW u
    PROVE  DerivedStar(w, u)' <=> DerivedStar(w, u)
<1>1. ASSUME DerivedStar(w, u)
      PROVE  DerivedStar(w, u)'
  BY <1>1 DEF DerivedStar
<1>2. ASSUME DerivedStar(w, u)'
      PROVE  DerivedStar(w, u)
  <2> SUFFICES ASSUME NEW S \in SUBSET Rev, w \in S,
                      \A e \in wasDerivedFrom : e[1] \in S => e[2] \in S
               PROVE  u \in S
    BY DEF DerivedStar
  <2> DEFINE T == S \cap revisions
  <2>1. T \in SUBSET Rev /\ w \in T
    OBVIOUS
  <2>2. ASSUME NEW e \in wasDerivedFrom', e[1] \in T
        PROVE  e[2] \in T
    <3>1. e[1] # n
      BY <2>2
    <3>2. e \in wasDerivedFrom
      BY <3>1
    <3> QED
      BY <2>2, <3>2
  <2> HIDE DEF T
  <2>3. u \in T
    BY <1>2, <2>1, <2>2 DEF DerivedStar
  <2> QED
    BY <2>3 DEF T
<1> QED
  BY <1>1, <1>2

LEMMA HistoryWithin ==
    ASSUME IInv
    PROVE  revisions \subseteq Rev /\ wasDerivedFrom \subseteq revisions \X revisions
<1>1. revisions \subseteq Rev /\ wasDerivedFrom \subseteq Rev \X Rev
  BY DEF IInv, TypeOK
<1>2. ASSUME NEW e \in wasDerivedFrom
      PROVE  e[1] \in revisions /\ e[2] \in revisions
  <2>1. PICK cs \in changeSets : cs.succ = e[1] /\ cs.prior = e[2]
    BY DEF IInv, HistoryIsTree
  <2>2. e[2] # NoRevision
    BY <1>1 DEF NoRevision, Rev
  <2> QED
    BY <2>1, <2>2 DEF IInv, HistoryIsTree
<1> QED
  BY <1>1, <1>2

\* The new revision comes after v and after what v comes after.
LEMMA BeforeOfRecord ==
    ASSUME IInv, NEW v \in revisions, NEW n \in Rev, n \notin revisions,
           NEW add, NEW del, AddRevision(n, v, add, del)
    PROVE  DerivedBefore' = DerivedBefore \cup
              {<<n, u>> : u \in {w \in revisions : w = v \/ <<v, w>> \in DerivedBefore}}
<1>1. revisions \subseteq Rev /\ wasDerivedFrom \subseteq revisions \X revisions
  BY HistoryWithin
<1>2. revisions' = revisions \cup {n} /\ wasDerivedFrom' = wasDerivedFrom \cup {<<n, v>>}
  <2>1. v # NoRevision
    BY <1>1 DEF NoRevision, Rev
  <2> QED
    BY <2>1 DEF AddRevision
<1>3. \A w \in revisions : \A u : DerivedStar(w, u)' <=> DerivedStar(w, u)
  BY <1>1, <1>2, StarOfOlder
<1>4. ASSUME NEW w \in revisions, NEW u
      PROVE  DerivedPlus(w, u)' <=> DerivedPlus(w, u)
  <2>1. \A e \in wasDerivedFrom' : e[1] = w => e \in wasDerivedFrom
    BY <1>2
  <2>2. \A e \in wasDerivedFrom : DerivedStar(e[2], u)' <=> DerivedStar(e[2], u)
    BY <1>1, <1>3
  <2> QED
    BY <1>2, <2>1, <2>2 DEF DerivedPlus
<1>5. ASSUME NEW u
      PROVE  DerivedPlus(n, u)' <=> DerivedStar(v, u)
  <2>1. \A e \in wasDerivedFrom' : e[1] = n <=> e = <<n, v>>
    BY <1>1, <1>2
  <2>2. <<n, v>> \in wasDerivedFrom'
    BY <1>2
  <2>3. DerivedPlus(n, u)' <=> DerivedStar(v, u)'
    BY <2>1, <2>2 DEF DerivedPlus
  <2> QED
    BY <2>3, <1>3
<1>6. \A u \in revisions : DerivedStar(v, u) <=> (u = v \/ <<v, u>> \in DerivedBefore)
  <2>1. ASSUME NEW u \in revisions, DerivedStar(v, u)
        PROVE  u = v \/ <<v, u>> \in DerivedBefore
    <3>1. wasDerivedFrom \subseteq Rev \X Rev
      BY <1>1
    <3> QED
      BY <2>1, <3>1, <1>1, StarUnfolds DEF DerivedBefore
  <2>2. ASSUME NEW u \in revisions, u = v \/ <<v, u>> \in DerivedBefore
        PROVE  DerivedStar(v, u)
    <3>1. CASE u = v
      BY <3>1, StarContainsStart
    <3>2. CASE <<v, u>> \in DerivedBefore
      <4>1. PICK e \in wasDerivedFrom : e[1] = v /\ DerivedStar(e[2], u)
        BY <3>2 DEF DerivedBefore, DerivedPlus
      <4>2. \A S \in SUBSET Rev :
               (v \in S /\ \A d \in wasDerivedFrom : d[1] \in S => d[2] \in S) => e[2] \in S
        BY <4>1
      <4> QED
        BY <4>1, <4>2 DEF DerivedStar
    <3> QED
      BY <2>2, <3>1, <3>2
  <2> QED
    BY <2>1, <2>2
<1>7. \A w, u : <<w, u>> \in DerivedBefore <=>
                   w \in revisions /\ u \in revisions /\ DerivedPlus(w, u)
  BY DEF DerivedBefore
<1>8. \A w, u : <<w, u>> \in DerivedBefore' <=>
                   w \in revisions' /\ u \in revisions' /\ DerivedPlus(w, u)'
  BY DEF DerivedBefore
<1>9. \A w \in revisions' : ~ DerivedPlus(w, n)'
  <2>1. ASSUME NEW w \in revisions, DerivedStar(w, n)
        PROVE  FALSE
    BY <2>1, <1>1, StarStaysInHistory
  <2>2. ~ DerivedPlus(n, n)'
    BY <1>5, <2>1
  <2>3. ASSUME NEW w \in revisions, DerivedPlus(w, n)
        PROVE  FALSE
    <3>1. PICK e \in wasDerivedFrom : e[1] = w /\ DerivedStar(e[2], n)
      BY <2>3 DEF DerivedPlus
    <3> QED
      BY <3>1, <2>1, <1>1
  <2> QED
    BY <1>2, <1>4, <2>2, <2>3
<1>10. ASSUME NEW w, NEW u
       PROVE  <<w, u>> \in DerivedBefore' <=>
                 \/ <<w, u>> \in DerivedBefore
                 \/ w = n /\ u \in revisions /\ (u = v \/ <<v, u>> \in DerivedBefore)
  <2>1. CASE w \in revisions
    BY <2>1, <1>2, <1>4, <1>7, <1>8, <1>9
  <2>2. CASE w = n
    BY <2>2, <1>2, <1>5, <1>6, <1>7, <1>8, <1>9
  <2>3. CASE w \notin revisions'
    BY <2>3, <1>2, <1>7, <1>8
  <2> QED
    BY <2>1, <2>2, <2>3, <1>2
<1>11. /\ DerivedBefore \subseteq revisions \X revisions
       /\ DerivedBefore' \subseteq revisions' \X revisions'
  BY DEF DerivedBefore
<1> DEFINE New == {<<n, u>> : u \in {w \in revisions : w = v \/ <<v, w>> \in DerivedBefore}}
<1>12. ASSUME NEW e
       PROVE  e \in DerivedBefore' <=> e \in DerivedBefore \cup New
  <2>1. ASSUME e \in DerivedBefore' PROVE e \in DerivedBefore \cup New
    <3>1. PICK w, u : e = <<w, u>>
      BY <2>1, <1>11
    <3> QED
      BY <2>1, <3>1, <1>10
  <2>2. ASSUME e \in DerivedBefore PROVE e \in DerivedBefore'
    <3>1. PICK w, u : e = <<w, u>>
      BY <2>2, <1>11
    <3> QED
      BY <2>2, <3>1, <1>10
  <2>3. ASSUME e \in New PROVE e \in DerivedBefore'
    BY <2>3, <1>10
  <2> QED
    BY <2>1, <2>2, <2>3
<1> QED
  BY <1>12

\* Without a step of the history the order stays.
LEMMA BeforeUnchanged ==
    ASSUME UNCHANGED <<revisions, wasDerivedFrom>>
    PROVE  DerivedBefore' = DerivedBefore
BY DEF DerivedBefore, DerivedPlus, DerivedStar

(***************************************************************************)
(* The view of the references after a step.                                *)
(***************************************************************************)
Views == [r \in Ref |-> ViewOf(r)]

LEMMA ViewsFollow ==
    ASSUME IInv, NEW r \in Ref, NEW graph,
           kind'[r] # "none", fullContent'[r] = graph,
           \A q \in Ref \ {r} : (kind'[q] = "none") = (kind[q] = "none")
                                /\ fullContent'[q] = fullContent[q]
    PROVE  Views' = [Views EXCEPT ![r] = graph]
<1>1. \A q \in Ref : ViewOf(q)' = IF q = r THEN graph ELSE ViewOf(q)
  BY DEF ViewOf, IsReference
<1>2. Views' = [q \in Ref |-> IF q = r THEN graph ELSE ViewOf(q)]
  <2>1. Views' = [q \in Ref |-> ViewOf(q)']
    BY DEF Views
  <2> QED
    BY <1>1, <2>1
<1> QED
  BY <1>2 DEF Views

LEMMA ViewsUnchanged ==
    ASSUME \A q \in Ref : /\ (kind'[q] = "none") = (kind[q] = "none")
                          /\ kind[q] # "none" => fullContent'[q] = fullContent[q]
    PROVE  Views' = Views
<1>1. \A q \in Ref : ViewOf(q)' = ViewOf(q)
  BY DEF ViewOf, IsReference
<1> QED
  BY <1>1 DEF Views

(***************************************************************************)
(* The requests.                                                           *)
(***************************************************************************)
LEMMA CreateRefines ==
    ASSUME IInv, NEW add \in SUBSET Triple, Create(add)
    PROVE  Versioned!Create(MasterRef, 0, add)
<1>1. /\ revisions = {} /\ wasDerivedFrom = {}
      /\ \A r \in Ref : ~ IsReference(r)
  BY DEF IInv, UnregisteredIsEmpty, Create
<1>2. /\ revisions' = {0} /\ wasDerivedFrom' = {}
      /\ kind' = [kind EXCEPT ![MasterRef] = "master"]
      /\ references' = [references EXCEPT ![MasterRef] = {0}]
      /\ fullContent' = [fullContent EXCEPT ![MasterRef] = add]
      /\ content' = [content EXCEPT ![0] = add]
  BY <1>1 DEF Create, AddRevision, Applied
<1>3. DerivedBefore' = DerivedBefore
  BY <1>1, <1>2 DEF DerivedBefore, DerivedPlus
<1>4. MasterRef \in Ref
  BY DEF Ref
<1>5. Views' = [Views EXCEPT ![MasterRef] = add]
  <2>1. /\ kind'[MasterRef] # "none" /\ fullContent'[MasterRef] = add
        /\ \A q \in Ref \ {MasterRef} : (kind'[q] = "none") = (kind[q] = "none")
                                        /\ fullContent'[q] = fullContent[q]
    BY <1>2, <1>4 DEF IInv, TypeOK
  <2> QED
    BY <1>4, <2>1, ViewsFollow
<1> QED
  BY <1>1, <1>2, <1>3, <1>5 DEF Versioned!Create, Views

LEMMA CommitRefines ==
    ASSUME IInv, Serving, NEW r \in Ref, NEW v, NEW n, NEW add, NEW del,
           Resolves(r, v), IsNextRevision(n), Commit(r, v, n, add, del)
    PROVE  Versioned!Commit(r, v, n, Applied(fullContent[r], add, del))
<1> DEFINE after == Applied(fullContent[r], add, del)
<1>1. /\ v \in revisions /\ v \in Rev /\ n \in Rev /\ n \notin revisions
      /\ IsReference(r) /\ references[r] = {v}
  BY CommitFinds
<1>2. /\ AddRevision(n, v, add, del)
      /\ references' = [references EXCEPT ![r] = {n}]
      /\ fullContent' = [fullContent EXCEPT ![r] = after]
      /\ content' = [content EXCEPT ![n] = after]
      /\ kind' = kind
  <2>1. Moved(r, v, n) = {n}
    BY <1>1 DEF Moved
  <2> QED
    BY <2>1 DEF Commit
<1> HIDE DEF after
<1>3. Views' = [Views EXCEPT ![r] = after]
  <2>1. /\ kind'[r] # "none" /\ fullContent'[r] = after
        /\ \A q \in Ref \ {r} : (kind'[q] = "none") = (kind[q] = "none")
                                /\ fullContent'[q] = fullContent[q]
    BY <1>1, <1>2 DEF IInv, TypeOK, IsReference
  <2> QED
    BY <2>1, ViewsFollow
<1>4. DerivedBefore' = DerivedBefore \cup
         {<<n, u>> : u \in {w \in revisions : w = v \/ <<v, w>> \in DerivedBefore}}
  BY <1>1, <1>2, BeforeOfRecord
<1>5. revisions' = revisions \cup {n}
  BY <1>2 DEF AddRevision
<1>6. Versioned!Record(v, n, after)
  BY <1>1, <1>2, <1>4, <1>5 DEF Versioned!Record
<1>7. Versioned!Commit(r, v, n, after)
  BY <1>1, <1>2, <1>3, <1>6 DEF Versioned!Commit, Views
<1> QED
  BY <1>7 DEF after

LEMMA RejectedRefines ==
    ASSUME IInv, NEW r \in Ref, NEW v, NEW n, UpdateRejected(r, v, n)
    PROVE  Versioned!Fail(v, n)
<1>1. /\ Resolves(r, v) /\ IsNextRevision(n) /\ AddRevision(n, v, {}, {})
      /\ content' = [content EXCEPT ![n] = content[v]]
      /\ UNCHANGED <<kind, references, fullContent>>
  BY DEF UpdateRejected
<1>2. v \in revisions /\ n \in Rev /\ n \notin revisions
  BY <1>1, CommitFinds
<1>3. DerivedBefore' = DerivedBefore \cup
         {<<n, u>> : u \in {w \in revisions : w = v \/ <<v, w>> \in DerivedBefore}}
  BY <1>1, <1>2, BeforeOfRecord
<1>4. revisions' = revisions \cup {n}
  BY <1>1 DEF AddRevision
<1>5. Views' = Views
  BY <1>1, ViewsUnchanged
<1> QED
  BY <1>1, <1>2, <1>3, <1>4, <1>5 DEF Versioned!Fail, Versioned!Record, Views

LEMMA FastForwardRefines ==
    ASSUME IInv, NEW f \in Ref, NEW r \in Ref, NEW u, NEW v, FastForward(f, u, r, v)
    PROVE  Versioned!FastForward(f, u, r, v)
<1>1. /\ Resolves(f, u) /\ Resolves(r, v) /\ DerivedPlus(u, v)
      /\ fullContent' = [fullContent EXCEPT ![r] = fullContent[f]]
      /\ references' = [references EXCEPT ![r] = Moved(r, v, u)]
      /\ UNCHANGED <<revisions, wasDerivedFrom, kind, content>>
  BY DEF FastForward
<1>2. IsReference(f) /\ IsReference(r) /\ references[f] = {u} /\ references[r] = {v}
  BY <1>1 DEF Resolves
<1>3. u \in revisions /\ v \in revisions /\ u \in Rev
  BY <1>2 DEF IInv, OneLeaf, TypeOK
<1>4. fullContent[f] = content[u]
  BY <1>2, <1>3 DEF IInv, FullGraphIsLeafContent
<1>5. Views' = [Views EXCEPT ![r] = content[u]]
  <2>1. /\ kind'[r] # "none" /\ fullContent'[r] = content[u]
        /\ \A q \in Ref \ {r} : (kind'[q] = "none") = (kind[q] = "none")
                                /\ fullContent'[q] = fullContent[q]
    BY <1>1, <1>2, <1>4 DEF IInv, TypeOK, IsReference
  <2> QED
    BY <2>1, ViewsFollow
<1>6. <<u, v>> \in DerivedBefore
  BY <1>1, <1>3 DEF DerivedBefore
<1>7. Moved(r, v, u) = {u}
  BY <1>2 DEF Moved
<1>8. DerivedBefore' = DerivedBefore
  BY <1>1, BeforeUnchanged
<1> QED
  BY <1>1, <1>2, <1>5, <1>6, <1>7, <1>8 DEF Versioned!FastForward, Views

(***************************************************************************)
(* A name without a reference has no leaf, so that a new reference is new  *)
(* to the versioned graph as well.                                         *)
(***************************************************************************)
AbsentIsNowhere == \A r \in Ref : ~ IsReference(r) => references[r] = {}

LEMMA NextKeepsAbsent == IInv /\ AbsentIsNowhere /\ [Next]_vars => AbsentIsNowhere'
<1> SUFFICES ASSUME IInv, AbsentIsNowhere, [Next]_vars
             PROVE  AbsentIsNowhere'
  OBVIOUS
<1>1. TypeOK
  BY DEF IInv
<1>2. ASSUME NEW r \in Ref, NEW v, NEW n, Resolves(r, v), kind' = kind,
             references' = [references EXCEPT ![r] = Moved(r, v, n)]
      PROVE  AbsentIsNowhere'
  <2>1. IsReference(r)
    BY <1>2 DEF Resolves
  <2> QED
    BY <1>1, <1>2, <2>1 DEF TypeOK, AbsentIsNowhere, IsReference
<1>3. ASSUME kind' = kind, references' = references
      PROVE  AbsentIsNowhere'
  BY <1>3 DEF AbsentIsNowhere, IsReference
<1>4. ASSUME NEW add \in SUBSET Triple, Create(add)
      PROVE  AbsentIsNowhere'
  BY <1>1, <1>4 DEF Create, TypeOK, AbsentIsNowhere, IsReference, Ref
<1>5. CASE CommitRequest
  <2> SUFFICES ASSUME NEW r \in Ref, NEW n \in Rev, NEW v \in references[r],
                      \/ \E add, del \in SUBSET Triple : Update(r, v, n, add, del)
                      \/ UpdateRejected(r, v, n)
                      \/ \E cs \in changeSets : Revert(r, v, n, cs)
               PROVE  AbsentIsNowhere'
    BY <1>5 DEF CommitRequest
  <2>1. ASSUME NEW add \in SUBSET Triple, NEW del \in SUBSET Triple,
               Update(r, v, n, add, del)
        PROVE  AbsentIsNowhere'
    BY <2>1, <1>2 DEF Update, Commit
  <2>2. CASE UpdateRejected(r, v, n)
    BY <2>2, <1>3 DEF UpdateRejected
  <2>3. ASSUME NEW cs \in changeSets, Revert(r, v, n, cs)
        PROVE  AbsentIsNowhere'
    BY <2>3, <1>2 DEF Revert, Commit
  <2> QED
    BY <2>1, <2>2, <2>3
<1>6. CASE ReferenceRequest
  BY <1>6, <1>3 DEF ReferenceRequest, BeginReference
<1>7. CASE MergeRequest
  BY <1>7, <1>2 DEF MergeRequest, FastForward
<1>8. CASE Undo
  BY <1>8, <1>3 DEF Undo, UndoChangeSet
<1>9. CASE FinishReference
  <2>1. job.ref \in Ref /\ job.kind \in {"branch", "tag"}
    BY <1>1 DEF TypeOK, Job
  <2> QED
    BY <1>1, <1>9, <2>1 DEF FinishReference, TypeOK, AbsentIsNowhere, IsReference
<1>10. CASE Crash
  BY <1>10, <1>3 DEF Crash
<1>11. CASE Drop
  BY <1>11 DEF Drop, AbsentIsNowhere
<1>12. CASE UNCHANGED vars
  BY <1>12, <1>3 DEF vars
<1> QED
  BY <1>4, <1>5, <1>6, <1>7, <1>8, <1>9, <1>10, <1>11, <1>12 DEF Next

LEMMA FinishRefines ==
    ASSUME IInv, AbsentIsNowhere, FinishReference
    PROVE  Versioned!Point(job.ref, job.base)
<1>1. /\ job.active /\ job.at = job.base
      /\ kind' = [kind EXCEPT ![job.ref] = job.kind]
      /\ references' = [references EXCEPT ![job.ref] = {job.base}]
      /\ UNCHANGED <<revisions, wasDerivedFrom, fullContent, content>>
  BY DEF FinishReference
<1>2. job.ref \in Ref /\ job.kind \in {"branch", "tag"} /\ job.base \in Rev
  BY DEF IInv, TypeOK, Job
<1>3. /\ ~ IsReference(job.ref) /\ job.base \in revisions
      /\ fullContent[job.ref] = content[job.base]
  BY <1>1 DEF IInv, RebuildIsExact
<1>4. references[job.ref] = {}
  BY <1>2, <1>3 DEF AbsentIsNowhere
<1>5. Views' = [Views EXCEPT ![job.ref] = content[job.base]]
  <2>1. /\ kind'[job.ref] # "none" /\ fullContent'[job.ref] = content[job.base]
        /\ \A q \in Ref \ {job.ref} : (kind'[q] = "none") = (kind[q] = "none")
                                      /\ fullContent'[q] = fullContent[q]
    BY <1>1, <1>2, <1>3 DEF IInv, TypeOK
  <2> QED
    BY <1>2, <2>1, ViewsFollow
<1>6. DerivedBefore' = DerivedBefore
  BY <1>1, BeforeUnchanged
<1> QED
  BY <1>1, <1>3, <1>4, <1>5, <1>6 DEF Versioned!Point, Views

LEMMA DropRefines ==
    ASSUME IInv, Drop
    PROVE  Versioned!Drop
<1>1. /\ revisions' = {} /\ wasDerivedFrom' = {}
      /\ kind' = [r \in Ref |-> "none"]
      /\ references' = [r \in Ref |-> {}]
      /\ content' = [v \in Rev |-> {}]
  BY DEF Drop
<1>2. DerivedBefore' = {}
  BY <1>1 DEF DerivedBefore
<1>3. Views' = [r \in Ref |-> {}]
  BY <1>1 DEF Views, ViewOf, IsReference
<1> QED
  BY <1>1, <1>2, <1>3 DEF Versioned!Drop, Versioned!Blank, Views

\* A rebuild works out of sight.
LEMMA WorkIsHidden ==
    ASSUME IInv, NEW r \in Ref, ~ IsReference(r), NEW graph,
           fullContent' = [fullContent EXCEPT ![r] = graph],
           UNCHANGED <<revisions, wasDerivedFrom, kind, references, content>>
    PROVE  UNCHANGED Versioned!vars
<1>1. Views' = Views
  <2>1. \A q \in Ref : /\ (kind'[q] = "none") = (kind[q] = "none")
                       /\ kind[q] # "none" => fullContent'[q] = fullContent[q]
    BY DEF IInv, TypeOK, IsReference
  <2> QED
    BY <2>1, ViewsUnchanged
<1> QED
  BY <1>1, BeforeUnchanged DEF Versioned!vars, Views

LEMMA InitRefines == Init => Versioned!Init
<1> SUFFICES ASSUME Init
             PROVE  Versioned!Init
  OBVIOUS
<1>1. DerivedBefore = {}
  BY DEF Init, DerivedBefore
<1>2. Views = [r \in Ref |-> {}]
  BY DEF Init, Views, ViewOf, IsReference
<1> QED
  BY <1>1, <1>2 DEF Init, Versioned!Init, Versioned!Blank, Views

LEMMA NextRefines ==
    IInv /\ AbsentIsNowhere /\ [Next]_vars => [Versioned!Next]_(Versioned!vars)
<1> SUFFICES ASSUME IInv, AbsentIsNowhere, [Next]_vars
             PROVE  Versioned!Next \/ UNCHANGED Versioned!vars
  OBVIOUS
<1>1. TypeOK
  BY DEF IInv
<1>2. ASSUME NEW add \in SUBSET Triple, Create(add)
      PROVE  Versioned!Next
  <2>1. MasterRef \in Ref /\ 0 \in Rev
    BY BoundAssumption DEF Ref, Rev
  <2> QED
    BY <1>2, <2>1, CreateRefines DEF Versioned!Next
<1>3. ASSUME NEW r \in Ref, NEW v, NEW n,
             NEW add \in SUBSET Triple, NEW del \in SUBSET Triple,
             Serving, Resolves(r, v), IsNextRevision(n), Commit(r, v, n, add, del)
      PROVE  Versioned!Next
  <2> DEFINE after == Applied(fullContent[r], add, del)
  <2>1. v \in Rev /\ n \in Rev /\ fullContent[r] \subseteq Triple
    BY <1>3, CommitFinds
  <2>2. after \in SUBSET Triple
    BY <2>1 DEF Applied
  <2>3. Versioned!Commit(r, v, n, after)
    BY <1>3, CommitRefines
  <2> HIDE DEF after
  <2> QED
    BY <2>1, <2>2, <2>3 DEF Versioned!Next
<1>4. CASE CommitRequest
  <2> SUFFICES ASSUME NEW r \in Ref, NEW n \in Rev, NEW v \in references[r],
                      \/ \E add, del \in SUBSET Triple : Update(r, v, n, add, del)
                      \/ UpdateRejected(r, v, n)
                      \/ \E cs \in changeSets : Revert(r, v, n, cs)
               PROVE  Versioned!Next
    BY <1>4 DEF CommitRequest
  <2>1. ASSUME NEW add \in SUBSET Triple, NEW del \in SUBSET Triple,
               Update(r, v, n, add, del)
        PROVE  Versioned!Next
    <3>1. /\ StrippedAdd(r, add) \in SUBSET Triple
          /\ StrippedDel(r, del) \in SUBSET Triple
      BY DEF StrippedAdd, StrippedDel
    <3> QED
      BY <2>1, <3>1, <1>3 DEF Update
  <2>2. CASE UpdateRejected(r, v, n)
    <3>1. v \in Rev
      BY <1>1 DEF TypeOK
    <3> QED
      BY <2>2, <3>1, RejectedRefines DEF Versioned!Next
  <2>3. ASSUME NEW cs \in changeSets, Revert(r, v, n, cs)
        PROVE  Versioned!Next
    <3>1. cs.del \in SUBSET Triple /\ cs.add \in SUBSET Triple
      BY <1>1 DEF TypeOK, ChangeSet
    <3> QED
      BY <2>3, <3>1, <1>3 DEF Revert
  <2> QED
    BY <2>1, <2>2, <2>3
<1>5. CASE ReferenceRequest
  <2> SUFFICES ASSUME NEW k \in {"branch", "tag"}, NEW r \in Name, NEW v \in revisions,
                      NEW q \in Ref, NEW h \in references[q], BeginReference(k, r, v, h, q)
               PROVE  UNCHANGED Versioned!vars
    BY <1>5 DEF ReferenceRequest
  <2>1. r \in Ref
    BY DEF Ref
  <2> QED
    BY <2>1, WorkIsHidden DEF BeginReference
<1>6. CASE MergeRequest
  <2>1. PICK f \in Ref, r \in Ref :
           \E u \in references[f], v \in references[r] : FastForward(f, u, r, v)
    BY <1>6 DEF MergeRequest
  <2>2. PICK u \in references[f], v \in references[r] : FastForward(f, u, r, v)
    BY <2>1
  <2>3. u \in Rev /\ v \in Rev
    BY <1>1 DEF TypeOK
  <2> QED
    BY <2>2, <2>3, FastForwardRefines DEF Versioned!Next
<1>7. CASE Undo
  <2>1. PICK cs \in changeSets : UndoChangeSet(cs)
    BY <1>7 DEF Undo
  <2>2. job.ref \in Ref /\ ~ IsReference(job.ref)
    BY <1>1, <2>1 DEF UndoChangeSet, IInv, RebuildIsExact, TypeOK, Job
  <2> QED
    BY <2>1, <2>2, WorkIsHidden DEF UndoChangeSet
<1>8. CASE FinishReference
  <2>1. job.ref \in Ref /\ job.base \in Rev
    BY <1>1 DEF TypeOK, Job
  <2> QED
    BY <1>8, <2>1, FinishRefines DEF Versioned!Next
<1>9. CASE Crash
  <2>1. Views' = Views
    BY <1>9, ViewsUnchanged DEF Crash
  <2> QED
    BY <1>9, <2>1, BeforeUnchanged DEF Crash, Versioned!vars, Views
<1>10. CASE Drop
  BY <1>10, DropRefines DEF Versioned!Next
<1>11. CASE UNCHANGED vars
  <2>1. Views' = Views
    BY <1>11, ViewsUnchanged DEF vars
  <2> QED
    BY <1>11, <2>1, BeforeUnchanged DEF vars, Versioned!vars, Views
<1> QED
  BY <1>2, <1>4, <1>5, <1>6, <1>7, <1>8, <1>9, <1>10, <1>11 DEF Next

\* What a client sees of RevisionGraph is a behaviour of VersionedGraph.
THEOREM Refinement == Spec => ImplementsVersionedGraph
<1>1. Init => AbsentIsNowhere
  BY DEF Init, AbsentIsNowhere
<1>2. Init => Versioned!Init
  BY InitRefines
<1>3. IInv /\ AbsentIsNowhere /\ [Next]_vars => AbsentIsNowhere'
  BY NextKeepsAbsent
<1>4. IInv /\ AbsentIsNowhere /\ [Next]_vars => [Versioned!Next]_(Versioned!vars)
  BY NextRefines
<1> QED
  BY <1>1, <1>2, <1>3, <1>4, Invariant, PTL DEF Spec, Versioned!Spec, ImplementsVersionedGraph
=============================================================================
