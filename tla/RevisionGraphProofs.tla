------------------------ MODULE RevisionGraphProofs ------------------------
(***************************************************************************)
(* Theorems about RevisionGraph, for every set of triples and names and    *)
(* every number of revisions.                                              *)
(***************************************************************************)
EXTENDS RevisionGraph, TLAPS

USE BoundAssumption, NameAssumption, MasterRefAssumption

(***************************************************************************)
(* A request that commits finds one leaf, and the new number is fresh.     *)
(***************************************************************************)
LEMMA CommitFinds ==
    ASSUME IInv, NEW r \in Ref, NEW v, NEW n, Resolves(r, v), IsNextRevision(n)
    PROVE  /\ v \in revisions /\ v \in Rev /\ n \in Rev
           /\ IsReference(r)
           /\ references[r] = {v}
           /\ fullContent[r] = content[v]
           /\ fullContent[r] \subseteq Triple
           /\ n \notin revisions
           /\ v < n
<1>1. references[r] = {v} /\ IsReference(r)
  BY DEF Resolves
<1>2. \E w \in revisions : references[r] = {w}
  BY <1>1 DEF IInv, OneLeaf
<1>3. v \in revisions /\ v \in Rev
  BY <1>1, <1>2 DEF IInv, TypeOK
<1>4. fullContent[r] = content[v]
  BY <1>1, <1>3 DEF IInv, FullGraphIsLeafContent
<1>5. fullContent[r] \subseteq Triple
  BY DEF IInv, TypeOK
<1>6. n \in Rev /\ \A w \in revisions : w < n
  BY DEF IsNextRevision
<1>7. n \notin revisions
  BY <1>6 DEF Rev
<1> QED
  BY <1>1, <1>3, <1>4, <1>5, <1>6, <1>7

(***************************************************************************)
(* A new revision whose change set leads from the content of its prior     *)
(* revision to its own, and back, keeps what is said of the history.       *)
(***************************************************************************)
LEMMA AddRevisionKeepsHistory ==
    ASSUME IInv,
           NEW v \in revisions, NEW n \in Rev, n \notin revisions, v < n,
           NEW add \in SUBSET Triple, NEW del \in SUBSET Triple,
           NEW after \in SUBSET Triple,
           after = Applied(content[v], add, del),
           (after \cup del) \ add = content[v],
           AddRevision(n, v, add, del),
           content' = [content EXCEPT ![n] = after]
    PROVE  /\ revisions' \subseteq Rev
           /\ wasDerivedFrom' \subseteq Rev \X Rev
           /\ changeSets' \subseteq ChangeSet
           /\ content' \in [Rev -> SUBSET Triple]
           /\ content'[n] = after
           /\ \A w \in revisions : w \in Rev /\ content'[w] = content[w]
           /\ ChangeSetsReplay'
           /\ HistoryIsTree'
           /\ FirstChangeSetOnlyAdds'
<1> DEFINE cs == [prior |-> v, succ |-> n, add |-> add, del |-> del]
<1>1. TypeOK /\ v \in Rev
  BY DEF IInv, TypeOK
<1>2. NoRevision \notin Rev
  BY DEF NoRevision, Rev
<1>3. /\ revisions' = revisions \cup {n}
      /\ wasDerivedFrom' = wasDerivedFrom \cup {<<n, v>>}
      /\ changeSets' = changeSets \cup {cs}
  BY <1>1, <1>2 DEF AddRevision
<1>4. cs \in ChangeSet
  BY <1>1 DEF ChangeSet
<1>5. /\ revisions' \subseteq Rev
      /\ wasDerivedFrom' \subseteq Rev \X Rev
      /\ changeSets' \subseteq ChangeSet
      /\ content' \in [Rev -> SUBSET Triple]
      /\ content'[n] = after
  BY <1>1, <1>3, <1>4 DEF TypeOK
<1>6. \A w \in revisions : w \in Rev /\ content'[w] = content[w]
  BY <1>1 DEF TypeOK
<1>7. \A c \in changeSets : /\ c.succ \in revisions
                            /\ c.prior # NoRevision => c.prior \in revisions
  BY DEF IInv, HistoryIsTree
<1>8. ChangeSetsReplay'
  <2> SUFFICES ASSUME NEW c \in changeSets', c.prior # NoRevision
               PROVE  /\ content'[c.succ] = Applied(content'[c.prior], c.add, c.del)
                      /\ content'[c.prior] = Undone(content'[c.succ], c)
    BY DEF ChangeSetsReplay, Applied, Undone
  <2>1. CASE c \in changeSets
    <3>1. content'[c.succ] = content[c.succ] /\ content'[c.prior] = content[c.prior]
      BY <2>1, <1>6, <1>7
    <3> QED
      BY <2>1, <3>1 DEF IInv, ChangeSetsReplay
  <2>2. CASE c = cs
    <3>1. content'[c.prior] = content[v] /\ content'[c.succ] = after
      BY <2>2, <1>5, <1>6
    <3> QED
      BY <2>2, <3>1 DEF Undone
  <2> QED
    BY <1>3, <2>1, <2>2
<1>9. HistoryIsTree'
  <2>1. ASSUME NEW c \in changeSets'
        PROVE  /\ {c.succ} \cup ({c.prior} \ {NoRevision}) \subseteq revisions'
               /\ c.prior < c.succ
               /\ c.prior # NoRevision => <<c.succ, c.prior>> \in wasDerivedFrom'
    <3>1. CASE c \in changeSets
      BY <3>1, <1>3 DEF IInv, HistoryIsTree
    <3>2. CASE c = cs
      BY <3>2, <1>3
    <3> QED
      BY <3>1, <3>2, <1>3
  <2>2. ASSUME NEW e \in wasDerivedFrom'
        PROVE  \E c \in changeSets' : c.succ = e[1] /\ c.prior = e[2]
    <3>1. CASE e \in wasDerivedFrom
      <4>1. PICK c \in changeSets : c.succ = e[1] /\ c.prior = e[2]
        BY <3>1 DEF IInv, HistoryIsTree
      <4> QED
        BY <4>1, <1>3
    <3>2. CASE e = <<n, v>>
      <4>1. cs \in changeSets' /\ cs.succ = n /\ cs.prior = v
        BY <1>3
      <4>2. e[1] = n /\ e[2] = v
        BY <3>2
      <4> QED
        BY <4>1, <4>2
    <3> QED
      BY <3>1, <3>2, <1>3
  <2>3. \A c, d \in changeSets' : c.succ = d.succ => c = d
    BY <1>3, <1>7 DEF IInv, HistoryIsTree
  <2> QED
    BY <2>1, <2>2, <2>3 DEF HistoryIsTree
<1>10. FirstChangeSetOnlyAdds'
  <2> SUFFICES ASSUME NEW c \in changeSets', c.prior = NoRevision
               PROVE  c.del = {} /\ content'[c.succ] = c.add
    BY DEF FirstChangeSetOnlyAdds
  <2>1. c \in changeSets
    BY <1>1, <1>2, <1>3
  <2> QED
    BY <2>1, <1>6, <1>7 DEF IInv, FirstChangeSetOnlyAdds
<1> QED
  BY <1>5, <1>6, <1>8, <1>9, <1>10

(***************************************************************************)
(* A commit keeps the invariant if its change set can be undone.           *)
(***************************************************************************)
LEMMA CommitKeepsIInv ==
    ASSUME IInv, Serving,
           NEW r \in Ref, NEW v \in Rev, NEW n \in Rev,
           NEW add \in SUBSET Triple, NEW del \in SUBSET Triple,
           Resolves(r, v), IsNextRevision(n),
           (Applied(fullContent[r], add, del) \cup del) \ add = fullContent[r],
           Commit(r, v, n, add, del)
    PROVE  IInv'
<1> DEFINE after == Applied(fullContent[r], add, del)
<1>1. /\ v \in revisions
      /\ IsReference(r)
      /\ references[r] = {v}
      /\ fullContent[r] = content[v]
      /\ fullContent[r] \subseteq Triple
      /\ n \notin revisions
      /\ v < n
  BY CommitFinds
<1>2. after \in SUBSET Triple
  BY <1>1 DEF Applied
<1>3. references' = [references EXCEPT ![r] = {n}]
  <2>1. Moved(r, v, n) = {n}
    BY <1>1 DEF Moved
  <2> QED
    BY <2>1 DEF Commit
<1>4. /\ AddRevision(n, v, add, del)
      /\ fullContent' = [fullContent EXCEPT ![r] = after]
      /\ content' = [content EXCEPT ![n] = after]
      /\ UNCHANGED <<registered, kind, used, job>>
  BY DEF Commit
<1>5. TypeOK
  BY DEF IInv
<1> HIDE DEF after
<1>6. /\ revisions' \subseteq Rev
      /\ wasDerivedFrom' \subseteq Rev \X Rev
      /\ changeSets' \subseteq ChangeSet
      /\ content' \in [Rev -> SUBSET Triple]
      /\ content'[n] = after
      /\ \A w \in revisions : w \in Rev /\ content'[w] = content[w]
      /\ ChangeSetsReplay'
      /\ HistoryIsTree'
      /\ FirstChangeSetOnlyAdds'
  <2>1. after = Applied(content[v], add, del) /\ (after \cup del) \ add = content[v]
    BY <1>1 DEF after
  <2> QED
    BY <1>1, <1>2, <1>4, <2>1, AddRevisionKeepsHistory
<1>7. TypeOK'
  BY <1>2, <1>3, <1>4, <1>5, <1>6 DEF TypeOK
<1>8. UnregisteredIsEmpty'
  BY <1>4 DEF UnregisteredIsEmpty, Serving
<1>9. OneLeaf'
  <2>1. revisions' = revisions \cup {n}
    BY <1>4 DEF AddRevision
  <2> QED
    BY <1>3, <1>4, <1>5, <2>1 DEF IInv, OneLeaf, IsReference, TypeOK
<1>10. FullGraphIsLeafContent'
  <2> SUFFICES ASSUME NEW q \in Ref, NEW w \in Rev, IsReference(q)', w \in references'[q]
               PROVE  fullContent'[q] = content'[w]
    BY DEF FullGraphIsLeafContent
  <2>1. CASE q = r
    BY <2>1, <1>3, <1>4, <1>5, <1>6 DEF TypeOK
  <2>2. CASE q # r
    <3>1. references'[q] = references[q] /\ fullContent'[q] = fullContent[q]
      BY <2>2, <1>3, <1>4, <1>5 DEF TypeOK
    <3>2. IsReference(q)
      BY <1>4 DEF IsReference
    <3>3. w \in revisions
      BY <3>1, <3>2 DEF IInv, OneLeaf
    <3> QED
      BY <3>1, <3>2, <3>3, <1>6 DEF IInv, FullGraphIsLeafContent
  <2> QED
    BY <2>1, <2>2
<1>11. RebuildIsExact'
  BY <1>4 DEF RebuildIsExact, Serving
<1> QED
  BY <1>6, <1>7, <1>8, <1>9, <1>10, <1>11 DEF IInv

(***************************************************************************)
(* Stripping is what makes an update's change set undoable, and undoing a  *)
(* change set is itself undoable.                                          *)
(***************************************************************************)
LEMMA StrippedIsUndoable ==
    ASSUME NEW r, NEW add, NEW del
    PROVE  LET a == StrippedAdd(r, add)
               d == StrippedDel(r, del)
           IN  (Applied(fullContent[r], a, d) \cup d) \ a = fullContent[r]
BY DEF StrippedAdd, StrippedDel, Applied

LEMMA RevertIsUndoable ==
    ASSUME IInv, NEW cs \in changeSets, NEW graph, graph = content[cs.succ]
    PROVE  (Applied(graph, cs.del, cs.add) \cup cs.add) \ cs.del = graph
<1>1. CASE cs.prior = NoRevision
  <2>1. cs.del = {} /\ graph = cs.add
    BY <1>1 DEF IInv, FirstChangeSetOnlyAdds
  <2> QED
    BY <2>1 DEF Applied
<1>2. CASE cs.prior # NoRevision
  <2>1. /\ graph = Applied(content[cs.prior], cs.add, cs.del)
        /\ content[cs.prior] = Undone(graph, cs)
    BY <1>2 DEF IInv, ChangeSetsReplay
  <2> QED
    BY <2>1 DEF Applied, Undone
<1> QED
  BY <1>1, <1>2

LEMMA UpdateKeepsIInv ==
    ASSUME IInv, NEW r \in Ref, NEW v, NEW n,
           NEW add \in SUBSET Triple, NEW del \in SUBSET Triple,
           Update(r, v, n, add, del)
    PROVE  IInv'
<1> DEFINE a == StrippedAdd(r, add)
           d == StrippedDel(r, del)
<1>1. Serving /\ Resolves(r, v) /\ IsNextRevision(n) /\ Commit(r, v, n, a, d)
  BY DEF Update
<1>2. v \in Rev /\ n \in Rev
  BY <1>1, CommitFinds
<1>3. a \in SUBSET Triple /\ d \in SUBSET Triple
  BY DEF StrippedAdd, StrippedDel
<1>4. (Applied(fullContent[r], a, d) \cup d) \ a = fullContent[r]
  BY StrippedIsUndoable
<1> HIDE DEF a, d
<1> QED
  BY <1>1, <1>2, <1>3, <1>4, CommitKeepsIInv

LEMMA RevertKeepsIInv ==
    ASSUME IInv, NEW r \in Ref, NEW v, NEW n, NEW cs, Revert(r, v, n, cs)
    PROVE  IInv'
<1>1. /\ Serving /\ Resolves(r, v) /\ IsNextRevision(n)
      /\ cs \in changeSets /\ cs.succ = v
      /\ Commit(r, v, n, cs.del, cs.add)
  BY DEF Revert
<1>2. v \in Rev /\ n \in Rev /\ fullContent[r] = content[cs.succ]
  BY <1>1, CommitFinds
<1>3. cs.del \in SUBSET Triple /\ cs.add \in SUBSET Triple
  BY <1>1 DEF IInv, TypeOK, ChangeSet
<1>4. (Applied(fullContent[r], cs.del, cs.add) \cup cs.add) \ cs.del = fullContent[r]
  BY <1>1, <1>2, RevertIsUndoable
<1> QED
  BY <1>1, <1>2, <1>3, <1>4, CommitKeepsIInv

(***************************************************************************)
(* The requests that do not commit.                                        *)
(***************************************************************************)
LEMMA CreateKeepsIInv ==
    ASSUME IInv, NEW add \in SUBSET Triple, Create(add)
    PROVE  IInv'
<1> DEFINE cs == [prior |-> NoRevision, succ |-> 0, add |-> add, del |-> {}]
<1>1. /\ revisions = {} /\ changeSets = {} /\ wasDerivedFrom = {}
      /\ \A r \in Ref : ~ IsReference(r)
      /\ ~ job.active
  BY DEF IInv, UnregisteredIsEmpty, Create
<1>2. TypeOK
  BY DEF IInv
<1>3. /\ revisions' = {0} /\ wasDerivedFrom' = {} /\ changeSets' = {cs}
      /\ registered' = TRUE
      /\ kind' = [kind EXCEPT ![MasterRef] = "master"]
      /\ references' = [references EXCEPT ![MasterRef] = {0}]
      /\ fullContent' = [fullContent EXCEPT ![MasterRef] = add]
      /\ content' = [content EXCEPT ![0] = add]
      /\ UNCHANGED <<used, job>>
  BY <1>1 DEF Create, AddRevision, Applied
<1>4. MasterRef \in Ref /\ 0 \in Rev /\ NoRevision \notin Rev /\ NoRevision < 0
  BY DEF Ref, Rev, NoRevision
<1>5. cs \in ChangeSet
  BY <1>4 DEF ChangeSet
<1>6. TypeOK'
  BY <1>2, <1>3, <1>4, <1>5 DEF TypeOK
<1>7. UnregisteredIsEmpty'
  BY <1>3 DEF UnregisteredIsEmpty
<1>8. \A r \in Ref : IsReference(r)' =>
         /\ r = MasterRef /\ references'[r] = {0} /\ fullContent'[r] = add
  BY <1>1, <1>2, <1>3, <1>4 DEF IsReference, TypeOK
<1>9. content'[0] = add
  BY <1>2, <1>3, <1>4 DEF TypeOK
<1>10. OneLeaf'
  BY <1>3, <1>8 DEF OneLeaf
<1>11. FullGraphIsLeafContent'
  BY <1>8, <1>9 DEF FullGraphIsLeafContent
<1>12. ChangeSetsReplay'
  BY <1>3 DEF ChangeSetsReplay
<1>13. HistoryIsTree'
  BY <1>3, <1>4 DEF HistoryIsTree
<1>14. FirstChangeSetOnlyAdds'
  BY <1>3, <1>9 DEF FirstChangeSetOnlyAdds
<1>15. RebuildIsExact'
  BY <1>1, <1>3 DEF RebuildIsExact
<1> QED
  BY <1>6, <1>7, <1>10, <1>11, <1>12, <1>13, <1>14, <1>15 DEF IInv

LEMMA UpdateRejectedKeepsIInv ==
    ASSUME IInv, NEW r \in Ref, NEW v, NEW n, UpdateRejected(r, v, n)
    PROVE  IInv'
<1>1. /\ Serving /\ Resolves(r, v) /\ IsNextRevision(n)
      /\ AddRevision(n, v, {}, {})
      /\ content' = [content EXCEPT ![n] = content[v]]
      /\ UNCHANGED <<registered, kind, references, fullContent, used, job>>
  BY DEF UpdateRejected
<1>2. v \in revisions /\ v \in Rev /\ n \in Rev /\ n \notin revisions /\ v < n
  BY <1>1, CommitFinds
<1>3. TypeOK /\ content[v] \in SUBSET Triple
  BY <1>2 DEF IInv, TypeOK
<1>4. /\ content[v] = Applied(content[v], {}, {})
      /\ (content[v] \cup {}) \ {} = content[v]
  BY DEF Applied
<1>5. /\ revisions' \subseteq Rev
      /\ wasDerivedFrom' \subseteq Rev \X Rev
      /\ changeSets' \subseteq ChangeSet
      /\ content' \in [Rev -> SUBSET Triple]
      /\ \A w \in revisions : w \in Rev /\ content'[w] = content[w]
      /\ ChangeSetsReplay'
      /\ HistoryIsTree'
      /\ FirstChangeSetOnlyAdds'
  BY <1>1, <1>2, <1>3, <1>4, AddRevisionKeepsHistory
<1>6. TypeOK'
  BY <1>1, <1>3, <1>5 DEF TypeOK
<1>7. UnregisteredIsEmpty'
  BY <1>1 DEF UnregisteredIsEmpty, Serving
<1>8. OneLeaf'
  <2>1. revisions \subseteq revisions'
    BY <1>1 DEF AddRevision
  <2> QED
    BY <1>1, <2>1 DEF IInv, OneLeaf, IsReference
<1>9. FullGraphIsLeafContent'
  <2> SUFFICES ASSUME NEW q \in Ref, NEW w \in Rev, IsReference(q), w \in references[q]
               PROVE  fullContent[q] = content'[w]
    BY <1>1 DEF FullGraphIsLeafContent, IsReference
  <2>1. w \in revisions
    BY DEF IInv, OneLeaf
  <2> QED
    BY <2>1, <1>5 DEF IInv, FullGraphIsLeafContent
<1>10. RebuildIsExact'
  BY <1>1 DEF RebuildIsExact, Serving
<1> QED
  BY <1>5, <1>6, <1>7, <1>8, <1>9, <1>10 DEF IInv

(***************************************************************************)
(* What holds of the history alone stays true when the history does not    *)
(* change.                                                                 *)
(***************************************************************************)
LEMMA HistoryUnchanged ==
    ASSUME IInv, UNCHANGED <<revisions, wasDerivedFrom, changeSets, content>>
    PROVE  ChangeSetsReplay' /\ HistoryIsTree' /\ FirstChangeSetOnlyAdds'
<1>1. ChangeSetsReplay'
  BY DEF IInv, ChangeSetsReplay, Applied, Undone
<1>2. HistoryIsTree'
  BY DEF IInv, HistoryIsTree
<1>3. FirstChangeSetOnlyAdds'
  BY DEF IInv, FirstChangeSetOnlyAdds
<1> QED
  BY <1>1, <1>2, <1>3

LEMMA FastForwardKeepsIInv ==
    ASSUME IInv, NEW f \in Ref, NEW r \in Ref, NEW u, NEW v, FastForward(f, u, r, v)
    PROVE  IInv'
<1>1. /\ Serving /\ Resolves(f, u) /\ Resolves(r, v)
      /\ fullContent' = [fullContent EXCEPT ![r] = fullContent[f]]
      /\ references' = [references EXCEPT ![r] = Moved(r, v, u)]
      /\ UNCHANGED <<registered, revisions, wasDerivedFrom, changeSets, kind,
                     used, job, content>>
  BY DEF FastForward
<1>2. IsReference(f) /\ IsReference(r) /\ references[f] = {u} /\ references[r] = {v}
  BY <1>1 DEF Resolves
<1>3. TypeOK
  BY DEF IInv
<1>4. u \in revisions /\ u \in Rev /\ fullContent[f] = content[u]
  <2>1. u \in revisions /\ u \in Rev
    BY <1>2, <1>3 DEF IInv, OneLeaf, TypeOK
  <2> QED
    BY <1>2, <2>1 DEF IInv, FullGraphIsLeafContent
<1>5. Moved(r, v, u) = {u}
  BY <1>2 DEF Moved
<1>6. TypeOK'
  BY <1>1, <1>3, <1>4, <1>5 DEF TypeOK
<1>7. UnregisteredIsEmpty'
  BY <1>1 DEF UnregisteredIsEmpty, Serving
<1>8. OneLeaf'
  BY <1>1, <1>3, <1>4, <1>5 DEF IInv, OneLeaf, IsReference, TypeOK
<1>9. FullGraphIsLeafContent'
  <2> SUFFICES ASSUME NEW q \in Ref, NEW w \in Rev, IsReference(q), w \in references'[q]
               PROVE  fullContent'[q] = content[w]
    BY <1>1 DEF FullGraphIsLeafContent, IsReference
  <2>1. CASE q = r
    BY <2>1, <1>1, <1>3, <1>4, <1>5 DEF TypeOK
  <2>2. CASE q # r
    <3>1. references'[q] = references[q] /\ fullContent'[q] = fullContent[q]
      BY <2>2, <1>1, <1>3 DEF TypeOK
    <3> QED
      BY <3>1 DEF IInv, FullGraphIsLeafContent
  <2> QED
    BY <2>1, <2>2
<1>10. RebuildIsExact'
  BY <1>1 DEF RebuildIsExact, Serving
<1> QED
  BY <1>1, <1>6, <1>7, <1>8, <1>9, <1>10, HistoryUnchanged DEF IInv

(***************************************************************************)
(* The steps of a BRANCH or TAG request write only the graph of a          *)
(* reference that does not exist yet.                                      *)
(***************************************************************************)
LEMMA WorkGraphKeepsReferences ==
    ASSUME IInv, NEW r \in Ref, ~ IsReference(r), NEW graph \in SUBSET Triple,
           fullContent' = [fullContent EXCEPT ![r] = graph],
           UNCHANGED <<revisions, kind, references, content>>
    PROVE  OneLeaf' /\ FullGraphIsLeafContent'
<1>1. OneLeaf'
  BY DEF IInv, OneLeaf, IsReference
<1>2. FullGraphIsLeafContent'
  <2> SUFFICES ASSUME NEW q \in Ref, NEW w \in Rev, IsReference(q), w \in references[q]
               PROVE  fullContent'[q] = content[w]
    BY DEF FullGraphIsLeafContent, IsReference
  <2>1. q # r /\ fullContent'[q] = fullContent[q]
    BY DEF IInv, TypeOK
  <2> QED
    BY <2>1 DEF IInv, FullGraphIsLeafContent
<1> QED
  BY <1>1, <1>2

LEMMA BeginReferenceKeepsIInv ==
    ASSUME IInv, NEW k \in {"branch", "tag"}, NEW r \in Name, NEW v, NEW h,
           NEW q \in Ref, BeginReference(k, r, v, h, q)
    PROVE  IInv'
<1>1. /\ Serving
      /\ v \in revisions
      /\ ~ IsReference(r)
      /\ IsReference(q) /\ h \in references[q]
      /\ fullContent' = [fullContent EXCEPT ![r] = fullContent[q]]
      /\ job' = [active |-> TRUE, ref |-> r, kind |-> k, base |-> v, at |-> h]
      /\ UNCHANGED <<registered, revisions, wasDerivedFrom, changeSets, kind,
                     references, used, content>>
  BY DEF BeginReference
<1>2. TypeOK /\ r \in Ref
  BY DEF IInv, Ref
<1>3. v \in Rev /\ h \in revisions /\ h \in Rev
  BY <1>1, <1>2 DEF IInv, OneLeaf, TypeOK
<1>4. fullContent[q] = content[h] /\ fullContent[q] \in SUBSET Triple
  BY <1>1, <1>2, <1>3 DEF IInv, FullGraphIsLeafContent, TypeOK
<1>5. TypeOK'
  <2>1. job' \in Job
    BY <1>1, <1>2, <1>3 DEF Job
  <2> QED
    BY <1>1, <1>2, <1>4, <2>1 DEF TypeOK
<1>6. UnregisteredIsEmpty'
  BY <1>1 DEF UnregisteredIsEmpty, Serving
<1>7. OneLeaf' /\ FullGraphIsLeafContent'
  BY <1>1, <1>2, <1>4, WorkGraphKeepsReferences
<1>8. RebuildIsExact'
  <2>1. job'.ref = r /\ job'.base = v /\ job'.at = h
    BY <1>1
  <2>2. ~ IsReference(r)'
    BY <1>1 DEF IsReference
  <2>3. fullContent'[r] = content'[h]
    BY <1>1, <1>2, <1>4 DEF TypeOK
  <2> QED
    BY <1>1, <1>3, <2>1, <2>2, <2>3 DEF RebuildIsExact, IsReference
<1> QED
  BY <1>1, <1>5, <1>6, <1>7, <1>8, HistoryUnchanged DEF IInv

LEMMA UndoChangeSetKeepsIInv ==
    ASSUME IInv, NEW cs, UndoChangeSet(cs)
    PROVE  IInv'
<1> DEFINE r == job.ref
<1>1. /\ job.active
      /\ cs \in changeSets /\ cs.succ = job.at /\ cs.prior # NoRevision
      /\ fullContent' = [fullContent EXCEPT ![r] = Undone(fullContent[r], cs)]
      /\ job' = [job EXCEPT !.at = cs.prior]
      /\ UNCHANGED <<registered, revisions, wasDerivedFrom, changeSets, kind,
                     references, used, content>>
  BY DEF UndoChangeSet
<1>2. TypeOK /\ r \in Ref /\ job \in Job
  BY DEF IInv, TypeOK, Job
<1>3. /\ ~ IsReference(r)
      /\ job.base \in revisions
      /\ fullContent[r] = content[job.at]
  BY <1>1 DEF IInv, RebuildIsExact
<1>4. cs \in ChangeSet /\ cs.prior \in revisions /\ cs.prior \in Rev
  BY <1>1, <1>2 DEF IInv, HistoryIsTree, TypeOK
<1>5. Undone(fullContent[r], cs) = content[cs.prior]
  BY <1>1, <1>3 DEF IInv, ChangeSetsReplay
<1>6. content[cs.prior] \in SUBSET Triple
  BY <1>2, <1>4 DEF TypeOK
<1>7. /\ job' \in Job
      /\ job'.ref = r /\ job'.base = job.base /\ job'.at = cs.prior /\ job'.active
  BY <1>1, <1>2, <1>4 DEF Job
<1> HIDE DEF r
<1>8. TypeOK'
  BY <1>1, <1>2, <1>5, <1>6, <1>7 DEF TypeOK
<1>9. UnregisteredIsEmpty'
  BY <1>1 DEF IInv, UnregisteredIsEmpty
<1>10. OneLeaf' /\ FullGraphIsLeafContent'
  BY <1>1, <1>2, <1>3, <1>5, <1>6, WorkGraphKeepsReferences
<1>11. RebuildIsExact'
  <2>1. kind'[r] = "none"
    BY <1>1, <1>3 DEF IsReference
  <2>2. fullContent'[r] = content'[cs.prior]
    BY <1>1, <1>2, <1>5 DEF TypeOK
  <2> QED
    BY <1>1, <1>3, <1>4, <1>7, <2>1, <2>2 DEF RebuildIsExact, IsReference
<1> QED
  BY <1>1, <1>8, <1>9, <1>10, <1>11, HistoryUnchanged DEF IInv

LEMMA FinishReferenceKeepsIInv ==
    ASSUME IInv, FinishReference
    PROVE  IInv'
<1>1. /\ job.active /\ job.at = job.base
      /\ kind' = [kind EXCEPT ![job.ref] = job.kind]
      /\ references' = [references EXCEPT ![job.ref] = {job.base}]
      /\ used' = [used EXCEPT ![job.ref] = {job.base}]
      /\ job' = Idle
      /\ UNCHANGED <<registered, revisions, wasDerivedFrom, changeSets,
                     fullContent, content>>
  BY DEF FinishReference
<1>2. TypeOK /\ job \in Job
  BY DEF IInv, TypeOK
<1>3. job.ref \in Ref /\ job.base \in Rev /\ job.kind \in {"branch", "tag"}
  BY <1>2 DEF Job
<1>4. job.base \in revisions /\ fullContent[job.ref] = content[job.base]
  BY <1>1 DEF IInv, RebuildIsExact
<1>5. ~ job'.active /\ job' \in Job
  BY <1>1 DEF Idle, Job, Ref, Rev
<1>6. TypeOK'
  BY <1>1, <1>2, <1>3, <1>5 DEF TypeOK
<1>7. UnregisteredIsEmpty'
  BY <1>1 DEF IInv, UnregisteredIsEmpty
<1>8. OneLeaf'
  <2> SUFFICES ASSUME NEW q \in Ref, kind'[q] # "none"
               PROVE  \E w \in revisions : references'[q] = {w}
    BY <1>1 DEF OneLeaf, IsReference
  <2>1. CASE q = job.ref
    BY <2>1, <1>1, <1>2, <1>3, <1>4 DEF TypeOK
  <2>2. CASE q # job.ref
    <3>1. kind[q] # "none" /\ references'[q] = references[q]
      BY <2>2, <1>1, <1>2 DEF TypeOK
    <3> QED
      BY <3>1 DEF IInv, OneLeaf, IsReference
  <2> QED
    BY <2>1, <2>2
<1>9. FullGraphIsLeafContent'
  <2> SUFFICES ASSUME NEW q \in Ref, NEW w \in Rev, kind'[q] # "none", w \in references'[q]
               PROVE  fullContent[q] = content[w]
    BY <1>1 DEF FullGraphIsLeafContent, IsReference
  <2>1. CASE q = job.ref
    BY <2>1, <1>1, <1>2, <1>4 DEF TypeOK
  <2>2. CASE q # job.ref
    <3>1. kind[q] # "none" /\ w \in references[q]
      BY <2>2, <1>1, <1>2 DEF TypeOK
    <3> QED
      BY <3>1 DEF IInv, FullGraphIsLeafContent, IsReference
  <2> QED
    BY <2>1, <2>2
<1>10. RebuildIsExact'
  BY <1>5 DEF RebuildIsExact
<1> QED
  BY <1>1, <1>6, <1>7, <1>8, <1>9, <1>10, HistoryUnchanged DEF IInv

LEMMA CrashKeepsIInv ==
    ASSUME IInv, Crash
    PROVE  IInv'
<1>1. /\ job' = Idle
      /\ UNCHANGED <<registered, revisions, wasDerivedFrom, changeSets, kind,
                     references, fullContent, used, content>>
  BY DEF Crash
<1>2. ~ job'.active /\ job' \in Job
  BY <1>1 DEF Idle, Job, Ref, Rev
<1>3. TypeOK'
  BY <1>1, <1>2 DEF IInv, TypeOK
<1>4. UnregisteredIsEmpty' /\ RebuildIsExact'
  BY <1>1, <1>2 DEF IInv, UnregisteredIsEmpty, RebuildIsExact, IsReference
<1>5. OneLeaf' /\ FullGraphIsLeafContent'
  BY <1>1 DEF IInv, OneLeaf, FullGraphIsLeafContent, IsReference
<1> QED
  BY <1>1, <1>3, <1>4, <1>5, HistoryUnchanged DEF IInv

LEMMA DropKeepsIInv ==
    ASSUME IInv, Drop
    PROVE  IInv'
<1>1. /\ ~ job.active
      /\ registered' = FALSE
      /\ revisions' = {} /\ wasDerivedFrom' = {} /\ changeSets' = {}
      /\ kind' = [r \in Ref |-> "none"]
      /\ references' = [r \in Ref |-> {}]
      /\ fullContent' = [r \in Ref |-> IF IsReference(r) THEN {} ELSE fullContent[r]]
      /\ used' = [r \in Ref |-> {}]
      /\ content' = [v \in Rev |-> {}]
      /\ UNCHANGED job
  BY DEF Drop, Serving
<1>2. TypeOK'
  BY <1>1 DEF IInv, TypeOK
<1>3. UnregisteredIsEmpty' /\ OneLeaf' /\ FullGraphIsLeafContent' /\ RebuildIsExact'
  BY <1>1 DEF UnregisteredIsEmpty, OneLeaf, FullGraphIsLeafContent, RebuildIsExact, IsReference
<1>4. ChangeSetsReplay' /\ HistoryIsTree' /\ FirstChangeSetOnlyAdds'
  BY <1>1 DEF ChangeSetsReplay, HistoryIsTree, FirstChangeSetOnlyAdds
<1> QED
  BY <1>2, <1>3, <1>4 DEF IInv

LEMMA StutterKeepsIInv ==
    ASSUME IInv, UNCHANGED vars
    PROVE  IInv'
<1>1. TypeOK' /\ UnregisteredIsEmpty' /\ RebuildIsExact'
  BY DEF IInv, TypeOK, UnregisteredIsEmpty, RebuildIsExact, IsReference, vars
<1>2. OneLeaf' /\ FullGraphIsLeafContent'
  BY DEF IInv, OneLeaf, FullGraphIsLeafContent, IsReference, vars
<1> QED
  BY <1>1, <1>2, HistoryUnchanged DEF IInv, vars

(***************************************************************************)
(* The invariant.                                                          *)
(***************************************************************************)
LEMMA InitIInv == Init => IInv
<1> SUFFICES ASSUME Init
             PROVE  IInv
  OBVIOUS
<1>1. TypeOK
  <2>1. job \in Job
    BY DEF Init, Idle, Job, Ref, Rev
  <2> QED
    BY <2>1 DEF Init, TypeOK
<1>2. UnregisteredIsEmpty /\ OneLeaf /\ FullGraphIsLeafContent /\ RebuildIsExact
  BY DEF Init, UnregisteredIsEmpty, OneLeaf, FullGraphIsLeafContent,
         RebuildIsExact, IsReference, Idle
<1>3. ChangeSetsReplay /\ HistoryIsTree /\ FirstChangeSetOnlyAdds
  BY DEF Init, ChangeSetsReplay, HistoryIsTree, FirstChangeSetOnlyAdds
<1> QED
  BY <1>1, <1>2, <1>3 DEF IInv

LEMMA NextKeepsIInv == IInv /\ [Next]_vars => IInv'
<1> SUFFICES ASSUME IInv, [Next]_vars
             PROVE  IInv'
  OBVIOUS
<1>1. ASSUME NEW add \in SUBSET Triple, Create(add)
      PROVE  IInv'
  BY <1>1, CreateKeepsIInv
<1>2. CASE CommitRequest
  <2> SUFFICES ASSUME NEW r \in Ref, NEW n \in Rev, NEW v \in references[r],
                      \/ \E add, del \in SUBSET Triple : Update(r, v, n, add, del)
                      \/ UpdateRejected(r, v, n)
                      \/ \E cs \in changeSets : Revert(r, v, n, cs)
               PROVE  IInv'
    BY <1>2 DEF CommitRequest
  <2>1. ASSUME NEW add \in SUBSET Triple, NEW del \in SUBSET Triple,
               Update(r, v, n, add, del)
        PROVE  IInv'
    BY <2>1, UpdateKeepsIInv
  <2>2. CASE UpdateRejected(r, v, n)
    BY <2>2, UpdateRejectedKeepsIInv
  <2>3. ASSUME NEW cs \in changeSets, Revert(r, v, n, cs)
        PROVE  IInv'
    BY <2>3, RevertKeepsIInv
  <2> QED
    BY <2>1, <2>2, <2>3
<1>3. CASE ReferenceRequest
  <2> SUFFICES ASSUME NEW k \in {"branch", "tag"}, NEW r \in Name, NEW v \in revisions,
                      NEW q \in Ref, NEW h \in references[q], BeginReference(k, r, v, h, q)
               PROVE  IInv'
    BY <1>3 DEF ReferenceRequest
  <2> QED
    BY BeginReferenceKeepsIInv
<1>4. CASE MergeRequest
  BY <1>4, FastForwardKeepsIInv DEF MergeRequest
<1>5. CASE Undo
  BY <1>5, UndoChangeSetKeepsIInv DEF Undo
<1>6. CASE FinishReference
  BY <1>6, FinishReferenceKeepsIInv
<1>7. CASE Crash
  BY <1>7, CrashKeepsIInv
<1>8. CASE Drop
  BY <1>8, DropKeepsIInv
<1>9. CASE UNCHANGED vars
  BY <1>9, StutterKeepsIInv
<1> QED
  BY <1>1, <1>2, <1>3, <1>4, <1>5, <1>6, <1>7, <1>8, <1>9 DEF Next

\* The inductive invariant holds of every state a graph can reach.
THEOREM Invariant == Spec => []IInv
<1>1. Init => IInv
  BY InitIInv
<1>2. IInv /\ [Next]_vars => IInv'
  BY NextKeepsIInv
<1> QED
  BY <1>1, <1>2, PTL DEF Spec

\* Every variable keeps its type.
THEOREM TypeCorrect == Spec => []TypeOK
<1>1. IInv => TypeOK
  BY DEF IInv
<1> QED
  BY <1>1, Invariant, PTL

\* Every reference points to exactly one existing revision.
THEOREM OneLeafAlways == Spec => []OneLeaf
<1>1. IInv => OneLeaf
  BY DEF IInv
<1> QED
  BY <1>1, Invariant, PTL

\* The full graph of a reference is the content of its revision.
THEOREM FullGraphIsExact == Spec => []FullGraphIsLeafContent
<1>1. IInv => FullGraphIsLeafContent
  BY DEF IInv
<1> QED
  BY <1>1, Invariant, PTL

\* Change sets lead from revision to revision and, undone, back.
THEOREM HistoryReplays == Spec => []ChangeSetsReplay
<1>1. IInv => ChangeSetsReplay
  BY DEF IInv
<1> QED
  BY <1>1, Invariant, PTL

\* The history is a tree whose edges and change sets agree.
THEOREM HistoryGrowsAsTree == Spec => []HistoryIsTree
<1>1. IInv => HistoryIsTree
  BY DEF IInv
<1> QED
  BY <1>1, Invariant, PTL

\* A rebuild holds, after every step, the content of the revision it is at.
THEOREM RebuildAlwaysExact == Spec => []RebuildIsExact
<1>1. IInv => RebuildIsExact
  BY DEF IInv
<1> QED
  BY <1>1, Invariant, PTL

(***************************************************************************)
(* While the graph stays registered, its history only grows.               *)
(***************************************************************************)
HistoryGrows ==
    registered' => /\ revisions \subseteq revisions'
                   /\ changeSets \subseteq changeSets'
                   /\ \A v \in revisions : content'[v] = content[v]

LEMMA NextKeepsHistory ==
    ASSUME IInv, [Next]_vars
    PROVE  HistoryGrows
<1>1. ASSUME NEW add \in SUBSET Triple, Create(add)
      PROVE  HistoryGrows
  BY <1>1 DEF IInv, UnregisteredIsEmpty, Create, HistoryGrows
<1>2. ASSUME NEW n, NEW v, NEW add, NEW del, NEW after, IsNextRevision(n),
             AddRevision(n, v, add, del), content' = [content EXCEPT ![n] = after]
      PROVE  HistoryGrows
  <2>1. n \notin revisions
    BY <1>2 DEF IsNextRevision, Rev
  <2>2. \A w \in revisions : content'[w] = content[w]
    BY <1>2, <2>1 DEF IInv, TypeOK
  <2> QED
    BY <1>2, <2>2 DEF AddRevision, HistoryGrows
<1>3. CASE CommitRequest
  <2> SUFFICES ASSUME NEW r \in Ref, NEW n \in Rev, NEW v \in references[r],
                      \/ \E add, del \in SUBSET Triple : Update(r, v, n, add, del)
                      \/ UpdateRejected(r, v, n)
                      \/ \E cs \in changeSets : Revert(r, v, n, cs)
               PROVE  HistoryGrows
    BY <1>3 DEF CommitRequest
  <2>1. ASSUME NEW add \in SUBSET Triple, NEW del \in SUBSET Triple,
               Update(r, v, n, add, del)
        PROVE  HistoryGrows
    BY <2>1, <1>2 DEF Update, Commit
  <2>2. CASE UpdateRejected(r, v, n)
    BY <2>2, <1>2 DEF UpdateRejected
  <2>3. ASSUME NEW cs \in changeSets, Revert(r, v, n, cs)
        PROVE  HistoryGrows
    BY <2>3, <1>2 DEF Revert, Commit
  <2> QED
    BY <2>1, <2>2, <2>3
<1>4. CASE ReferenceRequest
  BY <1>4 DEF ReferenceRequest, BeginReference, HistoryGrows
<1>5. CASE MergeRequest
  BY <1>5 DEF MergeRequest, FastForward, HistoryGrows
<1>6. CASE Undo \/ FinishReference \/ Crash
  BY <1>6 DEF Undo, UndoChangeSet, FinishReference, Crash, HistoryGrows
<1>7. CASE Drop
  BY <1>7 DEF Drop, HistoryGrows
<1>8. CASE UNCHANGED vars
  BY <1>8 DEF vars, HistoryGrows
<1> QED
  BY <1>1, <1>3, <1>4, <1>5, <1>6, <1>7, <1>8 DEF Next

\* No step changes what is recorded of an existing revision.
THEOREM HistoryNeverRewritten == Spec => HistoryIsKept
<1>1. IInv /\ [Next]_vars =>
         [registered' => /\ changeSets \subseteq changeSets'
                         /\ \A v \in revisions : content'[v] = content[v]]_vars
  BY NextKeepsHistory DEF HistoryGrows
<1> QED
  BY <1>1, Invariant, PTL DEF Spec, HistoryIsKept

\* REVERT brings back the content of the revision before the leaf.
THEOREM RevertIsExact == Spec => RevertRestores
<1>1. ASSUME IInv, NEW r \in Ref, NEW n \in Rev, NEW cs \in changeSets,
             Revert(r, cs.succ, n, cs), cs.prior # NoRevision
      PROVE  fullContent'[r] = content[cs.prior]
  <2>1. /\ Resolves(r, cs.succ) /\ IsNextRevision(n)
        /\ fullContent' = [fullContent EXCEPT ![r] =
                              Applied(fullContent[r], cs.del, cs.add)]
    BY <1>1 DEF Revert, Commit
  <2>2. fullContent[r] = content[cs.succ]
    BY <1>1, <2>1, CommitFinds
  <2>3. Applied(content[cs.succ], cs.del, cs.add) = content[cs.prior]
    BY <1>1 DEF IInv, ChangeSetsReplay, Applied, Undone
  <2> QED
    BY <1>1, <2>1, <2>2, <2>3 DEF IInv, TypeOK
<1>2. IInv => \A r \in Ref, n \in Rev, cs \in changeSets :
                 Revert(r, cs.succ, n, cs) /\ cs.prior # NoRevision =>
                    fullContent'[r] = content[cs.prior]
  BY <1>1
<1> QED
  BY <1>2, Invariant, PTL DEF RevertRestores

\* An update does to its branch what it says, but for a triple of the branch
\* that it both inserts and deletes, which goes.
THEOREM UpdateIsExact == Spec => UpdateTakesEffect
<1>1. ASSUME IInv, NEW r \in Ref, NEW n \in Rev, NEW v \in references[r],
             NEW add \in SUBSET Triple, NEW del \in SUBSET Triple,
             Update(r, v, n, add, del)
      PROVE  fullContent'[r] = ((fullContent[r] \ del) \cup add)
                                  \ (add \cap del \cap fullContent[r])
  <2>1. fullContent' = [fullContent EXCEPT ![r] =
           Applied(fullContent[r], StrippedAdd(r, add), StrippedDel(r, del))]
    BY <1>1 DEF Update, Commit
  <2>2. fullContent'[r] = (fullContent[r] \cup (add \ fullContent[r])) \ (del \cap fullContent[r])
    BY <1>1, <2>1 DEF IInv, TypeOK, Applied, StrippedAdd, StrippedDel
  <2> QED
    BY <2>2
<1>2. IInv => \A r \in Ref, n \in Rev, add, del \in SUBSET Triple : \A v \in references[r] :
                 Update(r, v, n, add, del) =>
                    fullContent'[r] = ((fullContent[r] \ del) \cup add)
                                         \ (add \cap del \cap fullContent[r])
  BY <1>1
<1> QED
  BY <1>2, Invariant, PTL DEF UpdateTakesEffect

(***************************************************************************)
(* A reference stays found.  Its identifier is given up in two ways only:  *)
(* to a new revision, which IsNextRevision excludes, or to another         *)
(* reference.                                                              *)
(***************************************************************************)
StaysFound(r) ==
    \/ IsFound(r)'
    \/ \E q \in Ref \ {r} : Identifier(q) = Identifier(r) /\ kind'[q] # kind[q]

LEMMA FoundStaysFound ==
    ASSUME NEW r \in Ref, IsFound(r), UNCHANGED kind,
           NEW w \in Rev, references'[r] = {w},
           Identifier(r) \notin revisions'
    PROVE  IsFound(r)'
<1>1. IsReference(r)
  BY DEF IsFound, Resolves
<1>2. \A q \in Ref \ {r} : IsReference(q) => Identifier(q) # Identifier(r)
  BY DEF IsFound, Resolves
<1>3. \A q \in Ref : IsReference(q)' <=> IsReference(q)
  BY DEF IsReference
<1> QED
  BY <1>1, <1>2, <1>3 DEF IsFound, Resolves, Identifier

LEMMA CommitKeepsFound ==
    ASSUME IInv, NEW r \in Ref, IsFound(r), UNCHANGED kind,
           NEW q \in Ref, NEW v, NEW n \in Rev,
           Resolves(q, v), IsNextRevision(n), revisions' = revisions \cup {n},
           references' \in {references, [references EXCEPT ![q] = Moved(q, v, n)]}
    PROVE  IsFound(r)'
<1>1. PICK u \in Rev : Resolves(r, u)
  BY DEF IsFound
<1>2. references[r] = {u} /\ Identifier(r) \notin revisions /\ IsReference(r)
  BY <1>1 DEF Resolves
<1>3. Identifier(r) # n
  BY <1>2 DEF IsNextRevision, IsIdentifierOfReference
<1>4. Moved(q, v, n) = {n}
  BY DEF Moved, Resolves
<1>5. \E w \in Rev : references'[r] = {w}
  BY <1>2, <1>4 DEF IInv, TypeOK
<1> QED
  BY <1>2, <1>3, <1>5, FoundStaysFound

LEMMA NextKeepsFound ==
    ASSUME IInv, [Next]_vars, NEW r \in Ref, IsFound(r), registered'
    PROVE  StaysFound(r)
<1>1. PICK u \in Rev : Resolves(r, u)
  BY DEF IsFound
<1>2. references[r] = {u} /\ Identifier(r) \notin revisions /\ IsReference(r)
  BY <1>1 DEF Resolves
<1>3. ASSUME NEW add \in SUBSET Triple, Create(add)
      PROVE  StaysFound(r)
  BY <1>2, <1>3 DEF IInv, UnregisteredIsEmpty, Create
<1>4. CASE CommitRequest
  <2> SUFFICES ASSUME NEW q \in Ref, NEW n \in Rev, NEW v \in references[q],
                      \/ \E add, del \in SUBSET Triple : Update(q, v, n, add, del)
                      \/ UpdateRejected(q, v, n)
                      \/ \E cs \in changeSets : Revert(q, v, n, cs)
               PROVE  StaysFound(r)
    BY <1>4 DEF CommitRequest
  <2>1. ASSUME NEW add \in SUBSET Triple, NEW del \in SUBSET Triple,
               Update(q, v, n, add, del)
        PROVE  IsFound(r)'
    BY <2>1, CommitKeepsFound DEF Update, Commit, AddRevision
  <2>2. ASSUME UpdateRejected(q, v, n)
        PROVE  IsFound(r)'
    BY <2>2, CommitKeepsFound DEF UpdateRejected, AddRevision
  <2>3. ASSUME NEW cs \in changeSets, Revert(q, v, n, cs)
        PROVE  IsFound(r)'
    BY <2>3, CommitKeepsFound DEF Revert, Commit, AddRevision
  <2> QED
    BY <2>1, <2>2, <2>3 DEF StaysFound
<1>5. ASSUME UNCHANGED <<kind, references, revisions>>
      PROVE  StaysFound(r)
  BY <1>2, <1>5, FoundStaysFound DEF StaysFound
<1>6. CASE ReferenceRequest
  BY <1>5, <1>6 DEF ReferenceRequest, BeginReference
<1>7. CASE MergeRequest
  <2> SUFFICES ASSUME NEW f \in Ref, NEW q \in Ref, NEW w \in references[f],
                      NEW v \in references[q], FastForward(f, w, q, v)
               PROVE  StaysFound(r)
    BY <1>7 DEF MergeRequest
  <2>2. /\ Resolves(q, v) /\ UNCHANGED <<kind, revisions>>
        /\ references' = [references EXCEPT ![q] = Moved(q, v, w)]
    BY DEF FastForward
  <2>3. Moved(q, v, w) = {w} /\ w \in Rev
    BY <2>2 DEF Moved, Resolves, IInv, TypeOK
  <2>4. \E x \in Rev : references'[r] = {x}
    BY <1>2, <2>2, <2>3 DEF IInv, TypeOK
  <2> QED
    BY <1>2, <2>2, <2>4, FoundStaysFound DEF StaysFound
<1>8. CASE Undo \/ Crash \/ UNCHANGED vars
  BY <1>5, <1>8 DEF Undo, UndoChangeSet, Crash, vars
<1>9. CASE FinishReference
  <2>1. /\ job.ref \in Ref /\ ~ IsReference(job.ref)
        /\ UNCHANGED revisions
        /\ kind' = [kind EXCEPT ![job.ref] = job.kind]
        /\ references' = [references EXCEPT ![job.ref] = {job.base}]
    BY <1>9 DEF FinishReference, IInv, RebuildIsExact, TypeOK, Job
  <2>2. job.ref # r /\ kind'[job.ref] # kind[job.ref]
    <3>1. kind'[job.ref] = job.kind /\ job.kind # "none" /\ kind[job.ref] = "none"
      BY <2>1 DEF IInv, TypeOK, Job, IsReference
    <3> QED
      BY <1>2, <2>1, <3>1
  <2>3. CASE Identifier(job.ref) = Identifier(r)
    BY <2>1, <2>2, <2>3 DEF StaysFound
  <2>4. CASE Identifier(job.ref) # Identifier(r)
    <3>1. \A q \in Ref \ {job.ref} : kind'[q] = kind[q] /\ references'[q] = references[q]
      BY <2>1 DEF IInv, TypeOK
    <3>2. IsReference(r)' /\ references'[r] = {u} /\ Identifier(r) \notin revisions'
      BY <1>2, <2>1, <2>2, <3>1 DEF IsReference
    <3>3. \A q \in Ref \ {r} : IsReference(q)' => Identifier(q) # Identifier(r)
      BY <1>1, <2>4, <3>1 DEF IsReference, Resolves
    <3> QED
      BY <3>2, <3>3 DEF StaysFound, IsFound, Resolves, Identifier
  <2> QED
    BY <2>3, <2>4
<1>10. CASE Drop
  BY <1>10 DEF Drop
<1> QED
  BY <1>3, <1>4, <1>6, <1>7, <1>8, <1>9, <1>10 DEF Next

\* No request puts a reference out of reach, unless it drops the graph or
\* makes another reference with the same identifier.
THEOREM ReferencesNeverLost == Spec => ReferencesStayFound
<1>1. IInv /\ [Next]_vars => \A r \in Ref : IsFound(r) /\ registered' => StaysFound(r)
  BY NextKeepsFound
<1>2. IInv /\ [Next]_vars =>
         [\A r \in Ref : IsFound(r) /\ registered' =>
             \/ IsFound(r)'
             \/ \E q \in Ref \ {r} :
                   Identifier(q) = Identifier(r) /\ kind'[q] # kind[q]]_vars
  BY <1>1 DEF StaysFound
<1> QED
  BY <1>2, Invariant, PTL DEF Spec, ReferencesStayFound
=============================================================================
