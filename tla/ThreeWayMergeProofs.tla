------------------------- MODULE ThreeWayMergeProofs -------------------------
(***************************************************************************)
(* Theorems about ThreeWayMerge, for every set of triples, names, updates  *)
(* and merge types and every number of revisions: the merge visits only    *)
(* revisions of the graph, its progresses are exact, the merged graph is   *)
(* what the definitions say, and the history it leaves replays.            *)
(***************************************************************************)
EXTENDS ThreeWayMerge, TLAPS

USE BoundAssumption, NameAssumption, MasterRefAssumption

(***************************************************************************)
(* What holds whatever merges have been decided: the metadata and the      *)
(* requests name only revisions of the graph.  (The history is no tree: a  *)
(* merged revision has two change sets.)                                   *)
(***************************************************************************)
ChangeSetsKnown ==
    \A cs \in changeSets : /\ cs.succ \in revisions
                           /\ cs.prior # NoRevision => cs.prior \in revisions

JobKnown ==
    job.active => /\ ~ IsReference(job.ref)
                  /\ {job.base, job.at} \subseteq revisions

MergeRecord ==
    [stage: Stage, from: Ref, into: Ref, source: Rev, target: Rev, common: Rev,
     type: MergeType, given: SUBSET Triple, at: Rev, base: SUBSET Triple,
     progressFrom: Progress, progressInto: Progress,
     differences: SUBSET (SDG \X Triple), groups: SUBSET SDG,
     adds: SUBSET Triple, dels: SUBSET Triple, merged: SUBSET Triple]

\* A merge is served alone, between two branches that stay where they are.
MergeKnown ==
    Merging => /\ {merge.source, merge.target, merge.common, merge.at} \subseteq revisions
               /\ Serving
               /\ IsReference(merge.from) /\ references[merge.from] = {merge.source}
               /\ IsReference(merge.into) /\ references[merge.into] = {merge.target}

MetaInv ==
    /\ TypeOK
    /\ UnregisteredIsEmpty
    /\ OneLeaf
    /\ ChangeSetsKnown
    /\ JobKnown

KnownInv ==
    /\ MetaInv
    /\ decided \subseteq revisions
    /\ merge \in MergeRecord
    /\ MergeKnown

-----------------------------------------------------------------------------
LEMMA CommitFindsLeaf ==
    ASSUME MetaInv, NEW r \in Ref, NEW v, NEW n, Resolves(r, v), IsNextRevision(n)
    PROVE  /\ v \in revisions /\ v \in Rev /\ n \in Rev
           /\ IsReference(r)
           /\ references[r] = {v}
           /\ n \notin revisions
<1>1. references[r] = {v} /\ IsReference(r)
  BY DEF Resolves
<1>2. \E w \in revisions : references[r] = {w}
  BY <1>1 DEF MetaInv, OneLeaf
<1>3. v \in revisions /\ v \in Rev
  BY <1>1, <1>2 DEF MetaInv, TypeOK
<1>4. n \in Rev /\ \A w \in revisions : w < n
  BY DEF IsNextRevision
<1>5. n \notin revisions
  BY <1>4 DEF Rev
<1> QED
  BY <1>1, <1>3, <1>4, <1>5

\* The parts of the invariant that a new revision with one change set concerns.
LEMMA AddRevisionKeepsMeta ==
    ASSUME MetaInv, NEW v \in revisions, NEW n \in Rev,
           NEW add \in SUBSET Triple, NEW del \in SUBSET Triple,
           NEW after \in SUBSET Triple,
           AddRevision(n, v, add, del), content' = [content EXCEPT ![n] = after]
    PROVE  /\ revisions' = revisions \cup {n}
           /\ changeSets' = changeSets \cup
                 {[prior |-> v, succ |-> n, add |-> add, del |-> del]}
           /\ revisions' \subseteq Rev
           /\ wasDerivedFrom' \subseteq Rev \X Rev
           /\ changeSets' \subseteq ChangeSet
           /\ content' \in [Rev -> SUBSET Triple]
           /\ ChangeSetsKnown'
<1> DEFINE cs == [prior |-> v, succ |-> n, add |-> add, del |-> del]
<1>1. TypeOK /\ v \in Rev
  BY DEF MetaInv, TypeOK
<1>2. NoRevision \notin Rev
  BY DEF NoRevision, Rev
<1>3. /\ revisions' = revisions \cup {n}
      /\ wasDerivedFrom' = wasDerivedFrom \cup {<<n, v>>}
      /\ changeSets' = changeSets \cup {cs}
  BY <1>1, <1>2 DEF AddRevision
<1>4. cs \in ChangeSet
  BY <1>1 DEF ChangeSet
<1>5. cs.succ = n /\ cs.prior = v
  OBVIOUS
<1>6. ChangeSetsKnown'
  <2> HIDE DEF cs
  <2> QED
    BY <1>3, <1>5 DEF MetaInv, ChangeSetsKnown
<1> QED
  BY <1>1, <1>3, <1>4, <1>6 DEF TypeOK

LEMMA CommitKeepsMeta ==
    ASSUME MetaInv, Serving, NEW r \in Ref, NEW v, NEW n,
           NEW add \in SUBSET Triple, NEW del \in SUBSET Triple,
           Resolves(r, v), IsNextRevision(n), Commit(r, v, n, add, del)
    PROVE  MetaInv'
<1> DEFINE after == Applied(fullContent[r], add, del)
<1>1. /\ v \in revisions /\ v \in Rev /\ n \in Rev /\ IsReference(r)
      /\ references[r] = {v} /\ n \notin revisions
  BY CommitFindsLeaf
<1>2. TypeOK /\ after \in SUBSET Triple
  BY DEF MetaInv, TypeOK, Applied
<1>3. references' = [references EXCEPT ![r] = {n}]
  <2>1. Moved(r, v, n) = {n}
    BY <1>1 DEF Moved
  <2> QED
    BY <2>1 DEF Commit
<1>4. /\ AddRevision(n, v, add, del)
      /\ fullContent' = [fullContent EXCEPT ![r] = after]
      /\ content' = [content EXCEPT ![n] = after]
      /\ UNCHANGED <<registered, kind, used, job>>
  BY DEF Commit
<1> HIDE DEF after
<1>5. /\ revisions' = revisions \cup {n}
      /\ revisions' \subseteq Rev
      /\ wasDerivedFrom' \subseteq Rev \X Rev
      /\ changeSets' \subseteq ChangeSet
      /\ content' \in [Rev -> SUBSET Triple]
      /\ ChangeSetsKnown'
  BY <1>1, <1>2, <1>4, AddRevisionKeepsMeta
<1>6. TypeOK'
  BY <1>1, <1>2, <1>3, <1>4, <1>5 DEF TypeOK
<1>7. UnregisteredIsEmpty' /\ JobKnown'
  BY <1>4 DEF UnregisteredIsEmpty, JobKnown, Serving
<1>8. OneLeaf'
  BY <1>1, <1>2, <1>3, <1>4, <1>5 DEF MetaInv, OneLeaf, IsReference, TypeOK
<1> QED
  BY <1>5, <1>6, <1>7, <1>8 DEF MetaInv

LEMMA UpdateRejectedKeepsMeta ==
    ASSUME MetaInv, NEW r \in Ref, NEW v, NEW n, UpdateRejected(r, v, n)
    PROVE  MetaInv'
<1>1. /\ Serving /\ Resolves(r, v) /\ IsNextRevision(n)
      /\ AddRevision(n, v, {}, {})
      /\ content' = [content EXCEPT ![n] = content[v]]
      /\ UNCHANGED <<registered, kind, references, fullContent, used, job>>
  BY DEF UpdateRejected
<1>2. v \in revisions /\ v \in Rev /\ n \in Rev
  BY <1>1, CommitFindsLeaf
<1>3. TypeOK /\ content[v] \in SUBSET Triple
  BY <1>2 DEF MetaInv, TypeOK
<1>4. /\ revisions' = revisions \cup {n}
      /\ revisions' \subseteq Rev
      /\ wasDerivedFrom' \subseteq Rev \X Rev
      /\ changeSets' \subseteq ChangeSet
      /\ content' \in [Rev -> SUBSET Triple]
      /\ ChangeSetsKnown'
  BY <1>1, <1>2, <1>3, AddRevisionKeepsMeta
<1>5. TypeOK'
  BY <1>1, <1>3, <1>4 DEF TypeOK
<1>6. UnregisteredIsEmpty' /\ JobKnown'
  BY <1>1 DEF UnregisteredIsEmpty, JobKnown, Serving
<1>7. OneLeaf'
  BY <1>1, <1>4 DEF MetaInv, OneLeaf, IsReference
<1> QED
  BY <1>4, <1>5, <1>6, <1>7 DEF MetaInv

LEMMA CreateKeepsMeta ==
    ASSUME MetaInv, NEW add \in SUBSET Triple, Create(add)
    PROVE  MetaInv'
<1> DEFINE cs == [prior |-> NoRevision, succ |-> 0, add |-> add, del |-> {}]
<1>1. /\ revisions = {} /\ changeSets = {} /\ wasDerivedFrom = {}
      /\ \A r \in Ref : ~ IsReference(r)
      /\ ~ job.active
  BY DEF MetaInv, UnregisteredIsEmpty, Create
<1>2. TypeOK
  BY DEF MetaInv
<1>3. /\ revisions' = {0} /\ wasDerivedFrom' = {} /\ changeSets' = {cs}
      /\ registered' = TRUE
      /\ kind' = [kind EXCEPT ![MasterRef] = "master"]
      /\ references' = [references EXCEPT ![MasterRef] = {0}]
      /\ fullContent' = [fullContent EXCEPT ![MasterRef] = add]
      /\ content' = [content EXCEPT ![0] = add]
      /\ UNCHANGED <<used, job>>
  BY <1>1 DEF Create, AddRevision, Applied
<1>4. MasterRef \in Ref /\ 0 \in Rev /\ NoRevision \notin Rev
  BY DEF Ref, Rev, NoRevision
<1>5. cs \in ChangeSet
  BY <1>4 DEF ChangeSet
<1>6. TypeOK'
  BY <1>2, <1>3, <1>4, <1>5 DEF TypeOK
<1>7. UnregisteredIsEmpty' /\ ChangeSetsKnown' /\ JobKnown'
  BY <1>1, <1>3 DEF UnregisteredIsEmpty, ChangeSetsKnown, JobKnown
<1>8. OneLeaf'
  BY <1>1, <1>2, <1>3, <1>4 DEF OneLeaf, IsReference, TypeOK
<1> QED
  BY <1>6, <1>7, <1>8 DEF MetaInv

LEMMA FastForwardKeepsMeta ==
    ASSUME MetaInv, NEW f \in Ref, NEW r \in Ref, NEW u, NEW v, FastForward(f, u, r, v)
    PROVE  MetaInv'
<1>1. /\ Serving /\ Resolves(f, u) /\ Resolves(r, v)
      /\ fullContent' = [fullContent EXCEPT ![r] = fullContent[f]]
      /\ references' = [references EXCEPT ![r] = Moved(r, v, u)]
      /\ UNCHANGED <<registered, revisions, wasDerivedFrom, changeSets, kind,
                     used, job, content>>
  BY DEF FastForward
<1>2. IsReference(f) /\ references[f] = {u} /\ references[r] = {v}
  BY <1>1 DEF Resolves
<1>3. TypeOK /\ u \in revisions /\ u \in Rev /\ Moved(r, v, u) = {u}
  BY <1>2 DEF MetaInv, OneLeaf, TypeOK, Moved
<1>4. TypeOK'
  BY <1>1, <1>3 DEF TypeOK
<1>5. UnregisteredIsEmpty' /\ ChangeSetsKnown' /\ JobKnown'
  BY <1>1 DEF MetaInv, UnregisteredIsEmpty, ChangeSetsKnown, JobKnown, Serving
<1>6. OneLeaf'
  BY <1>1, <1>3 DEF MetaInv, OneLeaf, IsReference, TypeOK
<1> QED
  BY <1>4, <1>5, <1>6 DEF MetaInv

LEMMA ReferenceStepsKeepMeta ==
    ASSUME MetaInv,
           \/ \E k \in {"branch", "tag"}, r \in Name, v \in revisions, q \in Ref :
                 \E h \in references[q] : BeginReference(k, r, v, h, q)
           \/ Undo
           \/ FinishReference
    PROVE  MetaInv'
<1>1. TypeOK /\ job \in Job
  BY DEF MetaInv, TypeOK
<1>2. ASSUME NEW k \in {"branch", "tag"}, NEW r \in Name, NEW v \in revisions, NEW q \in Ref,
             NEW h \in references[q], BeginReference(k, r, v, h, q)
      PROVE  MetaInv'
  <2>1. /\ Serving /\ ~ IsReference(r) /\ IsReference(q)
        /\ fullContent' = [fullContent EXCEPT ![r] = fullContent[q]]
        /\ job' = [active |-> TRUE, ref |-> r, kind |-> k, base |-> v, at |-> h]
        /\ UNCHANGED <<registered, revisions, wasDerivedFrom, changeSets, kind,
                       references, used, content>>
    BY <1>2 DEF BeginReference
  <2>2. r \in Ref /\ v \in Rev /\ h \in revisions /\ h \in Rev
    BY <1>1, <1>2, <2>1 DEF MetaInv, OneLeaf, TypeOK, Ref
  <2>3. job' \in Job
    BY <2>1, <2>2 DEF Job
  <2>4. TypeOK'
    BY <1>1, <2>1, <2>2, <2>3 DEF TypeOK
  <2>5. UnregisteredIsEmpty' /\ ChangeSetsKnown' /\ JobKnown' /\ OneLeaf'
    BY <2>1, <2>2 DEF MetaInv, UnregisteredIsEmpty, ChangeSetsKnown, JobKnown, Serving, OneLeaf,
       IsReference
  <2> QED
    BY <2>4, <2>5 DEF MetaInv
<1>3. ASSUME NEW cs \in changeSets, UndoChangeSet(cs)
      PROVE  MetaInv'
  <2>1. /\ job.active /\ cs.prior # NoRevision
        /\ fullContent' = [fullContent EXCEPT ![job.ref] = Undone(fullContent[job.ref], cs)]
        /\ job' = [job EXCEPT !.at = cs.prior]
        /\ UNCHANGED <<registered, revisions, wasDerivedFrom, changeSets, kind,
                       references, used, content>>
    BY <1>3 DEF UndoChangeSet
  <2>2. cs \in ChangeSet /\ cs.prior \in revisions /\ cs.prior \in Rev
    BY <1>1, <1>3, <2>1 DEF MetaInv, ChangeSetsKnown, TypeOK
  <2>3. /\ job' \in Job
        /\ job'.ref = job.ref /\ job'.base = job.base /\ job'.at = cs.prior /\ job'.active
    BY <1>1, <2>1, <2>2 DEF Job
  <2>4. Undone(fullContent[job.ref], cs) \in SUBSET Triple
    BY <1>1, <2>2 DEF TypeOK, Job, ChangeSet, Undone
  <2>5. TypeOK'
    BY <1>1, <2>1, <2>3, <2>4 DEF TypeOK
  <2>6. UnregisteredIsEmpty' /\ ChangeSetsKnown' /\ JobKnown' /\ OneLeaf'
    BY <2>1, <2>2, <2>3 DEF MetaInv, UnregisteredIsEmpty, ChangeSetsKnown, JobKnown, OneLeaf,
       IsReference
  <2> QED
    BY <2>5, <2>6 DEF MetaInv
<1>4. CASE FinishReference
  <2>1. /\ job.active
        /\ kind' = [kind EXCEPT ![job.ref] = job.kind]
        /\ references' = [references EXCEPT ![job.ref] = {job.base}]
        /\ used' = [used EXCEPT ![job.ref] = {job.base}]
        /\ job' = Idle
        /\ UNCHANGED <<registered, revisions, wasDerivedFrom, changeSets,
                       fullContent, content>>
    BY <1>4 DEF FinishReference
  <2>2. job.ref \in Ref /\ job.base \in Rev /\ job.kind \in {"branch", "tag"}
    BY <1>1 DEF Job
  <2>3. job.base \in revisions
    BY <2>1 DEF MetaInv, JobKnown
  <2>4. ~ job'.active /\ job' \in Job
    BY <2>1 DEF Idle, Job, Ref, Rev
  <2>5. TypeOK'
    BY <1>1, <2>1, <2>2, <2>4 DEF TypeOK
  <2>6. UnregisteredIsEmpty' /\ ChangeSetsKnown' /\ JobKnown'
    BY <2>1, <2>4 DEF MetaInv, UnregisteredIsEmpty, ChangeSetsKnown, JobKnown
  <2>7. OneLeaf'
    BY <1>1, <2>1, <2>2, <2>3 DEF MetaInv, OneLeaf, IsReference, TypeOK
  <2> QED
    BY <2>5, <2>6, <2>7 DEF MetaInv
<1> QED
  BY <1>2, <1>3, <1>4 DEF Undo

LEMMA DropKeepsMeta == ASSUME MetaInv, Drop PROVE MetaInv'
<1>1. /\ ~ job.active
      /\ registered' = FALSE
      /\ revisions' = {} /\ wasDerivedFrom' = {} /\ changeSets' = {}
      /\ kind' = [r \in Ref |-> "none"]
      /\ references' = [r \in Ref |-> {}]
      /\ fullContent' = [r \in Ref |-> IF IsReference(r) THEN {} ELSE fullContent[r]]
      /\ used' = [r \in Ref |-> {}]
      /\ content' = [v \in Rev |-> {}]
      /\ UNCHANGED job
  BY DEF Drop, Serving
<1>2. TypeOK'
  BY <1>1 DEF MetaInv, TypeOK
<1> QED
  BY <1>1, <1>2 DEF MetaInv, UnregisteredIsEmpty, OneLeaf, ChangeSetsKnown, JobKnown, IsReference

LEMMA StutterKeepsMeta == ASSUME MetaInv, UNCHANGED vars PROVE MetaInv'
BY DEF MetaInv, TypeOK, UnregisteredIsEmpty, OneLeaf, ChangeSetsKnown, JobKnown, IsReference, vars

\* The requests between merges: none of them meets a merge that is served.
LEMMA OtherRequestKeepsMeta == ASSUME MetaInv, OtherRequest PROVE MetaInv'
<1>1. ASSUME NEW add \in SUBSET Triple, Create(add)
      PROVE  MetaInv'
  BY <1>1, CreateKeepsMeta
<1>2. ASSUME NEW r \in Ref, NEW n \in Rev, NEW v \in references[r],
             \/ \E change \in Changes : Update(r, v, n, change[1], change[2])
             \/ UpdateRejected(r, v, n)
             \/ \E cs \in changeSets : Revert(r, v, n, cs)
      PROVE  MetaInv'
  <2>1. ASSUME NEW change \in Changes, Update(r, v, n, change[1], change[2])
        PROVE  MetaInv'
    <3>1. /\ Serving /\ Resolves(r, v) /\ IsNextRevision(n)
          /\ Commit(r, v, n, StrippedAdd(r, change[1]), StrippedDel(r, change[2]))
      BY <2>1 DEF Update
    <3>2. change[1] \in SUBSET Triple /\ change[2] \in SUBSET Triple
      BY ChangesAssumption
    <3>3. /\ StrippedAdd(r, change[1]) \in SUBSET Triple
          /\ StrippedDel(r, change[2]) \in SUBSET Triple
      BY <3>2 DEF StrippedAdd, StrippedDel
    <3> QED
      BY <3>1, <3>3, CommitKeepsMeta
  <2>2. CASE UpdateRejected(r, v, n)
    BY <2>2, UpdateRejectedKeepsMeta
  <2>3. ASSUME NEW cs \in changeSets, Revert(r, v, n, cs)
        PROVE  MetaInv'
    <3>1. cs.add \in SUBSET Triple /\ cs.del \in SUBSET Triple
      BY DEF MetaInv, TypeOK, ChangeSet
    <3> QED
      BY <2>3, <3>1, CommitKeepsMeta DEF Revert
  <2> QED
    BY <1>2, <2>1, <2>2, <2>3
<1>3. CASE \E r \in Name, v \in revisions, q \in Ref : \E h \in references[q] :
              BeginReference("branch", r, v, h, q)
  BY <1>3, ReferenceStepsKeepMeta
<1>4. CASE Undo \/ FinishReference
  BY <1>4, ReferenceStepsKeepMeta
<1>5. CASE MergeRequest
  BY <1>5, FastForwardKeepsMeta DEF MergeRequest
<1> QED
  BY <1>1, <1>2, <1>3, <1>4, <1>5 DEF OtherRequest

LEMMA OtherRequestKeepsRevisions ==
    ASSUME MetaInv, OtherRequest
    PROVE  revisions \subseteq revisions'
<1>1. ASSUME NEW add \in SUBSET Triple, Create(add)
      PROVE  revisions \subseteq revisions'
  BY <1>1 DEF Create, AddRevision
<1>2. ASSUME NEW r \in Ref, NEW n \in Rev, NEW v \in references[r],
             \/ \E change \in Changes : Update(r, v, n, change[1], change[2])
             \/ UpdateRejected(r, v, n)
             \/ \E cs \in changeSets : Revert(r, v, n, cs)
      PROVE  revisions \subseteq revisions'
  BY <1>2 DEF Update, UpdateRejected, Revert, Commit, AddRevision
<1> QED
  BY <1>1, <1>2 DEF OtherRequest, BeginReference, Undo, UndoChangeSet, FinishReference,
     MergeRequest, FastForward

-----------------------------------------------------------------------------
(***************************************************************************)
(* The steps of a merge.                                                   *)
(***************************************************************************)
LEMMA NoMergeIsRecord == NoMerge \in MergeRecord /\ NoMerge.stage = "none"
<1>1. MasterRef \in Ref /\ 0 \in Rev
  BY DEF Ref, Rev
<1>2. Initial({}) \in Progress
  BY DEF Initial, Progress
<1> QED
  BY <1>1, <1>2 DEF NoMerge, MergeRecord, Stage, MergeType

LEMMA WithChangeSetIsProgress ==
    ASSUME NEW p \in Progress, NEW cs \in ChangeSet
    PROVE  WithChangeSet(p, cs) \in Progress
BY DEF WithChangeSet, Progress, ChangeSet

LEMMA DifferencesAreTyped ==
    ASSUME NEW from \in Progress, NEW into \in Progress
    PROVE  Differences(from, into) \in SUBSET (SDG \X Triple)
<1> SUFFICES ASSUME NEW d \in SDG, NEW t \in InState(from, d.a)
             PROVE  <<d, Plain[t]>> \in SDG \X Triple
  BY DEF Differences
<1>1. t \in Triple
  BY DEF SDG, Definition, InState, Progress
<1> QED
  BY <1>1, PlainAssumption

LEMMA WithGroupIsRecord ==
    ASSUME NEW m \in MergeRecord, NEW d \in SDG
    PROVE  WithGroup(m, d) \in MergeRecord
<1> DEFINE triples == {t \in Triple : <<d, t>> \in m.differences}
           adds == m.adds \cup {t \in triples : IsToBeAdded(d, m.type, m.given, t)}
           dels == m.dels \cup {t \in triples : ~ IsToBeAdded(d, m.type, m.given, t)}
           graph == Applied(m.merged, adds, dels)
<1>1. adds \in SUBSET Triple /\ dels \in SUBSET Triple /\ graph \in SUBSET Triple
  BY DEF MergeRecord, Applied
<1>2. WithGroup(m, d) = [m EXCEPT !.groups = @ \ {d}, !.adds = adds, !.dels = dels, !.merged = graph]
  BY DEF WithGroup
<1>3. ASSUME NEW g \in SUBSET SDG, NEW x \in SUBSET Triple, NEW y \in SUBSET Triple,
             NEW z \in SUBSET Triple
      PROVE  [m EXCEPT !.groups = g, !.adds = x, !.dels = y, !.merged = z] \in MergeRecord
  BY DEF MergeRecord
<1>4. m.groups \ {d} \in SUBSET SDG
  BY DEF MergeRecord
<1>5. PICK g \in SUBSET SDG, x \in SUBSET Triple, y \in SUBSET Triple, z \in SUBSET Triple :
           g = m.groups \ {d} /\ x = adds /\ y = dels /\ z = graph
  <2> HIDE DEF adds, dels, graph
  <2> QED
    BY <1>1, <1>4
<1> HIDE DEF adds, dels, graph
<1>6. WithGroup(m, d) = [m EXCEPT !.groups = g, !.adds = x, !.dels = y, !.merged = z]
  BY <1>2, <1>5
<1>7. [m EXCEPT !.groups = g, !.adds = x, !.dels = y, !.merged = z] \in MergeRecord
  BY <1>3
<1> QED
  BY <1>6, <1>7

\* What each step of a merge writes, with its type.
LEMMA BeginMergeKnown ==
    ASSUME KnownInv, BeginThreeWayMerge
    PROVE  KnownInv'
<1> USE DEF KnownInv
<1>1. PICK f \in Ref, r \in Ref, u \in Rev, v \in Rev, c \in revisions :
           BeginMerge(f, u, r, v, c)
  BY DEF BeginThreeWayMerge, MetaInv, TypeOK
<1>2. PICK h \in revisions, q \in Ref :
           /\ StartsBase(c, h, q)
           /\ merge' = [NoMerge EXCEPT !.stage = "rebuild", !.from = f, !.into = r,
                           !.source = u, !.target = v, !.common = c,
                           !.at = h, !.base = fullContent[q]]
  BY <1>1 DEF BeginMerge
<1>3. /\ Serving /\ Resolves(f, u) /\ Resolves(r, v) /\ UNCHANGED <<vars, decided>>
  BY <1>1 DEF BeginMerge
<1>4. /\ {u, v, c, h} \subseteq revisions /\ {u, v, c, h} \subseteq Rev
      /\ IsReference(f) /\ references[f] = {u}
      /\ IsReference(r) /\ references[r] = {v}
  BY <1>3 DEF MetaInv, OneLeaf, TypeOK, Resolves
<1>5. fullContent[q] \in SUBSET Triple
  BY DEF MetaInv, TypeOK
<1>6. merge' \in MergeRecord
  BY <1>2, <1>4, <1>5, NoMergeIsRecord DEF MergeRecord, Stage
<1>7. /\ merge'.from = f /\ merge'.into = r /\ merge'.source = u /\ merge'.target = v
      /\ merge'.common = c /\ merge'.at = h
  BY <1>2, NoMergeIsRecord DEF MergeRecord
<1>8. MergeKnown'
  BY <1>3, <1>4, <1>7 DEF MergeKnown, Serving, IsReference, vars
<1>9. MetaInv'
  BY <1>3, StutterKeepsMeta
<1> QED
  BY <1>3, <1>6, <1>8, <1>9 DEF vars

\* A step of the merge that only changes the request, and stays at a revision.
LEMMA MergeStaysKnown ==
    ASSUME KnownInv, Merging, UNCHANGED <<vars, decided>>, merge' \in MergeRecord,
           merge'.from = merge.from, merge'.into = merge.into,
           merge'.source = merge.source, merge'.target = merge.target,
           merge'.common = merge.common, merge'.at \in revisions
    PROVE  KnownInv'
<1>1. MergeKnown'
  BY DEF KnownInv, MergeKnown, Serving, IsReference, vars
<1>2. MetaInv'
  BY StutterKeepsMeta DEF KnownInv
<1> QED
  BY <1>1, <1>2 DEF KnownInv, vars

LEMMA MergeEndsKnown ==
    ASSUME KnownInv, UNCHANGED <<vars, decided>>, merge' = NoMerge
    PROVE  KnownInv'
<1>1. MetaInv'
  BY StutterKeepsMeta DEF KnownInv
<1> QED
  BY <1>1, NoMergeIsRecord DEF KnownInv, MergeKnown, Merging, vars

\* The fields of a request that a step leaves alone.
SameRequest ==
    /\ merge'.from = merge.from /\ merge'.into = merge.into
    /\ merge'.source = merge.source /\ merge'.target = merge.target
    /\ merge'.common = merge.common

\* Each step between the first and the last has its type and stays with its
\* request, at a revision of the graph.
LEMMA MergeStepTyped ==
    ASSUME KnownInv,
           \/ \E cs \in changeSets : UndoOfBase(cs) \/ ContinueProgress(cs)
           \/ StartProgress
           \/ CreateDifferenceModel
           \/ \E type \in MergeTypes, given \in SUBSET Triple : CopyTarget(type, given)
           \/ \E given \in SUBSET Triple : TakeGivenTriples(given)
           \/ \E d \in SDG : ResolveGroup(d)
    PROVE  /\ Merging /\ UNCHANGED <<vars, decided>> /\ SameRequest
           /\ merge' \in MergeRecord /\ merge'.at \in revisions
<1> USE DEF KnownInv
<1>1. TypeOK /\ changeSets \subseteq ChangeSet
  BY DEF MetaInv, TypeOK
<1>2. Merging => {merge.source, merge.target, merge.common, merge.at} \subseteq revisions
  BY DEF MergeKnown
<1>3. \A cs \in changeSets : /\ cs.succ \in revisions /\ cs.succ \in Rev
                             /\ cs.prior # NoRevision => cs.prior \in revisions /\ cs.prior \in Rev
  BY <1>1 DEF MetaInv, ChangeSetsKnown, TypeOK
<1>4. ASSUME NEW cs \in changeSets, UndoOfBase(cs)
      PROVE  /\ Merging /\ UNCHANGED <<vars, decided>> /\ SameRequest
             /\ merge' \in MergeRecord /\ merge'.at \in revisions
  <2>1. /\ merge.stage = "rebuild" /\ cs.prior # NoRevision
        /\ merge' = [merge EXCEPT !.base = Undone(merge.base, cs), !.at = cs.prior]
        /\ UNCHANGED <<vars, decided>>
    BY <1>4 DEF UndoOfBase
  <2>2. Undone(merge.base, cs) \in SUBSET Triple
    BY <1>1 DEF MergeRecord, ChangeSet, Undone
  <2>3. PICK b, v : b = Undone(merge.base, cs) /\ v = cs.prior
    OBVIOUS
  <2>4. merge' = [merge EXCEPT !.base = b, !.at = v]
    BY <2>1, <2>3
  <2>5. merge' \in MergeRecord /\ merge'.at = v
    BY <1>3, <2>1, <2>2, <2>3, <2>4 DEF MergeRecord
  <2> QED
    BY <1>3, <2>1, <2>3, <2>4, <2>5 DEF Merging, SameRequest
<1>5. CASE StartProgress
  <2>1. PICK p \in Progress : p = Initial(merge.base)
    BY DEF MergeRecord, Progress, Initial
  <2>2. CASE /\ merge.stage = "rebuild"
             /\ merge' = [merge EXCEPT !.stage = "from", !.progressFrom = p]
    BY <1>2, <1>5, <2>2 DEF StartProgress, MergeRecord, Stage, Merging, SameRequest
  <2>3. CASE /\ merge.stage = "from"
             /\ merge' = [merge EXCEPT !.stage = "into", !.progressInto = p, !.at = merge.common]
    BY <1>2, <1>5, <2>3 DEF StartProgress, MergeRecord, Stage, Merging, SameRequest
  <2> QED
    BY <1>5, <2>1, <2>2, <2>3 DEF StartProgress
<1>6. ASSUME NEW cs \in changeSets, ContinueProgress(cs)
      PROVE  /\ Merging /\ UNCHANGED <<vars, decided>> /\ SameRequest
             /\ merge' \in MergeRecord /\ merge'.at \in revisions
  <2>1. PICK p \in Progress, q \in Progress, v \in revisions :
             /\ p = WithChangeSet(merge.progressFrom, cs)
             /\ q = WithChangeSet(merge.progressInto, cs)
             /\ v = cs.succ /\ v \in Rev
    BY <1>1, <1>3, WithChangeSetIsProgress DEF MergeRecord
  <2>2. CASE merge.stage = "from" /\ merge' = [merge EXCEPT !.progressFrom = p, !.at = v]
    BY <1>2, <1>6, <2>1, <2>2 DEF ContinueProgress, MergeRecord, Merging, SameRequest
  <2>3. CASE merge.stage = "into" /\ merge' = [merge EXCEPT !.progressInto = q, !.at = v]
    BY <1>2, <1>6, <2>1, <2>3 DEF ContinueProgress, MergeRecord, Merging, SameRequest
  <2> QED
    BY <1>6, <2>1, <2>2, <2>3 DEF ContinueProgress
<1>7. CASE CreateDifferenceModel
  <2>1. PICK D \in SUBSET (SDG \X Triple) :
             D = Differences(merge.progressFrom, merge.progressInto)
    BY DifferencesAreTyped DEF MergeRecord
  <2>2. merge.stage = "into" /\ merge' = [merge EXCEPT !.stage = "decide", !.differences = D]
    BY <1>7, <2>1 DEF CreateDifferenceModel
  <2> QED
    BY <1>2, <1>7, <2>1, <2>2 DEF CreateDifferenceModel, MergeRecord, Stage, Merging, SameRequest
<1>8. ASSUME NEW type \in MergeTypes, NEW given \in SUBSET Triple, CopyTarget(type, given)
      PROVE  /\ Merging /\ UNCHANGED <<vars, decided>> /\ SameRequest
             /\ merge' \in MergeRecord /\ merge'.at \in revisions
  <2>1. PICK G \in SUBSET SDG : G = {x[1] : x \in merge.differences}
    <3>1. merge.differences \in SUBSET (SDG \X Triple)
      BY DEF MergeRecord
    <3>2. {x[1] : x \in merge.differences} \subseteq SDG
      BY <3>1
    <3> QED
      BY <3>2
  <2>2. PICK graph \in SUBSET Triple : graph = fullContent[merge.into]
    BY <1>1 DEF TypeOK, MergeRecord
  <2>3. /\ merge.stage = "decide"
        /\ merge' = [merge EXCEPT !.stage = "resolve", !.type = type, !.given = given,
                        !.merged = graph, !.groups = G]
        /\ UNCHANGED <<vars, decided>>
    BY <1>8, <2>1, <2>2 DEF CopyTarget
  <2>4. type \in MergeType
    BY MergeTypesAssumption
  <2>5. merge' \in MergeRecord
    BY <2>3, <2>4 DEF MergeRecord, Stage
  <2> QED
    BY <1>2, <2>3, <2>5 DEF MergeRecord, Merging, SameRequest
<1>9. ASSUME NEW given \in SUBSET Triple, TakeGivenTriples(given)
      PROVE  /\ Merging /\ UNCHANGED <<vars, decided>> /\ SameRequest
             /\ merge' \in MergeRecord /\ merge'.at \in revisions
  BY <1>2, <1>9 DEF TakeGivenTriples, MergeRecord, Stage, MergeType, Merging, SameRequest
<1>10. ASSUME NEW d \in SDG, ResolveGroup(d)
       PROVE  /\ Merging /\ UNCHANGED <<vars, decided>> /\ SameRequest
              /\ merge' \in MergeRecord /\ merge'.at \in revisions
  <2>1. merge.stage = "resolve" /\ merge' = WithGroup(merge, d) /\ UNCHANGED <<vars, decided>>
    BY <1>10 DEF ResolveGroup
  <2>2. merge' \in MergeRecord
    BY <2>1, WithGroupIsRecord
  <2>3. SameRequest /\ merge'.at = merge.at
    BY <2>1 DEF WithGroup, MergeRecord, SameRequest
  <2> QED
    BY <1>2, <2>1, <2>2, <2>3 DEF Merging
<1> QED
  BY <1>4, <1>5, <1>6, <1>7, <1>8, <1>9, <1>10

\* The merged revision and its two change sets.
LEMMA CommitMergeWrites ==
    ASSUME KnownInv, NEW n, NEW u, NEW v, CommitMerge(n, u, v)
    PROVE  /\ Merging /\ n \in Rev \ revisions
           /\ u = merge.source /\ v = merge.target /\ u \in revisions /\ v \in revisions
           /\ {u, v} \subseteq Rev /\ {merge.from, merge.into} \subseteq Ref
           /\ revisions' = revisions \cup {n}
           /\ wasDerivedFrom' = wasDerivedFrom \cup {<<n, v>>, <<n, u>>}
           /\ changeSets' = changeSets \cup
                 {[prior |-> v, succ |-> n, add |-> AddedTo(merge.into), del |-> DeletedOf(merge.into)],
                  [prior |-> u, succ |-> n, add |-> AddedTo(merge.from), del |-> {}]}
           /\ references' = [references EXCEPT ![merge.into] = {n}]
           /\ fullContent' = [fullContent EXCEPT ![merge.into] = merge.merged]
           /\ content' = [content EXCEPT ![n] = merge.merged]
           /\ merge.merged \in SUBSET Triple
           /\ merge' = NoMerge
           /\ UNCHANGED <<registered, kind, used, job>>
<1>1. /\ Resolves(merge.from, u) /\ Resolves(merge.into, v) /\ IsNextRevision(n)
      /\ merge.stage = "resolve"
  BY DEF CommitMerge
<1>2. merge.from \in Ref /\ merge.into \in Ref /\ merge.merged \in SUBSET Triple
  BY DEF KnownInv, MergeRecord
<1>3. /\ u \in revisions /\ u \in Rev /\ v \in revisions /\ v \in Rev
      /\ n \in Rev /\ n \notin revisions
      /\ references[merge.from] = {u} /\ references[merge.into] = {v}
  BY <1>1, <1>2, CommitFindsLeaf DEF KnownInv
<1>4. references[merge.from] = {merge.source} /\ references[merge.into] = {merge.target}
  BY <1>1 DEF KnownInv, MergeKnown, Merging
<1>5. u = merge.source /\ v = merge.target
  BY <1>3, <1>4
<1>6. Moved(merge.into, merge.target, n) = {n}
  BY <1>3, <1>5 DEF Moved
<1>7. Applied(fullContent[merge.into], AddedTo(merge.into), DeletedOf(merge.into)) = merge.merged
  BY DEF Applied, AddedTo, DeletedOf
<1>8. fullContent' = [fullContent EXCEPT ![merge.into] = merge.merged]
  BY <1>7 DEF CommitMerge
<1>9. references' = [references EXCEPT ![merge.into] = {n}]
  BY <1>6 DEF CommitMerge
<1>10. /\ revisions' = revisions \cup {n}
       /\ wasDerivedFrom' = wasDerivedFrom \cup {<<n, v>>, <<n, u>>}
       /\ changeSets' = changeSets \cup
             {[prior |-> v, succ |-> n, add |-> AddedTo(merge.into), del |-> DeletedOf(merge.into)],
              [prior |-> u, succ |-> n, add |-> AddedTo(merge.from), del |-> {}]}
       /\ content' = [content EXCEPT ![n] = merge.merged]
       /\ merge' = NoMerge
       /\ UNCHANGED <<registered, kind, used, job>>
  BY DEF CommitMerge
<1> QED
  BY <1>1, <1>2, <1>3, <1>5, <1>8, <1>9, <1>10 DEF Merging

LEMMA CommitMergeKnown ==
    ASSUME KnownInv, NEW n, NEW u, NEW v, CommitMerge(n, u, v)
    PROVE  KnownInv'
<1> DEFINE c == [prior |-> v, succ |-> n, add |-> AddedTo(merge.into), del |-> DeletedOf(merge.into)]
           d == [prior |-> u, succ |-> n, add |-> AddedTo(merge.from), del |-> {}]
<1>1. /\ n \in Rev \ revisions
      /\ u \in revisions /\ v \in revisions
      /\ {u, v} \subseteq Rev /\ {merge.from, merge.into} \subseteq Ref
      /\ revisions' = revisions \cup {n}
      /\ wasDerivedFrom' = wasDerivedFrom \cup {<<n, v>>, <<n, u>>}
      /\ changeSets' = changeSets \cup {c, d}
      /\ references' = [references EXCEPT ![merge.into] = {n}]
      /\ fullContent' = [fullContent EXCEPT ![merge.into] = merge.merged]
      /\ content' = [content EXCEPT ![n] = merge.merged]
      /\ merge.merged \in SUBSET Triple
      /\ merge' = NoMerge
      /\ UNCHANGED <<registered, kind, used, job>>
  BY CommitMergeWrites
<1>2. MetaInv /\ TypeOK /\ Serving
  BY CommitMergeWrites DEF KnownInv, MetaInv, MergeKnown
<1>3. c \in ChangeSet /\ d \in ChangeSet
  BY <1>1, <1>2 DEF ChangeSet, TypeOK, AddedTo, DeletedOf
<1>4. c.succ = n /\ c.prior = v /\ d.succ = n /\ d.prior = u
  OBVIOUS
<1> HIDE DEF c, d
<1>5. TypeOK'
  BY <1>1, <1>2, <1>3 DEF TypeOK
<1>6. UnregisteredIsEmpty' /\ JobKnown'
  BY <1>1, <1>2 DEF UnregisteredIsEmpty, JobKnown, Serving
<1>7. ChangeSetsKnown'
  BY <1>1, <1>2, <1>4 DEF MetaInv, ChangeSetsKnown
<1>8. OneLeaf'
  BY <1>1, <1>2 DEF MetaInv, OneLeaf, IsReference, TypeOK
<1>9. decided' \subseteq revisions'
  BY <1>1 DEF CommitMerge, KnownInv
<1> QED
  BY <1>1, <1>5, <1>6, <1>7, <1>8, <1>9, NoMergeIsRecord DEF KnownInv, MetaInv, MergeKnown, Merging

LEMMA InitKnown == MergeInit => KnownInv
<1> SUFFICES ASSUME MergeInit PROVE KnownInv
  OBVIOUS
<1>1. job \in Job /\ ~ job.active
  BY DEF MergeInit, Init, Idle, Job, Ref, Rev
<1>2. MetaInv
  BY <1>1 DEF MergeInit, Init, MetaInv, TypeOK, UnregisteredIsEmpty, OneLeaf, ChangeSetsKnown,
     JobKnown, IsReference
<1> QED
  BY <1>2, NoMergeIsRecord DEF MergeInit, KnownInv, MergeKnown, Merging

LEMMA NextKnown == KnownInv /\ [MergeNext]_mergeVars => KnownInv'
<1> SUFFICES ASSUME KnownInv, [MergeNext]_mergeVars PROVE KnownInv'
  OBVIOUS
<1>1. CASE OtherRequest
  <2>1. ~ Merging /\ UNCHANGED <<merge, decided>>
    BY <1>1 DEF OtherRequest
  <2>2. MetaInv' /\ revisions \subseteq revisions'
    BY <1>1, OtherRequestKeepsMeta, OtherRequestKeepsRevisions DEF KnownInv
  <2> QED
    BY <2>1, <2>2 DEF KnownInv, MergeKnown, Merging
<1>2. CASE DropRequest
  <2>1. MetaInv'
    BY <1>2, DropKeepsMeta DEF DropRequest, KnownInv
  <2> QED
    BY <1>2, <2>1 DEF DropRequest, KnownInv, MergeKnown, Merging
<1>3. CASE BeginThreeWayMerge
  BY <1>3, BeginMergeKnown
<1>4. CASE MergeStep
  <2>1. CASE ReportConflict
    BY <2>1, MergeEndsKnown DEF ReportConflict
  <2>2. CASE \E u \in references[merge.from], v \in references[merge.into] :
                \E n \in Rev : CommitMerge(n, u, v)
    BY <2>2, CommitMergeKnown
  <2>3. CASE \/ \E cs \in changeSets : UndoOfBase(cs) \/ ContinueProgress(cs)
             \/ StartProgress
             \/ CreateDifferenceModel
             \/ \E type \in MergeTypes, given \in SUBSET Triple : CopyTarget(type, given)
             \/ \E given \in SUBSET Triple : TakeGivenTriples(given)
             \/ \E d \in SDG : ResolveGroup(d)
    BY <2>3, MergeStepTyped, MergeStaysKnown DEF SameRequest
  <2> QED
    BY <1>4, <2>1, <2>2, <2>3 DEF MergeStep
<1>5. CASE AbandonMerge
  BY <1>5, MergeEndsKnown DEF AbandonMerge
<1>6. CASE UNCHANGED mergeVars
  <2>1. MetaInv'
    BY <1>6, StutterKeepsMeta DEF mergeVars, KnownInv
  <2> QED
    BY <1>6, <2>1 DEF mergeVars, vars, KnownInv, MergeKnown, Merging, Serving, IsReference
<1> QED
  BY <1>1, <1>2, <1>3, <1>4, <1>5, <1>6 DEF MergeNext

-----------------------------------------------------------------------------
(***************************************************************************)
(* What holds as long as no WITH part has decided a merge and no literal   *)
(* was changed by one: the history replays, the progresses follow it and   *)
(* the merged graph is the target with the groups decided so far.          *)
(***************************************************************************)
HistoryExact ==
    /\ FullGraphIsLeafContent
    /\ ChangeSetsReplay
    /\ FirstChangeSetOnlyAdds
    /\ job.active => fullContent[job.ref] = content[job.at]

\* A progress is exact, and knows each triple of the revision it started from.
Follows(p, v, base) ==
    /\ Describes(p, v)
    /\ p.Original \subseteq base
    /\ base \subseteq p.Original \cup p.Added \cup p.Deleted

ProgressFollows ==
    /\ merge.stage = "rebuild" => merge.base = content[merge.at]
    /\ merge.stage \in {"from", "into"} => merge.base = content[merge.common]
    /\ merge.stage = "from" => Follows(merge.progressFrom, merge.at, merge.base)
    /\ merge.stage \in {"into", "decide", "resolve"} =>
          Follows(merge.progressFrom, merge.source, merge.base)
    /\ merge.stage = "into" => Follows(merge.progressInto, merge.at, merge.base)
    /\ merge.stage \in {"decide", "resolve"} =>
          /\ Follows(merge.progressInto, merge.target, merge.base)
          /\ merge.differences = Differences(merge.progressFrom, merge.progressInto)

\* The triples of the groups that are done, those to be added and the others.
DoneTriples(toAdd) ==
    {t \in Triple : \E d \in SDG \ merge.groups :
        <<d, t>> \in merge.differences /\ IsToBeAdded(d, merge.type, merge.given, t) = toAdd}

GroupsFollow ==
    /\ merge.stage # "resolve" => merge.groups = {} /\ merge.adds = {} /\ merge.dels = {}
    /\ merge.stage = "resolve" /\ merge.type # "MANUAL" =>
          /\ merge.adds = DoneTriples(TRUE)
          /\ merge.dels = DoneTriples(FALSE)
          /\ merge.merged = (fullContent[merge.into] \cup merge.adds) \ merge.dels

Exact == HistoryExact /\ ProgressFollows /\ GroupsFollow

\* Between merges nothing is left of the one before.
MergeInv ==
    /\ KnownInv
    /\ ~ Merging => merge = NoMerge
    /\ decided = {} /\ AllPlain => Exact

-----------------------------------------------------------------------------
(***************************************************************************)
(* Differences and what is decided of them.                                *)
(***************************************************************************)
LEMMA DifferencesOfTriple ==
    ASSUME AllPlain, NEW from \in Progress, NEW into \in Progress, NEW t \in Triple, NEW d \in SDG
    PROVE  <<d, t>> \in Differences(from, into) <=> t \in InState(from, d.a) /\ t \in InState(into, d.b)
<1>1. ASSUME NEW e \in SDG
      PROVE  InState(from, e.a) \subseteq Triple
  BY DEF SDG, Definition, InState, Progress
<1>2. ASSUME NEW e \in SDG
      PROVE  {Plain[x] : x \in InState(from, e.a) \cap InState(into, e.b)}
                = InState(from, e.a) \cap InState(into, e.b)
  <2>1. \A x \in InState(from, e.a) \cap InState(into, e.b) : Plain[x] = x
    BY <1>1 DEF AllPlain
  <2> QED
    BY <2>1
<1>3. Differences(from, into) =
         UNION {{e} \X (InState(from, e.a) \cap InState(into, e.b)) : e \in SDG}
  BY <1>2 DEF Differences
<1> QED
  BY <1>3

\* The six definitions, by their states.
DeletedAdded == Definition("Deleted", "Added", TRUE, "Deleted")
DeletedOriginal == Definition("Deleted", "Original", FALSE, "Deleted")
AddedDeleted == Definition("Added", "Deleted", TRUE, "Added")
AddedNotIncluded == Definition("Added", "NotIncluded", FALSE, "Added")
OriginalDeleted == Definition("Original", "Deleted", FALSE, "Added")
NotIncludedAdded == Definition("NotIncluded", "Added", FALSE, "Added")

LEMMA SixDefinitions ==
    /\ SDG = {DeletedAdded, DeletedOriginal, AddedDeleted, AddedNotIncluded, OriginalDeleted,
              NotIncludedAdded}
    /\ DeletedAdded.a = "Deleted" /\ DeletedAdded.b = "Added"
    /\ DeletedOriginal.a = "Deleted" /\ DeletedOriginal.b = "Original"
    /\ AddedDeleted.a = "Added" /\ AddedDeleted.b = "Deleted"
    /\ AddedNotIncluded.a = "Added" /\ AddedNotIncluded.b = "NotIncluded"
    /\ OriginalDeleted.a = "Original" /\ OriginalDeleted.b = "Deleted"
    /\ NotIncludedAdded.a = "NotIncluded" /\ NotIncludedAdded.b = "Added"
BY DEF SDG, DeletedAdded, DeletedOriginal, AddedDeleted, AddedNotIncluded, OriginalDeleted,
   NotIncludedAdded, Definition

\* When all groups are done: the triples to be added or not, by their states in
\* the two progresses.
LEMMA TriplesDecided ==
    ASSUME KnownInv, Exact, AllPlain, IsResolved, merge.type # "MANUAL", NEW t \in Triple
    PROVE  LET from == merge.progressFrom
               into == merge.progressInto
               conflicts == (from.Added \cap into.Deleted) \cup (from.Deleted \cap into.Added)
               given == merge.type = "WITH" /\ t \in conflicts
           IN  /\ t \in merge.adds <=>
                     \/ given /\ t \in merge.given
                     \/ ~ given /\ \/ t \in from.Added /\ t \in into.Deleted
                                   \/ t \in from.Added /\ t \in InState(into, "NotIncluded")
                                   \/ t \in from.Original /\ t \in into.Deleted
                                   \/ t \in InState(from, "NotIncluded") /\ t \in into.Added
               /\ t \in merge.dels <=>
                     \/ given /\ t \notin merge.given
                     \/ ~ given /\ \/ t \in from.Deleted /\ t \in into.Added
                                   \/ t \in from.Deleted /\ t \in into.Original
<1> DEFINE from == merge.progressFrom
           into == merge.progressInto
           conflicts == (from.Added \cap into.Deleted) \cup (from.Deleted \cap into.Added)
           given == merge.type = "WITH" /\ t \in conflicts
           added(d) == IsToBeAdded(d, merge.type, merge.given, t)
<1>1. from \in Progress /\ into \in Progress
  BY DEF KnownInv, MergeRecord
<1>2. /\ merge.differences = Differences(from, into)
      /\ merge.groups = {}
      /\ merge.adds = DoneTriples(TRUE) /\ merge.dels = DoneTriples(FALSE)
  BY DEF Exact, ProgressFollows, GroupsFollow, IsResolved
<1>3. /\ t \in merge.adds <=> \E d \in SDG : <<d, t>> \in Differences(from, into) /\ added(d) = TRUE
      /\ t \in merge.dels <=> \E d \in SDG : <<d, t>> \in Differences(from, into) /\ added(d) = FALSE
  <2> HIDE DEF from, into
  <2> QED
    BY <1>2 DEF DoneTriples
<1>4. \A d \in SDG : <<d, t>> \in Differences(from, into) <=>
                        t \in InState(from, d.a) /\ t \in InState(into, d.b)
  BY <1>1, DifferencesOfTriple
<1>6. /\ InState(from, "Added") = from.Added /\ InState(into, "Added") = into.Added
      /\ InState(from, "Deleted") = from.Deleted /\ InState(into, "Deleted") = into.Deleted
      /\ InState(from, "Original") = from.Original /\ InState(into, "Original") = into.Original
      /\ InState(from, "NotIncluded") \cap (from.Original \cup from.Added \cup from.Deleted) = {}
      /\ InState(into, "NotIncluded") \cap (into.Original \cup into.Added \cup into.Deleted) = {}
  BY DEF InState
<1>7. /\ t \notin from.Added \/ t \notin from.Deleted
      /\ t \notin from.Original \/ t \notin from.Deleted
      /\ t \notin from.Original \/ t \notin from.Added
      /\ t \notin into.Added \/ t \notin into.Deleted
      /\ t \notin into.Original \/ t \notin into.Deleted
      /\ t \notin into.Original \/ t \notin into.Added
  BY DEF Exact, ProgressFollows, IsResolved, Follows, Describes
<1> HIDE DEF from, into, added
<1>8. ASSUME NEW toAdd
      PROVE  (\E d \in SDG : <<d, t>> \in Differences(from, into) /\ added(d) = toAdd) <=>
                \/ t \in from.Deleted /\ t \in into.Added /\ added(DeletedAdded) = toAdd
                \/ t \in from.Deleted /\ t \in into.Original /\ added(DeletedOriginal) = toAdd
                \/ t \in from.Added /\ t \in into.Deleted /\ added(AddedDeleted) = toAdd
                \/ /\ t \in from.Added /\ t \in InState(into, "NotIncluded")
                   /\ added(AddedNotIncluded) = toAdd
                \/ t \in from.Original /\ t \in into.Deleted /\ added(OriginalDeleted) = toAdd
                \/ /\ t \in InState(from, "NotIncluded") /\ t \in into.Added
                   /\ added(NotIncludedAdded) = toAdd
  BY <1>4, <1>6, SixDefinitions
<1>9. /\ added(DeletedOriginal) = FALSE /\ added(AddedNotIncluded) = TRUE
      /\ added(OriginalDeleted) = TRUE /\ added(NotIncludedAdded) = TRUE
      /\ merge.type = "WITH" /\ t \in merge.given =>
            added(DeletedAdded) = TRUE /\ added(AddedDeleted) = TRUE
      /\ merge.type = "WITH" /\ t \notin merge.given =>
            added(DeletedAdded) = FALSE /\ added(AddedDeleted) = FALSE
      /\ merge.type # "WITH" => added(DeletedAdded) = FALSE /\ added(AddedDeleted) = TRUE
  BY DEF added, DeletedAdded, DeletedOriginal, AddedDeleted, AddedNotIncluded, OriginalDeleted,
     NotIncludedAdded, Definition, IsToBeAdded
<1>10. t \in conflicts <=> \/ t \in from.Added /\ t \in into.Deleted
                           \/ t \in from.Deleted /\ t \in into.Added
  OBVIOUS
<1>11. /\ t \in merge.adds <=>
             \/ t \in from.Deleted /\ t \in into.Added /\ added(DeletedAdded) = TRUE
             \/ t \in from.Added /\ t \in into.Deleted /\ added(AddedDeleted) = TRUE
             \/ t \in from.Added /\ t \in InState(into, "NotIncluded")
             \/ t \in from.Original /\ t \in into.Deleted
             \/ t \in InState(from, "NotIncluded") /\ t \in into.Added
  BY <1>3, <1>8, <1>9
<1>12. /\ t \in merge.dels <=>
             \/ t \in from.Deleted /\ t \in into.Added /\ added(DeletedAdded) = FALSE
             \/ t \in from.Deleted /\ t \in into.Original
             \/ t \in from.Added /\ t \in into.Deleted /\ added(AddedDeleted) = FALSE
  BY <1>3, <1>8, <1>9
<1>14. /\ t \in merge.adds <=>
             \/ given /\ t \in merge.given
             \/ ~ given /\ \/ t \in from.Added /\ t \in into.Deleted
                           \/ t \in from.Added /\ t \in InState(into, "NotIncluded")
                           \/ t \in from.Original /\ t \in into.Deleted
                           \/ t \in InState(from, "NotIncluded") /\ t \in into.Added
       /\ t \in merge.dels <=>
             \/ given /\ t \notin merge.given
             \/ ~ given /\ \/ t \in from.Deleted /\ t \in into.Added
                           \/ t \in from.Deleted /\ t \in into.Original
  <2>1. CASE merge.type = "WITH"
    BY <1>6, <1>7, <1>9, <1>10, <1>11, <1>12, <2>1
  <2>2. CASE merge.type # "WITH"
    BY <1>9, <1>11, <1>12, <2>2
  <2> QED
    BY <2>1, <2>2
<1> QED
  BY <1>14 DEF from, into

\* Each triple is in the merged graph as its states say.
LEMMA MergedTriple ==
    ASSUME KnownInv, Exact, AllPlain, IsResolved, merge.type # "MANUAL", NEW t \in Triple
    PROVE  LET from == merge.progressFrom
               into == merge.progressInto
               conflicts == (from.Added \cap into.Deleted) \cup (from.Deleted \cap into.Added)
           IN  /\ t \in fullContent[merge.from] <=> t \in from.Original \cup from.Added
               /\ merge.type = "WITH" /\ t \in conflicts =>
                     (t \in merge.merged <=> t \in merge.given)
               /\ ~ (merge.type = "WITH" /\ t \in conflicts) =>
                     (t \in merge.merged <=>
                         \/ t \in from.Original \cup from.Added
                         \/ t \in into.Added /\ t \notin from.Deleted)
<1> DEFINE from == merge.progressFrom
           into == merge.progressInto
           conflicts == (from.Added \cap into.Deleted) \cup (from.Deleted \cap into.Added)
           given == merge.type = "WITH" /\ t \in conflicts
<1>1. /\ Follows(from, merge.source, merge.base)
      /\ Follows(into, merge.target, merge.base)
      /\ merge.merged = (fullContent[merge.into] \cup merge.adds) \ merge.dels
  BY DEF Exact, ProgressFollows, GroupsFollow, IsResolved
<1>2. /\ fullContent[merge.from] = content[merge.source]
      /\ fullContent[merge.into] = content[merge.target]
  <2>1. /\ IsReference(merge.from) /\ merge.source \in references[merge.from]
        /\ IsReference(merge.into) /\ merge.target \in references[merge.into]
    BY DEF KnownInv, MergeKnown, Merging, IsResolved
  <2>2. merge.from \in Ref /\ merge.into \in Ref /\ merge.source \in Rev /\ merge.target \in Rev
    BY DEF KnownInv, MergeRecord
  <2> QED
    BY <2>1, <2>2 DEF Exact, HistoryExact, FullGraphIsLeafContent
<1>3. /\ fullContent[merge.from] = from.Original \cup from.Added
      /\ fullContent[merge.into] = into.Original \cup into.Added
      /\ from.Original \cap from.Added = {} /\ into.Original \cap into.Added = {}
      /\ from.Deleted \cap (from.Original \cup from.Added) = {}
      /\ into.Deleted \cap (into.Original \cup into.Added) = {}
      /\ from.Original \subseteq merge.base /\ into.Original \subseteq merge.base
      /\ merge.base \subseteq from.Original \cup from.Added \cup from.Deleted
      /\ merge.base \subseteq into.Original \cup into.Added \cup into.Deleted
  BY <1>1, <1>2 DEF Follows, Describes
<1>4. /\ t \in InState(from, "NotIncluded") <=> t \notin from.Original \cup from.Added \cup from.Deleted
      /\ t \in InState(into, "NotIncluded") <=> t \notin into.Original \cup into.Added \cup into.Deleted
  BY DEF InState
<1>5. /\ t \in merge.adds <=>
             \/ given /\ t \in merge.given
             \/ ~ given /\ \/ t \in from.Added /\ t \in into.Deleted
                           \/ t \in from.Added /\ t \in InState(into, "NotIncluded")
                           \/ t \in from.Original /\ t \in into.Deleted
                           \/ t \in InState(from, "NotIncluded") /\ t \in into.Added
      /\ t \in merge.dels <=>
             \/ given /\ t \notin merge.given
             \/ ~ given /\ \/ t \in from.Deleted /\ t \in into.Added
                           \/ t \in from.Deleted /\ t \in into.Original
  BY TriplesDecided
<1>6. t \in merge.merged <=> \/ t \in merge.adds /\ t \notin merge.dels
                             \/ t \in into.Original \cup into.Added /\ t \notin merge.dels
  BY <1>1, <1>3
<1>7. t \in conflicts <=> \/ t \in from.Added /\ t \in into.Deleted
                          \/ t \in from.Deleted /\ t \in into.Added
  OBVIOUS
<1> HIDE DEF from, into, conflicts
<1>8. given => (t \in merge.merged <=> t \in merge.given)
  BY <1>3, <1>5, <1>6, <1>7
<1>9. ~ given => (t \in merge.merged <=>
                     \/ t \in from.Original \cup from.Added
                     \/ t \in into.Added /\ t \notin from.Deleted)
  BY <1>3, <1>4, <1>5, <1>6, <1>7
<1> QED
  BY <1>3, <1>8, <1>9 DEF from, into, conflicts

LEMMA AutomaticMergeIsExact ==
    ASSUME KnownInv, Exact, AllPlain, IsResolved, merge.type \in {"AUTO", "COMMON"}
    PROVE  merge.merged = fullContent[merge.from]
                             \cup (merge.progressInto.Added \ merge.progressFrom.Deleted)
<1>1. /\ merge.merged \subseteq Triple /\ fullContent[merge.from] \subseteq Triple
      /\ merge.progressInto.Added \subseteq Triple
  BY DEF KnownInv, MetaInv, TypeOK, MergeRecord, Progress
<1>2. ASSUME NEW t \in Triple
      PROVE  t \in merge.merged <=>
                t \in fullContent[merge.from]
                         \cup (merge.progressInto.Added \ merge.progressFrom.Deleted)
  BY MergedTriple
<1> QED
  BY <1>1, <1>2

LEMMA WithMergeIsExact ==
    ASSUME KnownInv, Exact, AllPlain, IsResolved, merge.type = "WITH"
    PROVE  LET from == merge.progressFrom
               into == merge.progressInto
               conflicts == (from.Added \cap into.Deleted) \cup (from.Deleted \cap into.Added)
           IN  /\ merge.merged \cap conflicts = merge.given \cap conflicts
               /\ fullContent[merge.from] \ conflicts \subseteq merge.merged
<1> DEFINE from == merge.progressFrom
           into == merge.progressInto
           conflicts == (from.Added \cap into.Deleted) \cup (from.Deleted \cap into.Added)
<1>1. /\ merge.merged \subseteq Triple /\ fullContent[merge.from] \subseteq Triple
      /\ merge.given \subseteq Triple
  BY DEF KnownInv, MetaInv, TypeOK, MergeRecord
<1>2. ASSUME NEW t \in Triple
      PROVE  /\ t \in conflicts => (t \in merge.merged <=> t \in merge.given)
             /\ t \notin conflicts /\ t \in fullContent[merge.from] => t \in merge.merged
  BY MergedTriple
<1> HIDE DEF conflicts
<1>3. /\ merge.merged \cap conflicts = merge.given \cap conflicts
      /\ fullContent[merge.from] \ conflicts \subseteq merge.merged
  BY <1>1, <1>2
<1> QED
  BY <1>3 DEF conflicts

-----------------------------------------------------------------------------
(***************************************************************************)
(* The requests between merges keep the history exact.                     *)
(***************************************************************************)
LEMMA AddRevisionKeepsExact ==
    ASSUME MetaInv, HistoryExact, NEW v \in revisions, NEW n \in Rev, n \notin revisions,
           NEW add \in SUBSET Triple, NEW del \in SUBSET Triple, NEW after \in SUBSET Triple,
           after = Applied(content[v], add, del), (after \cup del) \ add = content[v],
           AddRevision(n, v, add, del), content' = [content EXCEPT ![n] = after]
    PROVE  /\ ChangeSetsReplay' /\ FirstChangeSetOnlyAdds'
           /\ \A w \in revisions : content'[w] = content[w]
           /\ content'[n] = after
<1> DEFINE cs == [prior |-> v, succ |-> n, add |-> add, del |-> del]
<1>1. changeSets' = changeSets \cup {cs}
  BY DEF AddRevision
<1>2. TypeOK /\ v \in Rev /\ NoRevision \notin Rev
  BY DEF MetaInv, TypeOK, NoRevision, Rev
<1>3. content'[n] = after /\ \A w \in revisions : content'[w] = content[w]
  BY <1>2 DEF TypeOK
<1>4. /\ cs.prior = v /\ cs.succ = n /\ cs.add = add /\ cs.del = del
  OBVIOUS
<1>5. \A c \in changeSets : /\ c.succ \in revisions
                            /\ c.prior # NoRevision => c.prior \in revisions
  BY DEF MetaInv, ChangeSetsKnown
<1> HIDE DEF cs
<1>6. ChangeSetsReplay'
  <2> SUFFICES ASSUME NEW c \in changeSets', c.prior # NoRevision
               PROVE  /\ content'[c.succ] = Applied(content'[c.prior], c.add, c.del)
                      /\ content'[c.prior] = Undone(content'[c.succ], c)
    BY DEF ChangeSetsReplay, Applied, Undone
  <2>1. CASE c \in changeSets
    BY <1>3, <1>5, <2>1 DEF HistoryExact, ChangeSetsReplay
  <2>2. CASE c = cs
    BY <1>3, <1>4, <2>2 DEF Undone
  <2> QED
    BY <1>1, <2>1, <2>2
<1>7. FirstChangeSetOnlyAdds'
  <2> SUFFICES ASSUME NEW c \in changeSets', c.prior = NoRevision
               PROVE  c.del = {} /\ content'[c.succ] = c.add
    BY DEF FirstChangeSetOnlyAdds
  <2>1. c \in changeSets
    BY <1>1, <1>2, <1>4
  <2> QED
    BY <1>3, <1>5, <2>1 DEF HistoryExact, FirstChangeSetOnlyAdds
<1> QED
  BY <1>3, <1>6, <1>7

LEMMA CommitKeepsExact ==
    ASSUME MetaInv, HistoryExact, Serving, NEW r \in Ref, NEW v, NEW n,
           NEW add \in SUBSET Triple, NEW del \in SUBSET Triple,
           Resolves(r, v), IsNextRevision(n),
           (Applied(fullContent[r], add, del) \cup del) \ add = fullContent[r],
           Commit(r, v, n, add, del)
    PROVE  HistoryExact'
<1> DEFINE after == Applied(fullContent[r], add, del)
<1>1. /\ v \in revisions /\ v \in Rev /\ n \in Rev /\ IsReference(r)
      /\ references[r] = {v} /\ n \notin revisions
  BY CommitFindsLeaf
<1>2. TypeOK /\ after \in SUBSET Triple
  BY DEF MetaInv, TypeOK, Applied
<1>3. fullContent[r] = content[v]
  BY <1>1 DEF HistoryExact, FullGraphIsLeafContent
<1>4. references' = [references EXCEPT ![r] = {n}]
  <2>1. Moved(r, v, n) = {n}
    BY <1>1 DEF Moved
  <2> QED
    BY <2>1 DEF Commit
<1>5. /\ AddRevision(n, v, add, del)
      /\ fullContent' = [fullContent EXCEPT ![r] = after]
      /\ content' = [content EXCEPT ![n] = after]
      /\ UNCHANGED <<registered, kind, used, job>>
  BY DEF Commit
<1>6. after = Applied(content[v], add, del) /\ (after \cup del) \ add = content[v]
  BY <1>3
<1> HIDE DEF after
<1>7. /\ ChangeSetsReplay' /\ FirstChangeSetOnlyAdds'
      /\ \A w \in revisions : content'[w] = content[w]
      /\ content'[n] = after
  <2>1. PICK g \in SUBSET Triple : g = after
    BY <1>2
  <2>2. AddRevision(n, v, add, del) /\ content' = [content EXCEPT ![n] = g]
    BY <1>5, <2>1
  <2>3. g = Applied(content[v], add, del) /\ (g \cup del) \ add = content[v]
    BY <1>6, <2>1
  <2>4. ChangeSetsReplay' /\ FirstChangeSetOnlyAdds'
    BY <1>1, <2>2, <2>3, AddRevisionKeepsExact
  <2>5. (\A w \in revisions : content'[w] = content[w]) /\ content'[n] = g
    BY <1>1, <1>2, <2>2 DEF TypeOK
  <2> QED
    BY <2>1, <2>4, <2>5
<1>8. FullGraphIsLeafContent'
  <2> SUFFICES ASSUME NEW q \in Ref, NEW w \in Rev, IsReference(q)', w \in references'[q]
               PROVE  fullContent'[q] = content'[w]
    BY DEF FullGraphIsLeafContent
  <2>1. CASE q = r
    BY <1>2, <1>4, <1>5, <1>7, <2>1 DEF TypeOK
  <2>2. CASE q # r
    <3>1. references'[q] = references[q] /\ fullContent'[q] = fullContent[q] /\ IsReference(q)
      BY <1>2, <1>4, <1>5, <2>2 DEF TypeOK, IsReference
    <3>2. w \in revisions
      BY <3>1 DEF MetaInv, OneLeaf
    <3> QED
      BY <1>7, <3>1, <3>2 DEF HistoryExact, FullGraphIsLeafContent
  <2> QED
    BY <2>1, <2>2
<1>9. ~ job'.active
  BY <1>5 DEF Serving
<1> QED
  BY <1>7, <1>8, <1>9 DEF HistoryExact

LEMMA UpdateRejectedKeepsExact ==
    ASSUME MetaInv, HistoryExact, NEW r \in Ref, NEW v, NEW n, UpdateRejected(r, v, n)
    PROVE  HistoryExact'
<1>1. /\ Serving /\ Resolves(r, v) /\ IsNextRevision(n)
      /\ AddRevision(n, v, {}, {})
      /\ content' = [content EXCEPT ![n] = content[v]]
      /\ UNCHANGED <<registered, kind, references, fullContent, used, job>>
  BY DEF UpdateRejected
<1>2. v \in revisions /\ v \in Rev /\ n \in Rev /\ n \notin revisions
  BY <1>1, CommitFindsLeaf
<1>3. /\ content[v] = Applied(content[v], {}, {}) /\ (content[v] \cup {}) \ {} = content[v]
      /\ content[v] \in SUBSET Triple
  BY <1>2 DEF Applied, MetaInv, TypeOK
<1>4. /\ ChangeSetsReplay' /\ FirstChangeSetOnlyAdds'
      /\ \A w \in revisions : content'[w] = content[w]
  BY <1>1, <1>2, <1>3, AddRevisionKeepsExact
<1>5. FullGraphIsLeafContent'
  <2> SUFFICES ASSUME NEW q \in Ref, NEW w \in Rev, IsReference(q), w \in references[q]
               PROVE  fullContent[q] = content'[w]
    BY <1>1 DEF FullGraphIsLeafContent, IsReference
  <2>1. w \in revisions
    BY DEF MetaInv, OneLeaf
  <2> QED
    BY <1>4, <2>1 DEF HistoryExact, FullGraphIsLeafContent
<1> QED
  BY <1>1, <1>4, <1>5 DEF HistoryExact, Serving

LEMMA RevertKeepsExact ==
    ASSUME MetaInv, HistoryExact, NEW r \in Ref, NEW v, NEW n, NEW cs, Revert(r, v, n, cs)
    PROVE  HistoryExact'
<1>1. /\ Serving /\ Resolves(r, v) /\ IsNextRevision(n)
      /\ cs \in changeSets /\ cs.succ = v
      /\ Commit(r, v, n, cs.del, cs.add)
  BY DEF Revert
<1>2. PICK graph : graph = fullContent[r]
  OBVIOUS
<1>3. graph = content[cs.succ]
  BY <1>1, <1>2, CommitFindsLeaf DEF HistoryExact, FullGraphIsLeafContent
<1>4. cs.del \in SUBSET Triple /\ cs.add \in SUBSET Triple
  BY <1>1 DEF MetaInv, TypeOK, ChangeSet
<1>5. (Applied(graph, cs.del, cs.add) \cup cs.add) \ cs.del = graph
  <2>1. CASE cs.prior = NoRevision
    <3>1. cs.del = {} /\ graph = cs.add
      BY <1>1, <1>3, <2>1 DEF HistoryExact, FirstChangeSetOnlyAdds
    <3> QED
      BY <3>1 DEF Applied
  <2>2. CASE cs.prior # NoRevision
    <3>1. /\ graph = Applied(content[cs.prior], cs.add, cs.del)
          /\ content[cs.prior] = Undone(graph, cs)
      BY <1>1, <1>3, <2>2 DEF HistoryExact, ChangeSetsReplay
    <3> QED
      BY <3>1 DEF Applied, Undone
  <2> QED
    BY <2>1, <2>2
<1> QED
  BY <1>1, <1>2, <1>4, <1>5, CommitKeepsExact

LEMMA HistoryUntouched ==
    ASSUME HistoryExact, UNCHANGED <<changeSets, content>>
    PROVE  ChangeSetsReplay' /\ FirstChangeSetOnlyAdds'
BY DEF HistoryExact, ChangeSetsReplay, FirstChangeSetOnlyAdds, Applied, Undone

LEMMA FastForwardKeepsExact ==
    ASSUME MetaInv, HistoryExact, NEW f \in Ref, NEW r \in Ref, NEW u, NEW v, FastForward(f, u, r, v)
    PROVE  HistoryExact'
<1>1. /\ Serving /\ Resolves(f, u) /\ Resolves(r, v)
      /\ fullContent' = [fullContent EXCEPT ![r] = fullContent[f]]
      /\ references' = [references EXCEPT ![r] = Moved(r, v, u)]
      /\ UNCHANGED <<registered, revisions, wasDerivedFrom, changeSets, kind,
                     used, job, content>>
  BY DEF FastForward
<1>2. IsReference(f) /\ references[f] = {u} /\ references[r] = {v}
  BY <1>1 DEF Resolves
<1>3. TypeOK /\ u \in Rev /\ Moved(r, v, u) = {u}
  BY <1>2 DEF MetaInv, OneLeaf, TypeOK, Moved
<1>4. fullContent[f] = content[u]
  BY <1>2, <1>3 DEF HistoryExact, FullGraphIsLeafContent
<1>5. FullGraphIsLeafContent'
  <2> SUFFICES ASSUME NEW q \in Ref, NEW w \in Rev, IsReference(q), w \in references'[q]
               PROVE  fullContent'[q] = content[w]
    BY <1>1 DEF FullGraphIsLeafContent, IsReference
  <2>1. CASE q = r
    BY <1>1, <1>3, <1>4, <2>1 DEF TypeOK
  <2>2. CASE q # r
    BY <1>1, <1>3, <2>2 DEF HistoryExact, FullGraphIsLeafContent, TypeOK
  <2> QED
    BY <2>1, <2>2
<1> QED
  BY <1>1, <1>5, HistoryUntouched DEF HistoryExact, Serving

\* A graph that no reference uses yet may be written.
LEMMA WorkGraphIsApart ==
    ASSUME MetaInv, HistoryExact, NEW r \in Ref, ~ IsReference(r), NEW graph,
           fullContent' = [fullContent EXCEPT ![r] = graph],
           UNCHANGED <<kind, references, content>>
    PROVE  FullGraphIsLeafContent'
<1> SUFFICES ASSUME NEW q \in Ref, NEW w \in Rev, IsReference(q), w \in references[q]
             PROVE  fullContent'[q] = content[w]
  BY DEF FullGraphIsLeafContent, IsReference
<1>1. q # r /\ fullContent'[q] = fullContent[q]
  BY DEF MetaInv, TypeOK
<1> QED
  BY <1>1 DEF HistoryExact, FullGraphIsLeafContent

LEMMA ReferenceStepsKeepExact ==
    ASSUME MetaInv, HistoryExact,
           \/ \E k \in {"branch", "tag"}, r \in Name, v \in revisions, q \in Ref :
                 \E h \in references[q] : BeginReference(k, r, v, h, q)
           \/ Undo
           \/ FinishReference
    PROVE  HistoryExact'
<1>1. TypeOK /\ job \in Job
  BY DEF MetaInv, TypeOK
<1>2. ASSUME NEW k \in {"branch", "tag"}, NEW r \in Name, NEW v \in revisions, NEW q \in Ref,
             NEW h \in references[q], BeginReference(k, r, v, h, q)
      PROVE  HistoryExact'
  <2>1. /\ Serving /\ ~ IsReference(r) /\ IsReference(q)
        /\ fullContent' = [fullContent EXCEPT ![r] = fullContent[q]]
        /\ job' = [active |-> TRUE, ref |-> r, kind |-> k, base |-> v, at |-> h]
        /\ UNCHANGED <<registered, revisions, wasDerivedFrom, changeSets, kind,
                       references, used, content>>
    BY <1>2 DEF BeginReference
  <2>2. r \in Ref /\ h \in Rev
    BY <1>1, <1>2 DEF TypeOK, Ref
  <2>3. fullContent[q] = content[h]
    BY <1>2, <2>1, <2>2 DEF HistoryExact, FullGraphIsLeafContent
  <2>4. fullContent'[job'.ref] = content'[job'.at]
    BY <1>1, <2>1, <2>2, <2>3 DEF TypeOK
  <2>5. FullGraphIsLeafContent'
    BY <2>1, <2>2, WorkGraphIsApart
  <2> QED
    BY <2>1, <2>4, <2>5, HistoryUntouched DEF HistoryExact
<1>3. ASSUME NEW cs \in changeSets, UndoChangeSet(cs)
      PROVE  HistoryExact'
  <2>1. /\ job.active /\ cs.prior # NoRevision /\ cs.succ = job.at
        /\ fullContent' = [fullContent EXCEPT ![job.ref] = Undone(fullContent[job.ref], cs)]
        /\ job' = [job EXCEPT !.at = cs.prior]
        /\ UNCHANGED <<registered, revisions, wasDerivedFrom, changeSets, kind,
                       references, used, content>>
    BY <1>3 DEF UndoChangeSet
  <2>2. job.ref \in Ref /\ ~ IsReference(job.ref)
    BY <1>1, <2>1 DEF MetaInv, JobKnown, Job
  <2>3. Undone(fullContent[job.ref], cs) = content[cs.prior]
    BY <1>3, <2>1 DEF HistoryExact, ChangeSetsReplay
  <2>4. job'.ref = job.ref /\ job'.at = cs.prior
    BY <1>1, <2>1 DEF Job
  <2>5. fullContent'[job'.ref] = content'[job'.at]
    BY <1>1, <2>1, <2>2, <2>3, <2>4 DEF TypeOK
  <2>6. FullGraphIsLeafContent'
    BY <2>1, <2>2, WorkGraphIsApart
  <2> QED
    BY <2>1, <2>5, <2>6, HistoryUntouched DEF HistoryExact
<1>4. CASE FinishReference
  <2>1. /\ job.active /\ job.at = job.base
        /\ kind' = [kind EXCEPT ![job.ref] = job.kind]
        /\ references' = [references EXCEPT ![job.ref] = {job.base}]
        /\ job' = Idle
        /\ UNCHANGED <<registered, revisions, wasDerivedFrom, changeSets,
                       fullContent, content>>
    BY <1>4 DEF FinishReference
  <2>2. fullContent[job.ref] = content[job.base]
    BY <2>1 DEF HistoryExact
  <2>3. FullGraphIsLeafContent'
    <3> SUFFICES ASSUME NEW q \in Ref, NEW w \in Rev, kind'[q] # "none", w \in references'[q]
                 PROVE  fullContent[q] = content[w]
      BY <2>1 DEF FullGraphIsLeafContent, IsReference
    <3>1. CASE q = job.ref
      BY <1>1, <2>1, <2>2, <3>1 DEF TypeOK
    <3>2. CASE q # job.ref
      <4>1. kind[q] # "none" /\ w \in references[q]
        BY <1>1, <2>1, <3>2 DEF TypeOK
      <4> QED
        BY <4>1 DEF HistoryExact, FullGraphIsLeafContent, IsReference
    <3> QED
      BY <3>1, <3>2
  <2>4. ~ job'.active
    BY <2>1 DEF Idle
  <2> QED
    BY <2>1, <2>3, <2>4, HistoryUntouched DEF HistoryExact
<1> QED
  BY <1>2, <1>3, <1>4 DEF Undo

LEMMA OtherRequestKeepsExact == ASSUME MetaInv, HistoryExact, OtherRequest PROVE HistoryExact'
<1>1. ASSUME NEW add \in SUBSET Triple, Create(add)
      PROVE  HistoryExact'
  <2>1. /\ changeSets = {} /\ (\A r \in Ref : ~ IsReference(r)) /\ ~ job.active /\ TypeOK
    BY <1>1 DEF MetaInv, UnregisteredIsEmpty, Create
  <2>2. /\ changeSets' = {[prior |-> NoRevision, succ |-> 0, add |-> add, del |-> {}]}
        /\ kind' = [kind EXCEPT ![MasterRef] = "master"]
        /\ references' = [references EXCEPT ![MasterRef] = {0}]
        /\ fullContent' = [fullContent EXCEPT ![MasterRef] = add]
        /\ content' = [content EXCEPT ![0] = add]
        /\ UNCHANGED <<used, job>>
    BY <1>1, <2>1 DEF Create, AddRevision, Applied
  <2>3. MasterRef \in Ref /\ 0 \in Rev
    BY DEF Ref, Rev
  <2>4. content'[0] = add
    BY <2>1, <2>2, <2>3 DEF TypeOK
  <2>5. \A r \in Ref : IsReference(r)' =>
           /\ r = MasterRef /\ references'[r] = {0} /\ fullContent'[r] = add
    BY <2>1, <2>2, <2>3 DEF IsReference, TypeOK
  <2>6. FullGraphIsLeafContent'
    BY <2>4, <2>5 DEF FullGraphIsLeafContent
  <2>7. ChangeSetsReplay' /\ FirstChangeSetOnlyAdds'
    BY <2>2, <2>4 DEF ChangeSetsReplay, FirstChangeSetOnlyAdds
  <2> QED
    BY <2>1, <2>2, <2>6, <2>7 DEF HistoryExact
<1>2. ASSUME NEW r \in Ref, NEW n \in Rev, NEW v \in references[r],
             \/ \E change \in Changes : Update(r, v, n, change[1], change[2])
             \/ UpdateRejected(r, v, n)
             \/ \E cs \in changeSets : Revert(r, v, n, cs)
      PROVE  HistoryExact'
  <2>1. ASSUME NEW change \in Changes, Update(r, v, n, change[1], change[2])
        PROVE  HistoryExact'
    <3>1. PICK a, d : a = StrippedAdd(r, change[1]) /\ d = StrippedDel(r, change[2])
      OBVIOUS
    <3>2. Serving /\ Resolves(r, v) /\ IsNextRevision(n) /\ Commit(r, v, n, a, d)
      BY <2>1, <3>1 DEF Update
    <3>3. change[1] \in SUBSET Triple /\ change[2] \in SUBSET Triple
      BY ChangesAssumption
    <3>4. a \in SUBSET Triple /\ d \in SUBSET Triple
      BY <3>1, <3>3 DEF StrippedAdd, StrippedDel
    <3>5. (Applied(fullContent[r], a, d) \cup d) \ a = fullContent[r]
      BY <3>1 DEF StrippedAdd, StrippedDel, Applied
    <3> QED
      BY <3>2, <3>4, <3>5, CommitKeepsExact
  <2>2. CASE UpdateRejected(r, v, n)
    BY <2>2, UpdateRejectedKeepsExact
  <2>3. ASSUME NEW cs \in changeSets, Revert(r, v, n, cs)
        PROVE  HistoryExact'
    BY <2>3, RevertKeepsExact
  <2> QED
    BY <1>2, <2>1, <2>2, <2>3
<1>3. CASE \E r \in Name, v \in revisions, q \in Ref : \E h \in references[q] :
              BeginReference("branch", r, v, h, q)
  BY <1>3, ReferenceStepsKeepExact
<1>4. CASE Undo \/ FinishReference
  BY <1>4, ReferenceStepsKeepExact
<1>5. CASE MergeRequest
  BY <1>5, FastForwardKeepsExact DEF MergeRequest
<1> QED
  BY <1>1, <1>2, <1>3, <1>4, <1>5 DEF OtherRequest

LEMMA DropKeepsExact == ASSUME MetaInv, Drop PROVE HistoryExact'
<1>1. /\ ~ job.active /\ changeSets' = {} /\ kind' = [r \in Ref |-> "none"] /\ UNCHANGED job
  BY DEF Drop, Serving
<1> QED
  BY <1>1 DEF HistoryExact, FullGraphIsLeafContent, ChangeSetsReplay, FirstChangeSetOnlyAdds,
     IsReference

LEMMA StutterKeepsExact == ASSUME HistoryExact, UNCHANGED vars PROVE HistoryExact'
<1>1. FullGraphIsLeafContent' /\ (job'.active => fullContent'[job'.ref] = content'[job'.at])
  BY DEF HistoryExact, FullGraphIsLeafContent, IsReference, vars
<1> QED
  BY <1>1, HistoryUntouched DEF HistoryExact, vars

-----------------------------------------------------------------------------
(***************************************************************************)
(* The steps of a merge keep its progresses and groups exact.              *)
(***************************************************************************)
LEMMA InitialFollows ==
    ASSUME NEW base, NEW v, base = content[v]
    PROVE  Follows(Initial(base), v, base)
BY DEF Follows, Describes, Initial

LEMMA ChangeSetIsFollowed ==
    ASSUME HistoryExact, NEW p, NEW base, NEW cs \in changeSets, cs.prior # NoRevision,
           Follows(p, cs.prior, base)
    PROVE  Follows(WithChangeSet(p, cs), cs.succ, base)
<1> DEFINE q == WithChangeSet(p, cs)
<1>1. content[cs.succ] = (content[cs.prior] \cup cs.add) \ cs.del
  BY DEF HistoryExact, ChangeSetsReplay, Applied
<1>2. /\ q.Original = p.Original \ (cs.add \cup cs.del)
      /\ q.Added = (p.Added \cup cs.add) \ cs.del
      /\ q.Deleted = (p.Deleted \ cs.add) \cup cs.del
  BY DEF WithChangeSet
<1>3. /\ p.Original \cup p.Added = content[cs.prior]
      /\ p.Original \cap p.Added = {}
      /\ p.Deleted \cap content[cs.prior] = {}
      /\ p.Original \subseteq base
      /\ base \subseteq p.Original \cup p.Added \cup p.Deleted
  BY DEF Follows, Describes
<1> HIDE DEF q
<1>4. q.Original \cup q.Added = content[cs.succ] /\ q.Original \cap q.Added = {}
  BY <1>1, <1>2, <1>3
<1>5. q.Deleted \cap content[cs.succ] = {}
  BY <1>1, <1>2, <1>3
<1>6. q.Original \subseteq base /\ base \subseteq q.Original \cup q.Added \cup q.Deleted
  BY <1>2, <1>3
<1>7. Follows(q, cs.succ, base)
  BY <1>4, <1>5, <1>6 DEF Follows, Describes
<1> QED
  BY <1>7 DEF q

LEMMA FollowsUnchanged ==
    ASSUME NEW p, NEW v, NEW base, UNCHANGED content
    PROVE  Follows(p, v, base)' <=> Follows(p, v, base)
BY DEF Follows, Describes

LEMMA NothingFollows ==
    ASSUME merge' = NoMerge
    PROVE  ProgressFollows' /\ GroupsFollow'
BY DEF ProgressFollows, GroupsFollow, NoMerge

LEMMA BeginMergeExact ==
    ASSUME KnownInv, HistoryExact, BeginThreeWayMerge
    PROVE  ProgressFollows' /\ GroupsFollow'
<1>1. PICK f \in Ref, r \in Ref, u \in Rev, v \in Rev, c \in revisions :
           BeginMerge(f, u, r, v, c)
  BY DEF BeginThreeWayMerge, KnownInv, MetaInv, TypeOK
<1>2. PICK h \in revisions, q \in Ref :
           /\ StartsBase(c, h, q)
           /\ merge' = [NoMerge EXCEPT !.stage = "rebuild", !.from = f, !.into = r,
                           !.source = u, !.target = v, !.common = c,
                           !.at = h, !.base = fullContent[q]]
  BY <1>1 DEF BeginMerge
<1>3. UNCHANGED content
  BY <1>1 DEF BeginMerge, vars
<1>4. fullContent[q] = content[h]
  BY <1>2 DEF StartsBase, HistoryExact, FullGraphIsLeafContent, KnownInv, MetaInv, TypeOK
<1>5. /\ merge'.stage = "rebuild" /\ merge'.at = h /\ merge'.base = fullContent[q]
      /\ merge'.groups = {} /\ merge'.adds = {} /\ merge'.dels = {}
  BY <1>2 DEF NoMerge
<1> QED
  BY <1>3, <1>4, <1>5 DEF ProgressFollows, GroupsFollow

\* The path that the replays take.
LEMMA ReplayExact ==
    ASSUME KnownInv, Exact,
           \/ \E cs \in changeSets : UndoOfBase(cs) \/ ContinueProgress(cs)
           \/ StartProgress
           \/ CreateDifferenceModel
    PROVE  ProgressFollows' /\ GroupsFollow'
<1>1. merge \in MergeRecord /\ UNCHANGED content /\ UNCHANGED fullContent
  BY DEF KnownInv, vars, UndoOfBase, ContinueProgress, StartProgress, CreateDifferenceModel
<1> USE DEF Exact
<1>2. ASSUME NEW cs \in changeSets, UndoOfBase(cs)
      PROVE  ProgressFollows' /\ GroupsFollow'
  <2>1. /\ merge.stage = "rebuild" /\ cs.prior # NoRevision /\ cs.succ = merge.at
        /\ merge' = [merge EXCEPT !.base = Undone(merge.base, cs), !.at = cs.prior]
    BY <1>2 DEF UndoOfBase
  <2>2. /\ merge'.stage = "rebuild" /\ merge'.at = cs.prior
        /\ merge'.base = Undone(merge.base, cs)
        /\ merge'.groups = {} /\ merge'.adds = {} /\ merge'.dels = {}
    BY <1>1, <2>1 DEF MergeRecord, GroupsFollow
  <2>3. merge'.base = content'[merge'.at]
    BY <1>1, <1>2, <2>1, <2>2 DEF ProgressFollows, HistoryExact, ChangeSetsReplay
  <2> QED
    BY <2>2, <2>3 DEF ProgressFollows, GroupsFollow
<1>3. CASE /\ merge.stage = "rebuild"
           /\ merge.at = merge.common
           /\ merge' = [merge EXCEPT !.stage = "from", !.progressFrom = Initial(merge.base)]
  <2>1. /\ merge'.stage = "from" /\ merge'.at = merge.at /\ merge'.common = merge.common
        /\ merge'.base = merge.base /\ merge'.progressFrom = Initial(merge.base)
        /\ merge'.groups = {} /\ merge'.adds = {} /\ merge'.dels = {}
    BY <1>1, <1>3 DEF MergeRecord, GroupsFollow
  <2>2. merge.base = content[merge.at]
    BY <1>3 DEF ProgressFollows
  <2>3. Follows(Initial(merge.base), merge.at, merge.base)
    BY <2>2, InitialFollows
  <2>4. Follows(merge.progressFrom, merge.at, merge.base)'
    BY <1>1, <2>1, <2>3 DEF Follows, Describes
  <2> QED
    BY <1>1, <1>3, <2>1, <2>2, <2>4 DEF ProgressFollows, GroupsFollow
<1>4. CASE /\ merge.stage = "from"
           /\ merge.at = merge.source
           /\ merge' = [merge EXCEPT !.stage = "into", !.progressInto = Initial(merge.base),
                                     !.at = merge.common]
  <2>1. /\ merge'.stage = "into" /\ merge'.at = merge.common /\ merge'.common = merge.common
        /\ merge'.source = merge.source /\ merge'.progressFrom = merge.progressFrom
        /\ merge'.base = merge.base /\ merge'.progressInto = Initial(merge.base)
        /\ merge'.groups = {} /\ merge'.adds = {} /\ merge'.dels = {}
    BY <1>1, <1>4 DEF MergeRecord, GroupsFollow
  <2>2. merge.base = content[merge.common] /\ Follows(merge.progressFrom, merge.source, merge.base)
    BY <1>4 DEF ProgressFollows
  <2>3. Follows(Initial(merge.base), merge.common, merge.base)
    BY <2>2, InitialFollows
  <2>4. /\ Follows(merge.progressFrom, merge.source, merge.base)'
        /\ Follows(merge.progressInto, merge.at, merge.base)'
    BY <1>1, <2>1, <2>2, <2>3 DEF Follows, Describes
  <2> QED
    BY <1>1, <1>4, <2>1, <2>2, <2>4 DEF ProgressFollows, GroupsFollow
<1>5. ASSUME NEW cs \in changeSets, ContinueProgress(cs)
      PROVE  ProgressFollows' /\ GroupsFollow'
  <2>1. PICK p, q : /\ p = WithChangeSet(merge.progressFrom, cs)
                    /\ q = WithChangeSet(merge.progressInto, cs)
    OBVIOUS
  <2>2. cs.prior = merge.at /\ cs.prior # NoRevision
    <3>1. cs.prior = merge.at /\ Merging
      BY <1>5 DEF ContinueProgress, IsNextOnPath, Merging
    <3>2. merge.at \in Rev /\ NoRevision \notin Rev
      BY <1>1 DEF MergeRecord, NoRevision, Rev
    <3> QED
      BY <3>1, <3>2
  <2>3. CASE merge.stage = "from"
    <3>1. merge' = [merge EXCEPT !.progressFrom = p, !.at = cs.succ]
      BY <1>5, <2>1, <2>3 DEF ContinueProgress
    <3>2. /\ merge'.stage = "from" /\ merge'.at = cs.succ /\ merge'.common = merge.common
          /\ merge'.base = merge.base /\ merge'.progressFrom = p
          /\ merge'.groups = {} /\ merge'.adds = {} /\ merge'.dels = {}
      BY <1>1, <2>3, <3>1 DEF MergeRecord, GroupsFollow
    <3>3. merge.base = content[merge.common] /\ Follows(merge.progressFrom, merge.at, merge.base)
      BY <2>3 DEF ProgressFollows
    <3>4. Follows(p, cs.succ, merge.base)
      BY <2>1, <2>2, <3>3, ChangeSetIsFollowed
    <3>5. Follows(merge.progressFrom, merge.at, merge.base)'
      BY <1>1, <3>2, <3>4 DEF Follows, Describes
    <3> QED
      BY <1>1, <3>2, <3>3, <3>5 DEF ProgressFollows, GroupsFollow
  <2>4. CASE merge.stage = "into"
    <3>1. merge' = [merge EXCEPT !.progressInto = q, !.at = cs.succ]
      BY <1>5, <2>1, <2>4 DEF ContinueProgress
    <3>2. /\ merge'.stage = "into" /\ merge'.at = cs.succ /\ merge'.common = merge.common
          /\ merge'.base = merge.base /\ merge'.progressInto = q
          /\ merge'.source = merge.source /\ merge'.progressFrom = merge.progressFrom
          /\ merge'.groups = {} /\ merge'.adds = {} /\ merge'.dels = {}
      BY <1>1, <2>4, <3>1 DEF MergeRecord, GroupsFollow
    <3>3. /\ merge.base = content[merge.common]
          /\ Follows(merge.progressFrom, merge.source, merge.base)
          /\ Follows(merge.progressInto, merge.at, merge.base)
      BY <2>4 DEF ProgressFollows
    <3>4. Follows(q, cs.succ, merge.base)
      BY <2>1, <2>2, <3>3, ChangeSetIsFollowed
    <3>5. /\ Follows(merge.progressInto, merge.at, merge.base)'
          /\ Follows(merge.progressFrom, merge.source, merge.base)'
      BY <1>1, <3>2, <3>3, <3>4 DEF Follows, Describes
    <3> QED
      BY <1>1, <3>2, <3>3, <3>5 DEF ProgressFollows, GroupsFollow
  <2> QED
    BY <1>5, <2>3, <2>4 DEF ContinueProgress
<1>6. CASE CreateDifferenceModel
  <2>1. PICK D : D = Differences(merge.progressFrom, merge.progressInto)
    OBVIOUS
  <2>2. /\ merge.stage = "into" /\ merge.at = merge.target
        /\ merge' = [merge EXCEPT !.stage = "decide", !.differences = D]
    BY <1>6, <2>1 DEF CreateDifferenceModel
  <2>3. /\ merge'.stage = "decide" /\ merge'.source = merge.source /\ merge'.target = merge.target
        /\ merge'.base = merge.base /\ merge'.progressInto = merge.progressInto
        /\ merge'.progressFrom = merge.progressFrom /\ merge'.differences = D
        /\ merge'.groups = {} /\ merge'.adds = {} /\ merge'.dels = {}
    BY <1>1, <2>2 DEF MergeRecord, GroupsFollow
  <2>4. /\ Follows(merge.progressFrom, merge.source, merge.base)
        /\ Follows(merge.progressInto, merge.target, merge.base)
    BY <2>2 DEF ProgressFollows
  <2>5. /\ Follows(merge.progressFrom, merge.source, merge.base)'
        /\ Follows(merge.progressInto, merge.target, merge.base)'
    BY <1>1, <2>3, <2>4 DEF Follows, Describes
  <2>6. (merge.differences = Differences(merge.progressFrom, merge.progressInto))'
    BY <2>1, <2>3 DEF Differences, InState
  <2> QED
    BY <2>3, <2>5, <2>6 DEF ProgressFollows, GroupsFollow
<1> QED
  BY <1>2, <1>3, <1>4, <1>5, <1>6 DEF StartProgress

\* A group joins those that are done.
LEMMA GroupExact ==
    ASSUME KnownInv, Exact, NEW d \in SDG, ResolveGroup(d)
    PROVE  ProgressFollows' /\ GroupsFollow'
<1> DEFINE triples == {t \in Triple : <<d, t>> \in merge.differences}
           adds == merge.adds \cup {t \in triples : IsToBeAdded(d, merge.type, merge.given, t)}
           dels == merge.dels \cup {t \in triples : ~ IsToBeAdded(d, merge.type, merge.given, t)}
           done == SDG \ merge.groups
           graph == fullContent[merge.into]
<1>1. merge \in MergeRecord /\ UNCHANGED content /\ UNCHANGED fullContent
  BY DEF KnownInv, vars, ResolveGroup
<1>2. /\ merge.stage = "resolve" /\ d \in merge.groups
      /\ merge' = WithGroup(merge, d)
  BY DEF ResolveGroup
<1>3. /\ merge'.stage = "resolve" /\ merge'.type = merge.type /\ merge'.given = merge.given
      /\ merge'.into = merge.into /\ merge'.source = merge.source /\ merge'.target = merge.target
      /\ merge'.base = merge.base /\ merge'.progressFrom = merge.progressFrom
      /\ merge'.progressInto = merge.progressInto /\ merge'.differences = merge.differences
      /\ merge'.groups = merge.groups \ {d}
      /\ merge'.adds = adds /\ merge'.dels = dels
      /\ merge'.merged = Applied(merge.merged, adds, dels)
  BY <1>1, <1>2 DEF WithGroup, MergeRecord
<1>4. ProgressFollows'
  <2>1. /\ Follows(merge.progressFrom, merge.source, merge.base)
        /\ Follows(merge.progressInto, merge.target, merge.base)
        /\ merge.differences = Differences(merge.progressFrom, merge.progressInto)
    BY <1>2 DEF Exact, ProgressFollows
  <2>2. /\ Follows(merge.progressFrom, merge.source, merge.base)'
        /\ Follows(merge.progressInto, merge.target, merge.base)'
    BY <1>1, <1>3, <2>1 DEF Follows, Describes
  <2>3. (merge.differences = Differences(merge.progressFrom, merge.progressInto))'
    BY <1>3, <2>1 DEF Differences, InState
  <2> QED
    BY <1>3, <2>2, <2>3 DEF ProgressFollows
<1>5. CASE merge.type = "MANUAL"
  BY <1>3, <1>4, <1>5 DEF GroupsFollow
<1>6. CASE merge.type # "MANUAL"
  <2>1. /\ merge.adds = DoneTriples(TRUE) /\ merge.dels = DoneTriples(FALSE)
        /\ merge.merged = (graph \cup merge.adds) \ merge.dels
    BY <1>2, <1>6 DEF Exact, GroupsFollow
  <2>2. ASSUME NEW t
        PROVE  /\ IsToBeAdded(d, merge.type, merge.given, t) <=>
                      IsToBeAdded(d, merge.type, merge.given, t) = TRUE
               /\ ~ IsToBeAdded(d, merge.type, merge.given, t) <=>
                      IsToBeAdded(d, merge.type, merge.given, t) = FALSE
    <3>1. CASE merge.type = "WITH" /\ d.conflict
      <4>1. IsToBeAdded(d, merge.type, merge.given, t) = (t \in merge.given)
        BY <3>1 DEF IsToBeAdded
      <4> QED
        BY <4>1
    <3>2. CASE ~ (merge.type = "WITH" /\ d.conflict)
      <4>1. IsToBeAdded(d, merge.type, merge.given, t) = (d.resolution = "Added")
        BY <3>2 DEF IsToBeAdded
      <4> QED
        BY <4>1
    <3> QED
      BY <3>1, <3>2
  <2>3. ASSUME NEW toAdd \in BOOLEAN
        PROVE  DoneTriples(toAdd)' =
                  DoneTriples(toAdd) \cup
                     {t \in triples : IsToBeAdded(d, merge.type, merge.given, t) = toAdd}
    <3>1. DoneTriples(toAdd)' =
             {t \in Triple : \E e \in SDG \ (merge.groups \ {d}) :
                 <<e, t>> \in merge.differences
                 /\ IsToBeAdded(e, merge.type, merge.given, t) = toAdd}
      BY <1>3 DEF DoneTriples, IsToBeAdded
    <3>2. SDG \ (merge.groups \ {d}) = done \cup {d}
      OBVIOUS
    <3> QED
      BY <3>1, <3>2 DEF DoneTriples
  <2>4. adds = DoneTriples(TRUE)'
    <3>1. {t \in triples : IsToBeAdded(d, merge.type, merge.given, t)}
             = {t \in triples : IsToBeAdded(d, merge.type, merge.given, t) = TRUE}
      BY <2>2
    <3> QED
      BY <2>1, <2>3, <3>1
  <2>5. dels = DoneTriples(FALSE)'
    <3>1. {t \in triples : ~ IsToBeAdded(d, merge.type, merge.given, t)}
             = {t \in triples : IsToBeAdded(d, merge.type, merge.given, t) = FALSE}
      BY <2>2
    <3> QED
      BY <2>1, <2>3, <3>1
  <2>6. merge.adds \subseteq adds /\ merge.dels \subseteq dels
    OBVIOUS
  <2> HIDE DEF adds, dels, graph
  <2>7. merge'.merged = (graph \cup adds) \ dels
    BY <1>3, <2>1, <2>6 DEF Applied
  <2>8. fullContent'[merge'.into] = graph
    BY <1>1, <1>3 DEF graph
  <2> QED
    BY <1>3, <1>4, <2>4, <2>5, <2>7, <2>8 DEF GroupsFollow
<1> QED
  BY <1>5, <1>6

LEMMA ResolveExact ==
    ASSUME KnownInv, Exact,
           \/ \E type \in MergeTypes, given \in SUBSET Triple : CopyTarget(type, given)
           \/ \E given \in SUBSET Triple : TakeGivenTriples(given)
           \/ \E d \in SDG : ResolveGroup(d)
    PROVE  ProgressFollows' /\ GroupsFollow'
<1>1. merge \in MergeRecord /\ UNCHANGED content /\ UNCHANGED fullContent
  BY DEF KnownInv, vars, CopyTarget, TakeGivenTriples, ResolveGroup
<1>2. ASSUME NEW type \in MergeTypes, NEW given \in SUBSET Triple, CopyTarget(type, given)
      PROVE  ProgressFollows' /\ GroupsFollow'
  <2>1. PICK G : G = {x[1] : x \in merge.differences}
    OBVIOUS
  <2>2. /\ merge.stage = "decide"
        /\ merge' = [merge EXCEPT !.stage = "resolve", !.type = type, !.given = given,
                        !.merged = fullContent[merge.into], !.groups = G]
    BY <1>2, <2>1 DEF CopyTarget
  <2>3. /\ merge'.stage = "resolve" /\ merge'.type = type /\ merge'.given = given
        /\ merge'.into = merge.into /\ merge'.source = merge.source
        /\ merge'.target = merge.target
        /\ merge'.base = merge.base /\ merge'.progressFrom = merge.progressFrom
        /\ merge'.progressInto = merge.progressInto /\ merge'.differences = merge.differences
        /\ merge'.groups = G /\ merge'.merged = fullContent[merge.into]
        /\ merge'.adds = {} /\ merge'.dels = {}
    BY <1>1, <2>2 DEF MergeRecord, Exact, GroupsFollow
  <2>4. /\ Follows(merge.progressFrom, merge.source, merge.base)
        /\ Follows(merge.progressInto, merge.target, merge.base)
        /\ merge.differences = Differences(merge.progressFrom, merge.progressInto)
    BY <2>2 DEF Exact, ProgressFollows
  <2>5. /\ Follows(merge.progressFrom, merge.source, merge.base)'
        /\ Follows(merge.progressInto, merge.target, merge.base)'
    BY <1>1, <2>3, <2>4 DEF Follows, Describes
  <2>6. (merge.differences = Differences(merge.progressFrom, merge.progressInto))'
    BY <2>3, <2>4 DEF Differences, InState
  <2>7. \A d \in SDG \ G, t \in Triple : <<d, t>> \notin merge.differences
    BY <2>1
  <2>8. ASSUME NEW toAdd
        PROVE  DoneTriples(toAdd)' = {}
    BY <2>3, <2>7 DEF DoneTriples
  <2>9. fullContent'[merge'.into] = merge'.merged
    BY <1>1, <2>3
  <2> QED
    BY <2>3, <2>5, <2>6, <2>8, <2>9 DEF ProgressFollows, GroupsFollow
<1>3. ASSUME NEW given \in SUBSET Triple, TakeGivenTriples(given)
      PROVE  ProgressFollows' /\ GroupsFollow'
  <2>1. /\ merge.stage = "decide"
        /\ merge' = [merge EXCEPT !.stage = "resolve", !.type = "MANUAL", !.given = given,
                        !.merged = given]
    BY <1>3 DEF TakeGivenTriples
  <2>2. /\ merge'.stage = "resolve" /\ merge'.type = "MANUAL" /\ merge'.source = merge.source
        /\ merge'.target = merge.target
        /\ merge'.base = merge.base /\ merge'.progressFrom = merge.progressFrom
        /\ merge'.progressInto = merge.progressInto /\ merge'.differences = merge.differences
    BY <1>1, <2>1 DEF MergeRecord
  <2>3. /\ Follows(merge.progressFrom, merge.source, merge.base)
        /\ Follows(merge.progressInto, merge.target, merge.base)
        /\ merge.differences = Differences(merge.progressFrom, merge.progressInto)
    BY <2>1 DEF Exact, ProgressFollows
  <2>4. /\ Follows(merge.progressFrom, merge.source, merge.base)'
        /\ Follows(merge.progressInto, merge.target, merge.base)'
    BY <1>1, <2>2, <2>3 DEF Follows, Describes
  <2>5. (merge.differences = Differences(merge.progressFrom, merge.progressInto))'
    BY <2>2, <2>3 DEF Differences, InState
  <2> QED
    BY <2>2, <2>4, <2>5 DEF ProgressFollows, GroupsFollow
<1> QED
  BY <1>2, <1>3, GroupExact

\* The two change sets of a merged revision replay: that of the target is
\* stripped, and a merge that nobody decided takes nothing from the source.
LEMMA CommitMergeExact ==
    ASSUME KnownInv, Exact, AllPlain, NEW n, NEW u, NEW v, CommitMerge(n, u, v), decided' = {}
    PROVE  HistoryExact'
<1> DEFINE c == [prior |-> v, succ |-> n, add |-> AddedTo(merge.into), del |-> DeletedOf(merge.into)]
           d == [prior |-> u, succ |-> n, add |-> AddedTo(merge.from), del |-> {}]
<1>1. /\ n \in Rev \ revisions
      /\ u = merge.source /\ v = merge.target /\ u \in revisions /\ v \in revisions
      /\ {u, v} \subseteq Rev /\ {merge.from, merge.into} \subseteq Ref
      /\ changeSets' = changeSets \cup {c, d}
      /\ references' = [references EXCEPT ![merge.into] = {n}]
      /\ fullContent' = [fullContent EXCEPT ![merge.into] = merge.merged]
      /\ content' = [content EXCEPT ![n] = merge.merged]
      /\ UNCHANGED <<kind, job>>
  BY CommitMergeWrites
<1>2. MetaInv /\ TypeOK /\ merge \in MergeRecord /\ ~ job.active /\ Merging
  BY CommitMergeWrites DEF KnownInv, MetaInv, MergeKnown, Serving
<1>3. /\ fullContent[merge.from] = content[u] /\ fullContent[merge.into] = content[v]
  <2>1. /\ IsReference(merge.from) /\ u \in references[merge.from]
        /\ IsReference(merge.into) /\ v \in references[merge.into]
    BY <1>1, <1>2 DEF KnownInv, MergeKnown
  <2> QED
    BY <1>1, <2>1 DEF Exact, HistoryExact, FullGraphIsLeafContent
<1>4. IsResolved /\ merge.type \in {"AUTO", "COMMON"}
  <2>1. merge.type \notin {"WITH", "MANUAL"}
    BY DEF CommitMerge
  <2> QED
    BY <1>2, <2>1 DEF CommitMerge, IsResolved, MergeRecord, MergeType
<1>5. content[u] \subseteq merge.merged
  BY <1>3, <1>4, AutomaticMergeIsExact
<1>6. PICK graph : graph = merge.merged
  OBVIOUS
<1>7. /\ c.prior = v /\ c.succ = n /\ c.add = graph \ content[v] /\ c.del = content[v] \ graph
      /\ d.prior = u /\ d.succ = n /\ d.add = graph \ content[u] /\ d.del = {}
  BY <1>3, <1>6 DEF AddedTo, DeletedOf
<1> HIDE DEF c, d
<1>8. content'[n] = graph /\ \A w \in revisions : content'[w] = content[w]
  BY <1>1, <1>2, <1>6 DEF TypeOK
<1>9. \A cs \in changeSets : /\ cs.succ \in revisions
                             /\ cs.prior # NoRevision => cs.prior \in revisions
  BY <1>2 DEF MetaInv, ChangeSetsKnown
<1>10. ChangeSetsReplay'
  <2> SUFFICES ASSUME NEW cs \in changeSets', cs.prior # NoRevision
               PROVE  /\ content'[cs.succ] = Applied(content'[cs.prior], cs.add, cs.del)
                      /\ content'[cs.prior] = Undone(content'[cs.succ], cs)
    BY DEF ChangeSetsReplay, Applied, Undone
  <2>1. CASE cs \in changeSets
    BY <1>8, <1>9, <2>1 DEF Exact, HistoryExact, ChangeSetsReplay
  <2>2. CASE cs = c
    <3>1. content'[cs.succ] = graph /\ content'[cs.prior] = content[v]
      BY <1>1, <1>7, <1>8, <2>2
    <3> QED
      BY <1>7, <2>2, <3>1 DEF Applied, Undone
  <2>3. CASE cs = d
    <3>1. content'[cs.succ] = graph /\ content'[cs.prior] = content[u]
      BY <1>1, <1>7, <1>8, <2>3
    <3> QED
      BY <1>5, <1>6, <1>7, <2>3, <3>1 DEF Applied, Undone
  <2> QED
    BY <1>1, <2>1, <2>2, <2>3
<1>11. FirstChangeSetOnlyAdds'
  <2> SUFFICES ASSUME NEW cs \in changeSets', cs.prior = NoRevision
               PROVE  cs.del = {} /\ content'[cs.succ] = cs.add
    BY DEF FirstChangeSetOnlyAdds
  <2>1. NoRevision \notin Rev
    BY DEF NoRevision, Rev
  <2>2. cs \in changeSets
    BY <1>1, <1>7, <2>1
  <2> QED
    BY <1>8, <1>9, <2>2 DEF Exact, HistoryExact, FirstChangeSetOnlyAdds
<1>12. FullGraphIsLeafContent'
  <2> SUFFICES ASSUME NEW q \in Ref, NEW w \in Rev, IsReference(q)', w \in references'[q]
               PROVE  fullContent'[q] = content'[w]
    BY DEF FullGraphIsLeafContent
  <2>1. CASE q = merge.into
    BY <1>1, <1>2, <1>6, <1>8, <2>1 DEF TypeOK
  <2>2. CASE q # merge.into
    <3>1. references'[q] = references[q] /\ fullContent'[q] = fullContent[q] /\ IsReference(q)
      BY <1>1, <1>2, <2>2 DEF TypeOK, IsReference
    <3>2. w \in revisions
      BY <1>2, <3>1 DEF MetaInv, OneLeaf
    <3> QED
      BY <1>8, <3>1, <3>2 DEF Exact, HistoryExact, FullGraphIsLeafContent
  <2> QED
    BY <2>1, <2>2
<1> QED
  BY <1>1, <1>2, <1>10, <1>11, <1>12 DEF HistoryExact

-----------------------------------------------------------------------------
LEMMA InitMergeInv == MergeInit => MergeInv
<1> SUFFICES ASSUME MergeInit PROVE MergeInv
  OBVIOUS
<1>1. HistoryExact
  BY DEF MergeInit, Init, Idle, HistoryExact, FullGraphIsLeafContent, ChangeSetsReplay,
     FirstChangeSetOnlyAdds
<1>2. ProgressFollows /\ GroupsFollow
  BY DEF MergeInit, NoMerge, ProgressFollows, GroupsFollow
<1> QED
  BY <1>1, <1>2, InitKnown DEF MergeInit, MergeInv, Exact

\* A step between the first and the last leaves the merge in progress.
LEMMA MergeStaysInProgress ==
    ASSUME KnownInv,
           \/ \E cs \in changeSets : UndoOfBase(cs) \/ ContinueProgress(cs)
           \/ StartProgress
           \/ CreateDifferenceModel
           \/ \E type \in MergeTypes, given \in SUBSET Triple : CopyTarget(type, given)
           \/ \E given \in SUBSET Triple : TakeGivenTriples(given)
           \/ \E d \in SDG : ResolveGroup(d)
    PROVE  Merging'
<1>1. merge \in MergeRecord
  BY DEF KnownInv
<1>2. ASSUME NEW cs \in changeSets, UndoOfBase(cs) \/ ContinueProgress(cs)
      PROVE  merge'.stage # "none"
  BY <1>1, <1>2 DEF MergeRecord, UndoOfBase, ContinueProgress
<1>3. CASE StartProgress \/ CreateDifferenceModel
  BY <1>1, <1>3 DEF MergeRecord, StartProgress, CreateDifferenceModel, Merging
<1>4. ASSUME NEW type \in MergeTypes, NEW given \in SUBSET Triple, CopyTarget(type, given)
      PROVE  merge'.stage # "none"
  BY <1>1, <1>4 DEF MergeRecord, CopyTarget
<1>5. ASSUME NEW given \in SUBSET Triple, TakeGivenTriples(given)
      PROVE  merge'.stage # "none"
  BY <1>1, <1>5 DEF MergeRecord, TakeGivenTriples
<1>6. ASSUME NEW d \in SDG, ResolveGroup(d)
      PROVE  merge'.stage # "none"
  BY <1>1, <1>6 DEF MergeRecord, ResolveGroup, WithGroup
<1> QED
  BY <1>2, <1>3, <1>4, <1>5, <1>6 DEF Merging

\* Whatever ends a merge leaves nothing of it.
LEMMA NothingIsLeft ==
    ASSUME KnownInv, ~ Merging => merge = NoMerge, [MergeNext]_mergeVars
    PROVE  ~ Merging' => merge' = NoMerge
<1>1. CASE BeginThreeWayMerge
  <2>1. \E f, r, u, v, c : BeginMerge(f, u, r, v, c)
    BY <1>1 DEF BeginThreeWayMerge
  <2>2. merge'.stage = "rebuild"
    BY <2>1 DEF BeginMerge, NoMerge
  <2> QED
    BY <2>2 DEF Merging
<1>2. CASE MergeStep
  BY <1>2, MergeStaysInProgress DEF MergeStep, ReportConflict, CommitMerge
<1>3. CASE UNCHANGED merge
  BY <1>3 DEF Merging
<1> QED
  BY <1>1, <1>2, <1>3 DEF MergeNext, OtherRequest, DropRequest, AbandonMerge, mergeVars

\* A step that leaves the history and the request alone.
LEMMA RequestUnchangedExact ==
    ASSUME Exact, UNCHANGED <<vars, merge>>
    PROVE  ProgressFollows' /\ GroupsFollow'
<1>1. UNCHANGED <<content, fullContent, merge>>
  BY DEF vars
<1>2. ProgressFollows'
  BY <1>1 DEF Exact, ProgressFollows, Follows, Describes, Differences, InState
<1>3. GroupsFollow'
  <2>1. ASSUME NEW toAdd PROVE DoneTriples(toAdd)' = DoneTriples(toAdd)
    BY <1>1 DEF DoneTriples, IsToBeAdded
  <2> QED
    BY <1>1, <2>1 DEF Exact, GroupsFollow
<1> QED
  BY <1>2, <1>3

LEMMA NextMergeInv == MergeInv /\ [MergeNext]_mergeVars => MergeInv'
<1> SUFFICES ASSUME MergeInv, [MergeNext]_mergeVars PROVE MergeInv'
  OBVIOUS
<1>1. KnownInv /\ MetaInv /\ (~ Merging => merge = NoMerge)
  BY DEF MergeInv, KnownInv
<1>2. KnownInv' /\ (~ Merging' => merge' = NoMerge)
  BY <1>1, NextKnown, NothingIsLeft
<1>3. ASSUME decided' = {}, AllPlain PROVE Exact'
  <2>1. CASE OtherRequest
    <3>1. ~ Merging /\ UNCHANGED <<merge, decided>>
      BY <2>1 DEF OtherRequest
    <3>2. HistoryExact
      BY <1>3, <3>1 DEF MergeInv, Exact
    <3>3. HistoryExact'
      BY <1>1, <2>1, <3>2, OtherRequestKeepsExact
    <3> QED
      BY <1>1, <3>1, <3>3, NothingFollows DEF Exact
  <2>2. CASE DropRequest
    <3>1. ~ Merging /\ Drop /\ UNCHANGED merge
      BY <2>2 DEF DropRequest
    <3> QED
      BY <1>1, <3>1, DropKeepsExact, NothingFollows DEF Exact
  <2>3. CASE BeginThreeWayMerge
    <3>1. UNCHANGED <<vars, decided>>
      BY <2>3 DEF BeginThreeWayMerge, BeginMerge
    <3>2. HistoryExact
      BY <1>3, <3>1 DEF MergeInv, Exact
    <3> QED
      BY <1>1, <2>3, <3>1, <3>2, BeginMergeExact, StutterKeepsExact DEF Exact
  <2>4. CASE MergeStep
    <3>1. CASE \E u \in references[merge.from], v \in references[merge.into] :
                  \E n \in Rev : CommitMerge(n, u, v)
      <4>1. PICK n, u, v : CommitMerge(n, u, v)
        BY <3>1
      <4>2. decided = {} /\ merge' = NoMerge
        BY <1>3, <4>1 DEF CommitMerge
      <4>3. Exact
        BY <1>3, <4>2 DEF MergeInv
      <4> QED
        BY <1>1, <1>3, <4>1, <4>2, <4>3, CommitMergeExact, NothingFollows DEF Exact
    <3>2. CASE ReportConflict
      <4>1. UNCHANGED <<vars, decided>> /\ merge' = NoMerge
        BY <3>2 DEF ReportConflict
      <4> QED
        BY <1>3, <4>1, StutterKeepsExact, NothingFollows DEF MergeInv, Exact
    <3>3. CASE \/ \E cs \in changeSets : UndoOfBase(cs) \/ ContinueProgress(cs)
               \/ StartProgress
               \/ CreateDifferenceModel
      <4>1. UNCHANGED <<vars, decided>>
        BY <1>1, <3>3, MergeStepTyped
      <4>2. Exact
        BY <1>3, <4>1 DEF MergeInv
      <4> QED
        BY <1>1, <3>3, <4>1, <4>2, ReplayExact, StutterKeepsExact DEF Exact
    <3>4. CASE \/ \E type \in MergeTypes, given \in SUBSET Triple : CopyTarget(type, given)
               \/ \E given \in SUBSET Triple : TakeGivenTriples(given)
               \/ \E d \in SDG : ResolveGroup(d)
      <4>1. UNCHANGED <<vars, decided>>
        BY <1>1, <3>4, MergeStepTyped
      <4>2. Exact
        BY <1>3, <4>1 DEF MergeInv
      <4> QED
        BY <1>1, <3>4, <4>1, <4>2, ResolveExact, StutterKeepsExact DEF Exact
    <3> QED
      BY <2>4, <3>1, <3>2, <3>3, <3>4 DEF MergeStep
  <2>5. CASE AbandonMerge
    <3>1. UNCHANGED <<vars, decided>> /\ merge' = NoMerge
      BY <2>5 DEF AbandonMerge
    <3> QED
      BY <1>3, <3>1, StutterKeepsExact, NothingFollows DEF MergeInv, Exact
  <2>6. CASE UNCHANGED mergeVars
    <3>1. UNCHANGED <<vars, merge>> /\ decided = {}
      BY <1>3, <2>6 DEF mergeVars
    <3> QED
      BY <1>3, <3>1, StutterKeepsExact, RequestUnchangedExact DEF MergeInv, Exact
  <2> QED
    BY <2>1, <2>2, <2>3, <2>4, <2>5, <2>6 DEF MergeNext
<1>4. AllPlain' <=> AllPlain
  BY DEF AllPlain
<1> QED
  BY <1>2, <1>3, <1>4 DEF MergeInv

-----------------------------------------------------------------------------
\* MergeInv holds in every reachable state: the merge names only revisions of
\* the graph, and while no WITH part has decided a merge the history replays,
\* the progresses are exact and the merged graph is the target with the groups
\* decided so far.
THEOREM MergeRequestInvariant == MergeSpec => []MergeInv
<1> QED
  BY InitMergeInv, NextMergeInv, PTL DEF MergeSpec

\* For every set of triples, names, updates and merge types: the request has
\* its type, and every revision it visits is one of the graph.
THEOREM MergeRequestTyping == MergeSpec => []MergeTypeOK
<1>1. MergeInv => MergeTypeOK
  <2> SUFFICES ASSUME MergeInv PROVE MergeTypeOK
    OBVIOUS
  <2>1. merge \in MergeRecord /\ decided \subseteq revisions /\ MergeKnown
    BY DEF MergeInv, KnownInv
  <2> QED
    BY <2>1 DEF MergeTypeOK, MergeRecord, MergeKnown
<1> QED
  BY <1>1, MergeRequestInvariant, PTL

\* For every length and shape of the history, and on every path that the replay
\* takes through it: a revision progress describes the content of the revision
\* it has reached, with no triple in two states.
THEOREM ProgressesAreExact == MergeSpec => []ProgressIsExact
<1>1. MergeInv => ProgressIsExact
  BY DEF MergeInv, Exact, ProgressFollows, Follows, ProgressIsExact
<1> QED
  BY <1>1, MergeRequestInvariant, PTL

\* For every history and every order in which the groups are decided: the
\* result of a merge that nobody decides is the source branch with what the
\* target added and the source did not delete.
THEOREM AutomaticMergesKeepSource == MergeSpec => []AutomaticMergeKeepsSource
<1>1. MergeInv => AutomaticMergeKeepsSource
  BY AutomaticMergeIsExact DEF MergeInv, AutomaticMergeKeepsSource
<1> QED
  BY <1>1, MergeRequestInvariant, PTL

\* For every history, WITH part and order of the groups: the WITH part decides
\* exactly the triples that one side added and the other deleted, and what
\* else the source has stays.
THEOREM WithPartsDecideConflicts == MergeSpec => []WithPartDecidesConflicts
<1>1. MergeInv => WithPartDecidesConflicts
  BY WithMergeIsExact DEF MergeInv, WithPartDecidesConflicts
<1> QED
  BY <1>1, MergeRequestInvariant, PTL

\* For every number of merges and revisions: both change sets of a merged
\* revision, and those of every other, lead from the content of the prior
\* revision to that of the revision and back, although the change set of the
\* source branch is stripped against a graph that does not exist.
THEOREM MergedHistoryAlwaysReplays == MergeSpec => []MergedHistoryReplays
<1>1. MergeInv => MergedHistoryReplays
  BY DEF MergeInv, Exact, HistoryExact, ChangeSetsReplay, MergedHistoryReplays
<1> QED
  BY <1>1, MergeRequestInvariant, PTL

=============================================================================
