------------------------ MODULE OldRevisionReadsProofs ------------------------
(***************************************************************************)
(* Theorems about OldRevisionReads, for every set of readers, queries,     *)
(* updates, triples and names and every number of revisions: the reads     *)
(* change nothing of the graph, what a reader of an old revision holds is  *)
(* exact unless it was disturbed, and its path leads back.  The last one   *)
(* is about the other way to read an old revision, QueryRewriting.         *)
(***************************************************************************)
EXTENDS OldRevisionReads, QueryRewriting, RevisionGraphRefinementProofs, SequenceTheorems

USE BoundAssumption, NameAssumption, MasterRefAssumption,
    QueriesAssumption, ChangesAssumption, TempGraphAssumption

(***************************************************************************)
(* The reads and the graph: every step is one of RevisionGraph or leaves   *)
(* its variables as they are, so that its theorems hold here, too.         *)
(***************************************************************************)
NoWorkIsIdle == ~ job.active => job = Idle

GraphInv == IInv /\ AbsentIsNowhere /\ NoWorkIsIdle

LEMMA NextKeepsGraphInv ==
    ASSUME GraphInv, [Next]_vars
    PROVE  GraphInv'
<1>1. IInv /\ AbsentIsNowhere /\ NoWorkIsIdle
  BY DEF GraphInv
<1>2. IInv'
  BY <1>1, NextKeepsIInv
<1>3. AbsentIsNowhere'
  BY <1>1, NextKeepsAbsent
<1>4. NoWorkIsIdle'
  <2>1. CASE job' = job \/ job' = Idle
    BY <1>1, <2>1 DEF NoWorkIsIdle
  <2>2. CASE ReferenceRequest
    BY <2>2 DEF ReferenceRequest, BeginReference, NoWorkIsIdle
  <2>3. CASE Undo
    <3>1. job \in Job /\ job.active
      BY <1>1, <2>3 DEF IInv, TypeOK, Undo, UndoChangeSet
    <3>2. job'.active
      BY <2>3, <3>1 DEF Undo, UndoChangeSet, Job
    <3> QED
      BY <3>2 DEF NoWorkIsIdle
  <2>4. ASSUME ~ ReferenceRequest, ~ Undo
        PROVE  job' = job \/ job' = Idle
    BY <2>4 DEF Next, vars, Create, CommitRequest, Update, UpdateRejected, Revert, Commit,
                MergeRequest, FastForward, FinishReference, Crash, Drop
  <2> QED
    BY <2>1, <2>2, <2>3, <2>4
<1> QED
  BY <1>2, <1>3, <1>4 DEF GraphInv

LEMMA ReadsKeepGraph ==
    ASSUME NEW p \in Reader, StartRead(p) \/ ReadStep(p)
    PROVE  UNCHANGED vars
BY DEF StartRead, ReadStep, FindReference, FindRevision, DropTemp, CreateTemp, FindNearest,
       FindPath, FindSource, CopyFullGraph, UndoOnTemp, FinishTemp, AnswerQuery, PurgeTemp,
       Continues, Writes, Ends, Throws, Aborts

LEMMA RequestIsNext ==
    ASSUME Request
    PROVE  Next
<1>1. ASSUME NEW c \in Changes, Create(c[1])
      PROVE  Next
  BY <1>1 DEF Next
<1>2. ASSUME NEW r \in Ref, NEW n \in Rev, NEW c \in Changes, NEW v \in references[r],
             Update(r, v, n, c[1], c[2])
      PROVE  Next
  <2>1. c[1] \in SUBSET Triple /\ c[2] \in SUBSET Triple
    OBVIOUS
  <2> QED
    BY <1>2, <2>1 DEF Next, CommitRequest
<1>3. ASSUME NEW r \in Ref, NEW n \in Rev, NEW cs \in changeSets, Revert(r, cs.succ, n, cs)
      PROVE  Next
  <2>1. cs.succ \in references[r]
    BY <1>3 DEF Revert, Resolves
  <2> QED
    BY <1>3, <2>1 DEF Next, CommitRequest
<1> QED
  BY <1>1, <1>2, <1>3 DEF Request, Next

LEMMA ReadNextIsNext ==
    ASSUME GraphInv, [ReadNext]_readVars
    PROVE  [Next]_vars
<1>1. CASE Restart
  <2>1. CASE job.active
    BY <1>1, <2>1 DEF Restart, Next, Crash
  <2>2. CASE ~ job.active
    BY <1>1, <2>2 DEF Restart, GraphInv, NoWorkIsIdle, vars
  <2> QED
    BY <2>1, <2>2
<1>2. CASE DropGraph
  BY <1>2 DEF DropGraph, Next
<1> QED
  BY <1>1, <1>2, ReadsKeepGraph, RequestIsNext DEF ReadNext, ReferenceThrows, readVars, vars

LEMMA InitGraphInv == Init => GraphInv
BY InitIInv DEF Init, GraphInv, AbsentIsNowhere, NoWorkIsIdle

\* With readers, the graph still is a graph under revision control: reads,
\* the graphs they leave behind and the writer locks they keep allow no
\* request that RevisionGraph does not.
THEOREM ReadsChangeNothing == ReadSpec => Spec
<1>1. ReadInit => Init /\ GraphInv
  BY InitGraphInv DEF ReadInit
<1>2. GraphInv /\ [ReadNext]_readVars => [Next]_vars
  BY ReadNextIsNext
<1>3. GraphInv /\ [ReadNext]_readVars => GraphInv'
  BY ReadNextIsNext, NextKeepsGraphInv
<1> QED
  BY <1>1, <1>2, <1>3, PTL DEF ReadSpec, Spec

(***************************************************************************)
(* What a reader holds.  Its path leads back whatever happens to the       *)
(* graph; unless it was disturbed, the graphs it has found are exact and   *)
(* the one it rebuilds is the content of the revision it has come to.      *)
(***************************************************************************)
Walking == {"source", "copy", "undo"}

Building == {"create", "nearest", "leaf"} \cup Walking

PathHolds(s) ==
    IF s.stage \in Walking
    THEN /\ s.at # s.rev => \E e \in s.path : e[1] = s.at
         /\ \A e \in s.path : e[1] <= s.at =>
               /\ e[2] < e[1]
               /\ e[2] # s.rev => \E d \in s.path : d[1] = e[2]
    ELSE s.path = {}

GraphHolds(s, t, g) ==
    /\ g[1] \in revisions
    /\ \/ g = <<s.rev, TempGraph>> /\ s.stage \in Building
       \/ content[g[1]] = IF g[2] = TempGraph THEN t[g[1]] ELSE fullContent[g[2]]

WalkHolds(s) ==
    /\ s.rev \in revisions /\ s.at \in revisions
    /\ \A e \in s.path : \E cs \in changeSets : cs.succ = e[1] /\ cs.prior = e[2]

ReadIsExact(s, t) ==
    /\ \A g \in s.graphs : GraphHolds(s, t, g)
    /\ s.stage = "create" => t[s.rev] = {}
    /\ s.stage \in Walking => WalkHolds(s)
    /\ s.stage = "copy" => fullContent[s.ref] = content[s.at]
    /\ s.stage = "undo" => t[s.rev] = content[s.at]

RInv ==
    /\ ReadTypeOK
    /\ \A p \in Reader : PathHolds(reader[p])
    /\ \A p \in Reader \ disturbed : ReadIsExact(reader[p], temp)

LEMMA RestingHolds ==
    /\ Resting \in ReaderState
    /\ PathHolds(Resting)
    /\ \A t : ReadIsExact(Resting, t)
<1>1. 0 \in Rev /\ MasterRef \in Ref
  BY DEF Rev, Ref
<1>2. <<>> \in Seq(Rev)
  BY EmptySeq
<1> QED
  BY <1>1, <1>2 DEF Resting, ReaderState, Stage, PathHolds, ReadIsExact, Walking

(***************************************************************************)
(* How a step of a reader changes what readers hold.                       *)
(***************************************************************************)
LEMMA ContinuesKeeps ==
    ASSUME RInv, NEW p \in Reader, NEW next \in ReaderState, Continues(p, next),
           PathHolds(next), p \notin disturbed => ReadIsExact(next, temp)
    PROVE  RInv'
<1>1. /\ reader' = [reader EXCEPT ![p] = next]
      /\ UNCHANGED <<vars, temp, stuck, disturbed>>
  BY DEF Continues
<1>2. ReadTypeOK'
  BY <1>1 DEF RInv, ReadTypeOK
<1>3. ASSUME NEW q \in Reader
      PROVE  \/ reader'[q] = next /\ q = p
             \/ reader'[q] = reader[q]
  BY <1>1 DEF RInv, ReadTypeOK
<1>4. \A q \in Reader : PathHolds(reader'[q])
  BY <1>3 DEF RInv
<1>5. \A q \in Reader \ disturbed : ReadIsExact(reader'[q], temp)
  BY <1>3 DEF RInv
<1>6. \A s, t : ReadIsExact(s, t)' <=> ReadIsExact(s, t)
  BY <1>1 DEF ReadIsExact, GraphHolds, WalkHolds, vars
<1> QED
  BY <1>1, <1>2, <1>4, <1>5, <1>6 DEF RInv, PathHolds
LEMMA WritesKeeps ==
    ASSUME RInv, NEW p \in Reader, NEW v \in Rev, NEW graph \in SUBSET Triple,
           NEW next \in ReaderState, Writes(p, v, graph, next), PathHolds(next),
           next = Resting \/ (p \notin disturbed =>
                                 ReadIsExact(next, [temp EXCEPT ![v] = graph]))
    PROVE  RInv'
<1> DEFINE t == [temp EXCEPT ![v] = graph]
<1>1. /\ temp' = t
      /\ reader' = [reader EXCEPT ![p] = next]
      /\ UNCHANGED <<vars, stuck>>
  BY DEF Writes
<1>2. disturbed' = (IF next = Resting THEN disturbed \ {p} ELSE disturbed)
                      \cup {q \in Reader \ {p} : v \in HoldsTemp(q)}
  BY DEF Writes
<1>3. ReadTypeOK'
  BY <1>1, <1>2 DEF RInv, ReadTypeOK
<1>4. ASSUME NEW q \in Reader
      PROVE  \/ reader'[q] = next /\ q = p
             \/ reader'[q] = reader[q] /\ q # p
  BY <1>1 DEF RInv, ReadTypeOK
<1>5. \A q \in Reader : PathHolds(reader'[q])
  BY <1>4 DEF RInv
<1>6. ASSUME NEW q \in Reader, q \notin disturbed'
      PROVE  ReadIsExact(reader'[q], t)
  <2>1. CASE q = p
    <3>1. next = Resting \/ q \notin disturbed
      BY <1>2, <1>6, <2>1
    <3> QED
      BY <3>1, <2>1, <1>4, RestingHolds
  <2>2. CASE q # p
    <3>1. q \notin disturbed /\ v \notin HoldsTemp(q)
      BY <1>2, <1>6, <2>2
    <3>2. ReadIsExact(reader[q], temp)
      BY <3>1 DEF RInv
    <3>3. reader[q].stage \in Building => reader[q].rev # v
      BY <3>1 DEF HoldsTemp, Building, Walking
    <3>4. \A g \in reader[q].graphs : g[2] = TempGraph => g[1] # v
      BY <3>1 DEF HoldsTemp
    <3>5. \A w : w # v => t[w] = temp[w]
      BY DEF RInv, ReadTypeOK
    <3>6. ReadIsExact(reader[q], t)
      BY <3>2, <3>3, <3>4, <3>5 DEF ReadIsExact, GraphHolds, Building, Walking
    <3> QED
      BY <3>6, <1>4, <2>2
  <2> QED
    BY <2>1, <2>2
<1>7. \A s, u : ReadIsExact(s, u)' <=> ReadIsExact(s, u)
  BY <1>1 DEF ReadIsExact, GraphHolds, WalkHolds, vars
<1> QED
  BY <1>1, <1>3, <1>5, <1>6, <1>7 DEF RInv, PathHolds

LEMMA EndsKeeps ==
    ASSUME RInv, NEW p \in Reader, Ends(p), stuck' \in BOOLEAN
    PROVE  RInv'
<1>1. /\ reader' = [reader EXCEPT ![p] = Resting]
      /\ disturbed' = disturbed \ {p}
      /\ UNCHANGED <<vars, temp>>
  BY DEF Ends
<1>2. ReadTypeOK'
  BY <1>1, RestingHolds DEF RInv, ReadTypeOK
<1>3. ASSUME NEW q \in Reader
      PROVE  \/ reader'[q] = Resting /\ q = p
             \/ reader'[q] = reader[q] /\ q # p
  BY <1>1 DEF RInv, ReadTypeOK
<1>4. \A q \in Reader : PathHolds(reader'[q])
  BY <1>3, RestingHolds DEF RInv
<1>5. \A q \in Reader \ disturbed' : ReadIsExact(reader'[q], temp)
  BY <1>1, <1>3, RestingHolds DEF RInv
<1>6. \A s, t : ReadIsExact(s, t)' <=> ReadIsExact(s, t)
  BY <1>1 DEF ReadIsExact, GraphHolds, WalkHolds, vars
<1> QED
  BY <1>1, <1>2, <1>4, <1>5, <1>6 DEF RInv, PathHolds

(***************************************************************************)
(* What the requests and the server do to what readers hold.               *)
(***************************************************************************)
LEMMA RequestKeepsReads ==
    ASSUME GraphInv, RInv, Request
    PROVE  RInv'
<1> DEFINE moved == {r \in Ref : references'[r] # references[r]
                                    \/ fullContent'[r] # fullContent[r]}
<1>1. /\ UNCHANGED <<temp, reader, stuck>>
      /\ disturbed' = disturbed \cup {p \in Reader : HoldsReferences(p) \cap moved # {}}
  BY DEF Request
<1>2. ReadTypeOK'
  BY <1>1 DEF RInv, ReadTypeOK
<1>3. registered'
  BY DEF Request, GraphInv, IInv, UnregisteredIsEmpty, Create, Update, Revert, Commit,
         ReferenceRequest, BeginReference, MergeRequest, FastForward, Undo, UndoChangeSet,
         FinishReference, Serving
<1>4. /\ revisions \subseteq revisions'
      /\ changeSets \subseteq changeSets'
      /\ \A w \in revisions : content'[w] = content[w]
  BY <1>3, RequestIsNext, NextKeepsHistory DEF GraphInv, HistoryGrows
<1>5. ASSUME NEW q \in Reader, q \notin disturbed'
      PROVE  ReadIsExact(reader[q], temp)'
  <2>1. q \notin disturbed /\ HoldsReferences(q) \cap moved = {}
    BY <1>1, <1>5
  <2>2. ReadIsExact(reader[q], temp) /\ reader[q] \in ReaderState
    BY <2>1 DEF RInv, ReadTypeOK
  <2>3. ASSUME NEW g \in reader[q].graphs
        PROVE  GraphHolds(reader[q], temp, g)'
    <3>1. g[2] \in Ref \cup {TempGraph} /\ GraphHolds(reader[q], temp, g)
      BY <2>2 DEF ReaderState, ReadIsExact
    <3>2. g[2] # TempGraph => fullContent'[g[2]] = fullContent[g[2]]
      BY <2>1, <3>1 DEF HoldsReferences
    <3> QED
      BY <1>1, <1>4, <3>1, <3>2 DEF GraphHolds
  <2>4. reader[q].stage = "copy" => fullContent'[reader[q].ref] = fullContent[reader[q].ref]
    BY <2>1, <2>2 DEF HoldsReferences, Reads, ReaderState
  <2>5. reader[q].stage \in Walking => WalkHolds(reader[q])'
    BY <1>1, <1>4, <2>2 DEF ReadIsExact, WalkHolds
  <2>6. reader[q].stage \in {"copy", "undo"} =>
           content'[reader[q].at] = content[reader[q].at]
    BY <1>4, <2>2 DEF ReadIsExact, WalkHolds, Walking
  <2> QED
    BY <1>1, <2>2, <2>3, <2>4, <2>5, <2>6 DEF ReadIsExact
<1> QED
  BY <1>1, <1>2, <1>5 DEF RInv, PathHolds

LEMMA DropKeepsReads ==
    ASSUME RInv, DropGraph
    PROVE  RInv'
<1>1. /\ UNCHANGED <<temp, reader, stuck>>
      /\ disturbed' = disturbed \cup
            {p \in Reader : HoldsTemp(p) # {} \/ HoldsReferences(p) # {}}
  BY DEF DropGraph
<1>2. ReadTypeOK'
  BY <1>1 DEF RInv, ReadTypeOK
<1>3. ASSUME NEW q \in Reader, q \notin disturbed'
      PROVE  ReadIsExact(reader[q], temp)'
  <2>1. HoldsTemp(q) = {} /\ HoldsReferences(q) = {}
    BY <1>1, <1>3
  <2>2. reader[q].stage \notin Building
    BY <2>1 DEF HoldsTemp, Building, Walking
  <2>3. reader[q].graphs = {}
    <3>1. ASSUME NEW g \in reader[q].graphs
          PROVE  FALSE
      <4>1. CASE g[2] = TempGraph
        <5>1. g[1] \in HoldsTemp(q)
          BY <4>1 DEF HoldsTemp
        <5> QED
          BY <5>1, <2>1
      <4>2. CASE g[2] # TempGraph
        <5>1. g[2] \in HoldsReferences(q)
          BY <4>2 DEF HoldsReferences
        <5> QED
          BY <5>1, <2>1
      <4> QED
        BY <4>1, <4>2
    <3> QED
      BY <3>1
  <2> QED
    BY <1>1, <2>2, <2>3 DEF ReadIsExact, Building, Walking
<1> QED
  BY <1>1, <1>2, <1>3 DEF RInv, PathHolds

LEMMA RestartKeepsReads ==
    ASSUME RInv, Restart
    PROVE  RInv'
<1>1. /\ reader' = [p \in Reader |-> Resting]
      /\ disturbed' = {} /\ stuck' = FALSE /\ temp' = temp
  BY DEF Restart
<1>2. ReadTypeOK'
  BY <1>1, RestingHolds DEF RInv, ReadTypeOK
<1>3. \A q \in Reader : reader'[q] = Resting
  BY <1>1
<1>4. \A q \in Reader : PathHolds(reader[q])'
  BY <1>3, RestingHolds DEF PathHolds
<1>5. \A q \in Reader : ReadIsExact(reader[q], temp)'
  BY <1>3 DEF Resting, ReadIsExact, Walking
<1> QED
  BY <1>2, <1>4, <1>5 DEF RInv

(***************************************************************************)
(* The steps of a reader.                                                  *)
(***************************************************************************)
LEMMA StateOfReader ==
    ASSUME RInv, NEW p \in Reader
    PROVE  \E s \in ReaderState : /\ s = reader[p]
                                  /\ PathHolds(s)
                                  /\ p \notin disturbed => ReadIsExact(s, temp)
BY DEF RInv, ReadTypeOK

\* Where a reference is, its full graph is the content of an existing revision.
LEMMA ReferenceIsExact ==
    ASSUME GraphInv, NEW r \in Ref, NEW v \in references[r]
    PROVE  IsReference(r) /\ v \in revisions /\ v \in Rev /\ fullContent[r] = content[v]
<1>1. IInv /\ IsReference(r)
  BY DEF GraphInv, AbsentIsNowhere
<1>2. v \in revisions /\ v \in Rev
  BY <1>1 DEF IInv, OneLeaf, TypeOK
<1> QED
  BY <1>1, <1>2 DEF IInv, FullGraphIsLeafContent

LEMMA ReferenceIsNoTemp ==
    ASSUME NEW r \in Ref
    PROVE  r # TempGraph
BY DEF Ref, TempGraph

LEMMA StartReadKeeps ==
    ASSUME RInv, NEW p \in Reader, StartRead(p)
    PROVE  RInv'
<1>1. PICK q \in Queries : Continues(p, [Resting EXCEPT !.stage = "find", !.rest = q])
  BY DEF StartRead
<1> DEFINE next == [Resting EXCEPT !.stage = "find", !.rest = q]
<1>2. next \in ReaderState
  BY RestingHolds DEF ReaderState, Stage
<1>3. PathHolds(next) /\ ReadIsExact(next, temp)
  BY DEF Resting, PathHolds, ReadIsExact, Walking
<1> HIDE DEF next
<1> QED
  BY <1>1, <1>2, <1>3, ContinuesKeeps DEF next

LEMMA FindReferenceKeeps ==
    ASSUME GraphInv, RInv, NEW p \in Reader, FindReference(p)
    PROVE  RInv'
<1>1. PICK s \in ReaderState : /\ s = reader[p]
                               /\ PathHolds(s)
                               /\ p \notin disturbed => ReadIsExact(s, temp)
  BY StateOfReader
<1>2. s.stage = "find" /\ s.rest # <<>>
  BY <1>1 DEF FindReference, Reads
<1>3. PICK g \in Shown(Head(s.rest)) :
         Continues(p, [s EXCEPT !.rest = Tail(s.rest), !.graphs = s.graphs \cup {g}])
  BY <1>1 DEF FindReference
<1> DEFINE next == [s EXCEPT !.rest = Tail(s.rest), !.graphs = s.graphs \cup {g}]
<1>4. g \in Rev \X Ref /\ g[1] \in references[g[2]]
  BY DEF Shown
<1>5. next \in ReaderState
  <2>1. s.rest \in Seq(Rev)
    BY DEF ReaderState
  <2>2. Tail(s.rest) \in Seq(Rev)
    BY <1>2, <2>1, HeadTailProperties
  <2> QED
    BY <1>4, <2>2 DEF ReaderState
<1>6. PathHolds(next)
  BY <1>1, <1>2 DEF PathHolds, ReaderState, Walking
<1>7. ASSUME p \notin disturbed
      PROVE  ReadIsExact(next, temp)
  <2>1. next.graphs = s.graphs \cup {g} /\ next.stage = "find" /\ next.rev = s.rev
    BY <1>2 DEF ReaderState
  <2>2. GraphHolds(next, temp, g)
    <3>1. g[2] \in Ref
      BY <1>4
    <3> QED
      BY <3>1, <1>4, ReferenceIsExact, ReferenceIsNoTemp DEF GraphHolds
  <2>3. \A x \in s.graphs : GraphHolds(next, temp, x)
    BY <1>1, <1>2, <1>7, <2>1 DEF ReadIsExact, GraphHolds, Building, Walking
  <2> HIDE DEF next
  <2> QED
    BY <2>1, <2>2, <2>3 DEF ReadIsExact, Walking
<1> HIDE DEF next
<1> QED
  BY <1>3, <1>5, <1>6, <1>7, ContinuesKeeps DEF next

LEMMA FindRevisionKeeps ==
    ASSUME RInv, NEW p \in Reader, FindRevision(p)
    PROVE  RInv'
<1>1. PICK s \in ReaderState : /\ s = reader[p]
                               /\ PathHolds(s)
                               /\ p \notin disturbed => ReadIsExact(s, temp)
  BY StateOfReader
<1>2. s.stage = "find" /\ s.rest # <<>>
  BY <1>1 DEF FindRevision, Reads
<1> DEFINE v == Head(s.rest)
           next == [s EXCEPT !.stage = "drop", !.rev = v, !.rest = Tail(s.rest)]
<1>3. \/ Continues(p, next)
      \/ Aborts(p)
  BY <1>1 DEF FindRevision
<1>4. next \in ReaderState
  <2>1. s.rest \in Seq(Rev)
    BY DEF ReaderState
  <2>2. v \in Rev /\ Tail(s.rest) \in Seq(Rev)
    BY <1>2, <2>1, HeadTailProperties
  <2> QED
    BY <2>2 DEF ReaderState, Stage
<1>5. PathHolds(next)
  BY <1>1, <1>2 DEF PathHolds, ReaderState, Walking
<1>6. ASSUME p \notin disturbed
      PROVE  ReadIsExact(next, temp)
  <2>1. next.graphs = s.graphs /\ next.stage = "drop"
    BY DEF ReaderState
  <2>2. \A x \in s.graphs : GraphHolds(next, temp, x)
    BY <1>1, <1>2, <1>6 DEF ReadIsExact, GraphHolds, Building, Walking
  <2> HIDE DEF next
  <2> QED
    BY <2>1, <2>2 DEF ReadIsExact, Walking
<1>7. Aborts(p) => RInv'
  BY EndsKeeps DEF Aborts, RInv, ReadTypeOK
<1> HIDE DEF next
<1> QED
  BY <1>3, <1>4, <1>5, <1>6, <1>7, ContinuesKeeps

LEMMA DropTempKeeps ==
    ASSUME RInv, NEW p \in Reader, DropTemp(p)
    PROVE  RInv'
<1>1. PICK s \in ReaderState : /\ s = reader[p]
                               /\ PathHolds(s)
                               /\ p \notin disturbed => ReadIsExact(s, temp)
  BY StateOfReader
<1> DEFINE next == [s EXCEPT !.stage = "create"]
           t == [temp EXCEPT ![s.rev] = {}]
<1>2. s.stage = "drop" /\ Writes(p, s.rev, {}, next)
  BY <1>1 DEF DropTemp, Reads, Dropped
<1>3. s.rev \in Rev /\ next \in ReaderState
  BY DEF ReaderState, Stage
<1>4. PathHolds(next)
  BY <1>1, <1>2 DEF PathHolds, ReaderState, Walking
<1>5. ASSUME p \notin disturbed
      PROVE  ReadIsExact(next, t)
  <2>1. next.graphs = s.graphs /\ next.stage = "create" /\ next.rev = s.rev
    BY DEF ReaderState
  <2>2. t[s.rev] = {} /\ \A w : w # s.rev => t[w] = temp[w]
    BY <1>3 DEF RInv, ReadTypeOK
  <2>3. \A g \in s.graphs : g \in Rev \X (Ref \cup {TempGraph})
    BY DEF ReaderState
  <2> HIDE DEF next, t
  <2>4. \A g \in s.graphs : GraphHolds(next, t, g)
    BY <1>1, <1>2, <1>5, <2>1, <2>2, <2>3 DEF ReadIsExact, GraphHolds, Building, Walking
  <2> QED
    BY <2>1, <2>2, <2>4 DEF ReadIsExact, Walking
<1> HIDE DEF next
<1> QED
  BY <1>2, <1>3, <1>4, <1>5, WritesKeeps

LEMMA CreateTempKeeps ==
    ASSUME RInv, NEW p \in Reader, CreateTemp(p)
    PROVE  RInv'
<1>1. PICK s \in ReaderState : /\ s = reader[p]
                               /\ PathHolds(s)
                               /\ p \notin disturbed => ReadIsExact(s, temp)
  BY StateOfReader
<1> DEFINE next == [s EXCEPT !.stage = "nearest"]
           t == [temp EXCEPT ![s.rev] = {}]
<1>2. /\ s.stage = "create"
      /\ \/ temp[s.rev] = {} /\ Writes(p, s.rev, {}, next)
         \/ Throws(p)
  BY <1>1 DEF CreateTemp, Reads
<1>3. CASE Throws(p)
  BY <1>3, EndsKeeps DEF Throws
<1>4. CASE temp[s.rev] = {} /\ Writes(p, s.rev, {}, next)
  <2>1. s.rev \in Rev /\ next \in ReaderState
    BY DEF ReaderState, Stage
  <2>2. PathHolds(next)
    BY <1>1, <1>2 DEF PathHolds, ReaderState, Walking
  <2>3. t = temp
    BY <1>4, <2>1 DEF RInv, ReadTypeOK
  <2>4. ASSUME p \notin disturbed
        PROVE  ReadIsExact(next, temp)
    <3>1. next.graphs = s.graphs /\ next.stage = "nearest" /\ next.rev = s.rev
      BY DEF ReaderState
    <3> HIDE DEF next
    <3> QED
      BY <1>1, <1>2, <2>4, <3>1 DEF ReadIsExact, GraphHolds, Building, Walking
  <2> HIDE DEF next
  <2> QED
    BY <1>4, <2>1, <2>2, <2>3, <2>4, WritesKeeps
<1> QED
  BY <1>2, <1>3, <1>4

\* The graphs found so far stay exact while the reader goes on to rebuild.
LEMMA GraphsStayExact ==
    ASSUME NEW s, NEW t, NEW next, s.stage \in Building, ReadIsExact(s, t),
           next.stage \in Building, next.rev = s.rev, next.graphs = s.graphs
    PROVE  \A g \in next.graphs : GraphHolds(next, t, g)
BY DEF ReadIsExact, GraphHolds

LEMMA FindNearestKeeps ==
    ASSUME GraphInv, RInv, NEW p \in Reader, FindNearest(p)
    PROVE  RInv'
<1>1. PICK s \in ReaderState : /\ s = reader[p]
                               /\ PathHolds(s)
                               /\ p \notin disturbed => ReadIsExact(s, temp)
  BY StateOfReader
<1>2. /\ s.stage = "nearest"
      /\ \/ /\ \E r \in Ref : IsBranch(r) /\ s.rev \in references[r]
            /\ Continues(p, [s EXCEPT !.stage = "source", !.at = s.rev])
         \/ \E r \in Ref : Continues(p, [s EXCEPT !.stage = "leaf", !.ref = r])
         \/ Aborts(p)
  BY <1>1 DEF FindNearest, Reads
<1>3. s.path = {} /\ s.stage \in Building
  BY <1>1, <1>2 DEF PathHolds, Walking, Building
<1>4. CASE Aborts(p)
  BY <1>4, EndsKeeps DEF Aborts, RInv, ReadTypeOK
<1>5. ASSUME NEW r \in Ref, Continues(p, [s EXCEPT !.stage = "leaf", !.ref = r])
      PROVE  RInv'
  <2> DEFINE next == [s EXCEPT !.stage = "leaf", !.ref = r]
  <2>1. next \in ReaderState
    BY DEF ReaderState, Stage
  <2>2. next.graphs = s.graphs /\ next.stage = "leaf" /\ next.rev = s.rev /\ next.path = {}
    BY <1>3 DEF ReaderState
  <2> HIDE DEF next
  <2>3. PathHolds(next)
    BY <2>2 DEF PathHolds, Walking
  <2>4. ASSUME p \notin disturbed
        PROVE  ReadIsExact(next, temp)
    <3>1. \A g \in next.graphs : GraphHolds(next, temp, g)
      BY <1>1, <1>3, <2>2, <2>4, GraphsStayExact DEF Building
    <3> QED
      BY <2>2, <3>1 DEF ReadIsExact, Walking
  <2> QED
    BY <1>5, <2>1, <2>3, <2>4, ContinuesKeeps DEF next
<1>6. ASSUME NEW r \in Ref, IsBranch(r), s.rev \in references[r],
             Continues(p, [s EXCEPT !.stage = "source", !.at = s.rev])
      PROVE  RInv'
  <2> DEFINE next == [s EXCEPT !.stage = "source", !.at = s.rev]
  <2>1. next \in ReaderState
    BY DEF ReaderState, Stage
  <2>2. /\ next.graphs = s.graphs /\ next.stage = "source"
        /\ next.rev = s.rev /\ next.at = s.rev /\ next.path = {}
    BY <1>3 DEF ReaderState
  <2> HIDE DEF next
  <2>3. PathHolds(next)
    BY <2>2 DEF PathHolds
  <2>4. ASSUME p \notin disturbed
        PROVE  ReadIsExact(next, temp)
    <3>1. \A g \in next.graphs : GraphHolds(next, temp, g)
      BY <1>1, <1>3, <2>2, <2>4, GraphsStayExact DEF Building, Walking
    <3>2. s.rev \in revisions
      BY <1>6, ReferenceIsExact
    <3> QED
      BY <2>2, <3>1, <3>2 DEF ReadIsExact, WalkHolds
  <2> QED
    BY <1>6, <2>1, <2>3, <2>4, ContinuesKeeps DEF next
<1> QED
  BY <1>2, <1>4, <1>5, <1>6

(***************************************************************************)
(* The path: an edge of it ends at the revision asked for, or another one  *)
(* of it goes on from there.                                               *)
(***************************************************************************)
LEMMA StepDownTo ==
    ASSUME IInv, NEW h \in Rev, NEW v, h # v, DerivedStar(h, v)
    PROVE  \E cs \in changeSets : /\ cs.succ = h /\ cs.prior # NoRevision
                                  /\ DerivedStar(cs.prior, v)
<1>1. wasDerivedFrom \subseteq Rev \X Rev
  BY DEF IInv, TypeOK
<1>2. PICK e \in wasDerivedFrom : e[1] = h /\ DerivedStar(e[2], v)
  BY <1>1, StarUnfolds DEF DerivedPlus
<1>3. PICK cs \in changeSets : cs.succ = e[1] /\ cs.prior = e[2]
  BY DEF IInv, HistoryIsTree
<1>4. e[2] # NoRevision
  BY <1>1 DEF NoRevision, Rev
<1> QED
  BY <1>2, <1>3, <1>4

LEMMA PathLeads ==
    ASSUME IInv, NEW v \in Rev, NEW h \in Rev, h # v, DerivedStar(h, v)
    PROVE  /\ PathBetween(v, h) \subseteq Rev \X Rev
           /\ \E e \in PathBetween(v, h) : e[1] = h
           /\ \A e \in PathBetween(v, h) :
                 /\ e[2] < e[1]
                 /\ e[2] # v => \E d \in PathBetween(v, h) : d[1] = e[2]
           /\ \A e \in PathBetween(v, h) :
                 \E cs \in changeSets : cs.succ = e[1] /\ cs.prior = e[2]
<1>1. changeSets \subseteq ChangeSet /\ wasDerivedFrom \subseteq Rev \X Rev
  BY DEF IInv, TypeOK
<1>2. ASSUME NEW u \in Rev, DerivedStar(h, u), DerivedStar(u, v), u # v
      PROVE  \E d \in PathBetween(v, h) : d[1] = u
  <2>1. PICK cs \in changeSets : /\ cs.succ = u /\ cs.prior # NoRevision
                                 /\ DerivedStar(cs.prior, v)
    BY <1>2, StepDownTo
  <2>2. <<cs.succ, cs.prior>> \in PathBetween(v, h)
    BY <1>2, <2>1 DEF PathBetween
  <2> QED
    BY <2>1, <2>2
<1>3. ASSUME NEW e \in PathBetween(v, h)
      PROVE  /\ e \in Rev \X Rev /\ e[2] < e[1]
             /\ DerivedStar(h, e[2]) /\ DerivedStar(e[2], v)
             /\ \E cs \in changeSets : cs.succ = e[1] /\ cs.prior = e[2]
  <2>1. PICK cs \in changeSets : /\ e = <<cs.succ, cs.prior>> /\ cs.prior # NoRevision
                                 /\ DerivedStar(h, cs.succ) /\ DerivedStar(cs.prior, v)
    BY DEF PathBetween
  <2>2. cs.prior < cs.succ /\ <<cs.succ, cs.prior>> \in wasDerivedFrom
    BY <2>1 DEF IInv, HistoryIsTree
  <2>3. DerivedStar(h, cs.prior)
    BY <2>1, <2>2, StarIsClosed
  <2> QED
    BY <1>1, <2>1, <2>2, <2>3
<1>4. \E e \in PathBetween(v, h) : e[1] = h
  BY <1>2, StarContainsStart
<1> QED
  BY <1>2, <1>3, <1>4

LEMMA FindPathKeeps ==
    ASSUME GraphInv, RInv, NEW p \in Reader, FindPath(p)
    PROVE  RInv'
<1>1. PICK s \in ReaderState : /\ s = reader[p]
                               /\ PathHolds(s)
                               /\ p \notin disturbed => ReadIsExact(s, temp)
  BY StateOfReader
<1>2. /\ s.stage = "leaf"
      /\ \/ \E h \in references[s.ref] :
               /\ Resolves(s.ref, h) /\ h # s.rev /\ DerivedStar(h, s.rev)
               /\ Continues(p, [s EXCEPT !.stage = "source", !.ref = MasterRef,
                                         !.at = h, !.path = PathBetween(s.rev, h)])
         \/ Aborts(p)
  BY <1>1 DEF FindPath, Reads
<1>3. CASE Aborts(p)
  BY <1>3, EndsKeeps DEF Aborts, RInv, ReadTypeOK
<1>4. ASSUME NEW h \in references[s.ref], h # s.rev, DerivedStar(h, s.rev),
             Continues(p, [s EXCEPT !.stage = "source", !.ref = MasterRef,
                                    !.at = h, !.path = PathBetween(s.rev, h)])
      PROVE  RInv'
  <2>1. s.rev \in Rev /\ s.ref \in Ref /\ IInv
    BY DEF ReaderState, GraphInv
  <2>2. h \in revisions /\ h \in Rev
    BY <2>1, ReferenceIsExact
  <2>3. PICK P : P = PathBetween(s.rev, h)
    OBVIOUS
  <2>4. /\ P \subseteq Rev \X Rev
        /\ \E e \in P : e[1] = h
        /\ \A e \in P : /\ e[2] < e[1]
                        /\ e[2] # s.rev => \E d \in P : d[1] = e[2]
        /\ \A e \in P : \E cs \in changeSets : cs.succ = e[1] /\ cs.prior = e[2]
    BY <1>4, <2>1, <2>2, <2>3, PathLeads
  <2> DEFINE next == [s EXCEPT !.stage = "source", !.ref = MasterRef, !.at = h, !.path = P]
  <2>5. next \in ReaderState
    BY <2>2, <2>4 DEF ReaderState, Stage, Ref
  <2>6. /\ next.graphs = s.graphs /\ next.stage = "source" /\ next.rev = s.rev
        /\ next.at = h /\ next.path = P
    BY DEF ReaderState
  <2>7. Continues(p, next)
    BY <1>4, <2>3
  <2> HIDE DEF next
  <2>8. PathHolds(next)
    BY <2>4, <2>6 DEF PathHolds, Walking
  <2>9. ASSUME p \notin disturbed
        PROVE  ReadIsExact(next, temp)
    <3>1. \A g \in next.graphs : GraphHolds(next, temp, g)
      BY <1>1, <1>2, <2>6, <2>9, GraphsStayExact DEF Building, Walking
    <3>2. s.rev \in revisions
      BY <1>4, <2>1, <2>2, HistoryWithin, StarStaysInHistory
    <3> QED
      BY <2>2, <2>4, <2>6, <3>1, <3>2 DEF ReadIsExact, WalkHolds
  <2> QED
    BY <2>5, <2>7, <2>8, <2>9, ContinuesKeeps
<1> QED
  BY <1>2, <1>3, <1>4

LEMMA FindSourceKeeps ==
    ASSUME GraphInv, RInv, NEW p \in Reader, FindSource(p)
    PROVE  RInv'
<1>1. PICK s \in ReaderState : /\ s = reader[p]
                               /\ PathHolds(s)
                               /\ p \notin disturbed => ReadIsExact(s, temp)
  BY StateOfReader
<1>2. /\ s.stage = "source"
      /\ \/ \E r \in Ref : /\ s.at \in references[r]
                           /\ Continues(p, [s EXCEPT !.stage = "copy", !.ref = r])
         \/ Aborts(p)
  BY <1>1 DEF FindSource, Reads, SourcesAt
<1>3. CASE Aborts(p)
  BY <1>3, EndsKeeps DEF Aborts, RInv, ReadTypeOK
<1>4. ASSUME NEW r \in Ref, s.at \in references[r],
             Continues(p, [s EXCEPT !.stage = "copy", !.ref = r])
      PROVE  RInv'
  <2> DEFINE next == [s EXCEPT !.stage = "copy", !.ref = r]
  <2>1. next \in ReaderState
    BY DEF ReaderState, Stage
  <2>2. /\ next.graphs = s.graphs /\ next.stage = "copy" /\ next.rev = s.rev
        /\ next.at = s.at /\ next.path = s.path /\ next.ref = r
    BY DEF ReaderState
  <2> HIDE DEF next
  <2>3. PathHolds(next)
    BY <1>1, <1>2, <2>2 DEF PathHolds, Walking
  <2>4. ASSUME p \notin disturbed
        PROVE  ReadIsExact(next, temp)
    <3>1. \A g \in next.graphs : GraphHolds(next, temp, g)
      BY <1>1, <1>2, <2>2, <2>4, GraphsStayExact DEF Building, Walking
    <3>2. fullContent[r] = content[s.at]
      BY <1>4, ReferenceIsExact
    <3>3. WalkHolds(s)
      BY <1>1, <1>2, <2>4 DEF ReadIsExact, Walking
    <3> QED
      BY <2>2, <3>1, <3>2, <3>3 DEF ReadIsExact, WalkHolds
  <2> QED
    BY <1>4, <2>1, <2>3, <2>4, ContinuesKeeps DEF next
<1> QED
  BY <1>2, <1>3, <1>4

(***************************************************************************)
(* The rebuild: the copy is the content of the revision at the end of the  *)
(* path, and each change set undone leads to that of the one before it.    *)
(***************************************************************************)
LEMMA CopyFullGraphKeeps ==
    ASSUME GraphInv, RInv, NEW p \in Reader, CopyFullGraph(p)
    PROVE  RInv'
<1>1. PICK s \in ReaderState : /\ s = reader[p]
                               /\ PathHolds(s)
                               /\ p \notin disturbed => ReadIsExact(s, temp)
  BY StateOfReader
<1>2. PICK graph : graph = fullContent[s.ref]
  OBVIOUS
<1> DEFINE next == [s EXCEPT !.stage = "undo", !.ref = MasterRef]
           t == [temp EXCEPT ![s.rev] = graph]
<1>3. /\ s.stage = "copy"
      /\ \/ Writes(p, s.rev, graph, next)
         \/ Throws(p)
  BY <1>1, <1>2 DEF CopyFullGraph, Reads
<1>4. CASE Throws(p)
  BY <1>4, EndsKeeps DEF Throws
<1>5. CASE Writes(p, s.rev, graph, next)
  <2>1. s.rev \in Rev /\ next \in ReaderState
    BY DEF ReaderState, Stage, Ref
  <2>2. graph \in SUBSET Triple
    <3>1. s.ref \in Ref
      BY DEF ReaderState
    <3> QED
      BY <1>2, <3>1 DEF GraphInv, IInv, TypeOK
  <2>3. /\ next.graphs = s.graphs /\ next.stage = "undo" /\ next.rev = s.rev
        /\ next.at = s.at /\ next.path = s.path
    BY DEF ReaderState
  <2>4. t[s.rev] = graph /\ \A w : w # s.rev => t[w] = temp[w]
    BY <2>1 DEF RInv, ReadTypeOK
  <2>5. \A g \in s.graphs : g \in Rev \X (Ref \cup {TempGraph})
    BY DEF ReaderState
  <2> HIDE DEF next, t
  <2>6. PathHolds(next)
    BY <1>1, <1>3, <2>3 DEF PathHolds, Walking
  <2>7. ASSUME p \notin disturbed
        PROVE  ReadIsExact(next, t)
    <3>1. \A g \in next.graphs : GraphHolds(next, t, g)
      BY <1>1, <1>3, <2>3, <2>4, <2>5, <2>7 DEF ReadIsExact, GraphHolds, Building, Walking
    <3>2. WalkHolds(s) /\ fullContent[s.ref] = content[s.at]
      BY <1>1, <1>3, <2>7 DEF ReadIsExact, Walking
    <3> QED
      BY <1>2, <2>3, <2>4, <3>1, <3>2 DEF ReadIsExact, WalkHolds
  <2> QED
    BY <1>5, <2>1, <2>2, <2>6, <2>7, WritesKeeps DEF t
<1> QED
  BY <1>3, <1>4, <1>5

LEMMA UndoOnTempKeeps ==
    ASSUME GraphInv, RInv, NEW p \in Reader, UndoOnTemp(p)
    PROVE  RInv'
<1>1. PICK s \in ReaderState : /\ s = reader[p]
                               /\ PathHolds(s)
                               /\ p \notin disturbed => ReadIsExact(s, temp)
  BY StateOfReader
<1>2. PICK e \in s.path :
         LET found == {cs \in changeSets : cs.succ = e[1] /\ cs.prior = e[2]}
         IN  /\ e[1] = s.at
             /\ Writes(p, s.rev, (temp[s.rev] \cup UNION {cs.del : cs \in found})
                                     \ UNION {cs.add : cs \in found},
                       [s EXCEPT !.at = e[2], !.path = s.path \ {e}])
  BY <1>1 DEF UndoOnTemp
<1> DEFINE found == {cs \in changeSets : cs.succ = e[1] /\ cs.prior = e[2]}
<1>3. PICK graph : graph = (temp[s.rev] \cup UNION {cs.del : cs \in found})
                              \ UNION {cs.add : cs \in found}
  OBVIOUS
<1> DEFINE next == [s EXCEPT !.at = e[2], !.path = s.path \ {e}]
           t == [temp EXCEPT ![s.rev] = graph]
<1>4. s.stage = "undo" /\ e[1] = s.at /\ Writes(p, s.rev, graph, next)
  BY <1>1, <1>2, <1>3 DEF UndoOnTemp, Reads
<1>5. /\ s.path \subseteq Rev \X Rev /\ s.rev \in Rev /\ s.at \in Rev
      /\ e \in Rev \X Rev /\ next \in ReaderState
  BY DEF ReaderState
<1>6. graph \in SUBSET Triple
  <2>1. temp[s.rev] \in SUBSET Triple
    BY <1>5 DEF RInv, ReadTypeOK
  <2>2. \A cs \in changeSets : cs.add \in SUBSET Triple /\ cs.del \in SUBSET Triple
    BY DEF GraphInv, IInv, TypeOK, ChangeSet
  <2> QED
    BY <1>3, <2>1, <2>2
<1>7. /\ next.graphs = s.graphs /\ next.stage = "undo" /\ next.rev = s.rev
      /\ next.at = e[2] /\ next.path = s.path \ {e}
  BY <1>4 DEF ReaderState
<1>8. t[s.rev] = graph /\ \A w : w # s.rev => t[w] = temp[w]
  BY <1>5 DEF RInv, ReadTypeOK
<1>9. \A g \in s.graphs : g \in Rev \X (Ref \cup {TempGraph})
  BY DEF ReaderState
<1> HIDE DEF next, t
<1>10. PathHolds(next)
  <2>1. \A x \in s.path : x[1] \in Int /\ x[2] \in Int
    BY <1>5 DEF Rev
  <2>2. \A x \in s.path : x[1] <= s.at =>
           /\ x[2] < x[1]
           /\ x[2] # s.rev => \E d \in s.path : d[1] = x[2]
    BY <1>1, <1>4 DEF PathHolds, Walking
  <2>3. e[2] < e[1] /\ (e[2] # s.rev => \E d \in s.path : d[1] = e[2])
    BY <1>4, <2>1, <2>2
  <2>4. \A x \in s.path \ {e} : x[1] <= e[2] =>
           /\ x[2] < x[1]
           /\ x[2] # s.rev => \E d \in s.path : d[1] = x[2] /\ d # e
    BY <1>4, <2>1, <2>2, <2>3
  <2>5. e[2] # s.rev => \E d \in s.path : d[1] = e[2] /\ d # e
    BY <2>1, <2>3
  <2> QED
    BY <1>7, <2>4, <2>5 DEF PathHolds, Walking
<1>11. ASSUME p \notin disturbed
       PROVE  ReadIsExact(next, t)
  <2>1. ReadIsExact(s, temp) /\ WalkHolds(s) /\ temp[s.rev] = content[s.at]
    BY <1>1, <1>4, <1>11 DEF ReadIsExact, Walking
  <2>2. \A g \in next.graphs : GraphHolds(next, t, g)
    BY <1>4, <1>7, <1>8, <1>9, <2>1 DEF ReadIsExact, GraphHolds, Building, Walking
  <2>3. PICK cs \in changeSets : cs.succ = e[1] /\ cs.prior = e[2]
    BY <2>1 DEF WalkHolds
  <2>4. found = {cs}
    BY <2>3 DEF GraphInv, IInv, HistoryIsTree
  <2>5. cs.prior # NoRevision
    BY <1>5, <2>3 DEF NoRevision, Rev
  <2>6. graph = Undone(content[cs.succ], cs)
    <3>1. UNION {c.del : c \in found} = cs.del /\ UNION {c.add : c \in found} = cs.add
      BY <2>4
    <3> HIDE DEF found
    <3> QED
      BY <1>3, <1>4, <2>1, <2>3, <3>1 DEF Undone
  <2>7. graph = content[e[2]]
    BY <2>3, <2>5, <2>6 DEF GraphInv, IInv, ChangeSetsReplay
  <2>8. e[2] \in revisions
    BY <2>3, <2>5 DEF GraphInv, IInv, HistoryIsTree
  <2>9. WalkHolds(next)
    BY <1>7, <2>1, <2>8 DEF WalkHolds
  <2> QED
    BY <1>7, <1>8, <2>2, <2>7, <2>9 DEF ReadIsExact
<1> QED
  BY <1>4, <1>5, <1>6, <1>10, <1>11, WritesKeeps DEF t

LEMMA FinishTempKeeps ==
    ASSUME RInv, NEW p \in Reader, FinishTemp(p)
    PROVE  RInv'
<1>1. PICK s \in ReaderState : /\ s = reader[p]
                               /\ PathHolds(s)
                               /\ p \notin disturbed => ReadIsExact(s, temp)
  BY StateOfReader
<1> DEFINE next == [Resting EXCEPT !.stage = "find", !.rest = s.rest, !.made = {s.rev},
                                   !.graphs = s.graphs \cup {<<s.rev, TempGraph>>}]
<1>2. s.stage = "undo" /\ s.at = s.rev /\ Continues(p, next)
  BY <1>1 DEF FinishTemp, Reads
<1>3. next \in ReaderState
  <2>1. /\ s.rest \in Seq(Rev) /\ s.rev \in Rev
        /\ s.graphs \subseteq Rev \X (Ref \cup {TempGraph})
    BY DEF ReaderState
  <2>2. Resting \in ReaderState
    BY RestingHolds
  <2>3. ASSUME NEW G \in SUBSET (Rev \X (Ref \cup {TempGraph})), NEW q \in Seq(Rev),
               NEW M \in SUBSET Rev
        PROVE  [Resting EXCEPT !.stage = "find", !.rest = q, !.made = M, !.graphs = G]
                  \in ReaderState
    BY <2>2 DEF ReaderState, Stage
  <2>4. s.graphs \cup {<<s.rev, TempGraph>>} \in SUBSET (Rev \X (Ref \cup {TempGraph}))
    BY <2>1
  <2> QED
    BY <2>1, <2>3, <2>4
<1>4. /\ next.stage = "find" /\ next.graphs = s.graphs \cup {<<s.rev, TempGraph>>}
      /\ next.path = {}
  BY DEF Resting
<1> HIDE DEF next
<1>5. PathHolds(next)
  BY <1>4 DEF PathHolds, Walking
<1>6. ASSUME p \notin disturbed
      PROVE  ReadIsExact(next, temp)
  <2>1. ReadIsExact(s, temp) /\ s.rev \in revisions /\ temp[s.rev] = content[s.rev]
    BY <1>1, <1>2, <1>6 DEF ReadIsExact, WalkHolds, Walking
  <2>2. ASSUME NEW g \in next.graphs
        PROVE  GraphHolds(next, temp, g)
    <3>1. CASE g = <<s.rev, TempGraph>>
      BY <2>1, <3>1 DEF GraphHolds
    <3>2. CASE g # <<s.rev, TempGraph>>
      BY <1>4, <2>1, <3>2 DEF ReadIsExact, GraphHolds
    <3> QED
      BY <3>1, <3>2
  <2> QED
    BY <1>4, <2>2 DEF ReadIsExact, Walking
<1> QED
  BY <1>2, <1>3, <1>5, <1>6, ContinuesKeeps

LEMMA AnswerQueryKeeps ==
    ASSUME RInv, NEW p \in Reader, AnswerQuery(p)
    PROVE  RInv'
<1>1. PICK s \in ReaderState : /\ s = reader[p]
                               /\ PathHolds(s)
                               /\ p \notin disturbed => ReadIsExact(s, temp)
  BY StateOfReader
<1> DEFINE next == [s EXCEPT !.stage = "purge", !.graphs = {}]
<1>2. /\ s.stage = "find"
      /\ Continues(p, next) \/ (UNCHANGED stuck /\ Ends(p))
  BY <1>1 DEF AnswerQuery, Reads
<1>3. next \in ReaderState
  BY DEF ReaderState, Stage
<1>4. next.stage = "purge" /\ next.graphs = {} /\ next.path = s.path
  BY DEF ReaderState
<1> HIDE DEF next
<1>5. PathHolds(next) /\ ReadIsExact(next, temp)
  BY <1>1, <1>2, <1>4 DEF PathHolds, ReadIsExact, Walking
<1>6. CASE UNCHANGED stuck /\ Ends(p)
  BY <1>6, EndsKeeps DEF RInv, ReadTypeOK
<1> QED
  BY <1>2, <1>3, <1>5, <1>6, ContinuesKeeps

LEMMA PurgeTempKeeps ==
    ASSUME RInv, NEW p \in Reader, PurgeTemp(p)
    PROVE  RInv'
<1>1. PICK v \in reader[p].made : Writes(p, v, {}, Resting)
  BY DEF PurgeTemp
<1>2. v \in Rev
  BY DEF RInv, ReadTypeOK, ReaderState
<1> QED
  BY <1>1, <1>2, RestingHolds, WritesKeeps

(***************************************************************************)
(* The invariant.                                                          *)
(***************************************************************************)
ReadInv == GraphInv /\ RInv

LEMMA InitReadInv == ReadInit => ReadInv
<1> SUFFICES ASSUME ReadInit
             PROVE  ReadInv
  OBVIOUS
<1>1. GraphInv
  BY InitGraphInv DEF ReadInit
<1>2. ReadTypeOK
  BY RestingHolds DEF ReadInit, ReadTypeOK
<1>3. \A p \in Reader : PathHolds(reader[p]) /\ ReadIsExact(reader[p], temp)
  BY RestingHolds DEF ReadInit
<1> QED
  BY <1>1, <1>2, <1>3 DEF ReadInv, RInv

LEMMA NextKeepsReadInv ==
    ASSUME ReadInv, [ReadNext]_readVars
    PROVE  ReadInv'
<1>1. GraphInv /\ RInv
  BY DEF ReadInv
<1>2. GraphInv'
  BY <1>1, ReadNextIsNext, NextKeepsGraphInv
<1>3. ASSUME NEW p \in Reader, ReadStep(p)
      PROVE  RInv'
  BY <1>1, <1>3, FindReferenceKeeps, FindRevisionKeeps, DropTempKeeps, CreateTempKeeps,
     FindNearestKeeps, FindPathKeeps, FindSourceKeeps, CopyFullGraphKeeps, UndoOnTempKeeps,
     FinishTempKeeps, AnswerQueryKeeps, PurgeTempKeeps DEF ReadStep
<1>4. ASSUME NEW p \in Reader, StartRead(p)
      PROVE  RInv'
  BY <1>1, <1>4, StartReadKeeps
<1>5. ASSUME UNCHANGED <<vars, temp, reader, disturbed>>, stuck' \in BOOLEAN
      PROVE  RInv'
  <2>1. ReadTypeOK'
    BY <1>1, <1>5 DEF RInv, ReadTypeOK
  <2>2. \A s, t : ReadIsExact(s, t)' <=> ReadIsExact(s, t)
    BY <1>5 DEF ReadIsExact, GraphHolds, WalkHolds, vars
  <2> QED
    BY <1>1, <1>5, <2>1, <2>2 DEF RInv, PathHolds
<1>6. ASSUME NEW r, ReferenceThrows(r)
      PROVE  RInv'
  BY <1>5, <1>6 DEF ReferenceThrows
<1>7. ASSUME UNCHANGED readVars
      PROVE  RInv'
  BY <1>1, <1>5, <1>7 DEF readVars, RInv, ReadTypeOK
<1>8. Request \/ DropGraph \/ Restart => RInv'
  BY <1>1, RequestKeepsReads, DropKeepsReads, RestartKeepsReads
<1>9. RInv'
  BY <1>3, <1>4, <1>6, <1>7, <1>8 DEF ReadNext
<1> QED
  BY <1>2, <1>9 DEF ReadInv

\* The inductive invariant: the graph is as RevisionGraph has it, and every
\* reader holds what it has found out so far.
THEOREM ReadInvariant == ReadSpec => []ReadInv
<1>1. ReadInit => ReadInv
  BY InitReadInv
<1>2. ReadInv /\ [ReadNext]_readVars => ReadInv'
  BY NextKeepsReadInv
<1> QED
  BY <1>1, <1>2, PTL DEF ReadSpec

\* Every variable of the reads keeps its type: a path only names revisions.
THEOREM ReadTyping == ReadSpec => []ReadTypeOK
<1>1. ReadInv => ReadTypeOK
  BY DEF ReadInv, RInv
<1> QED
  BY <1>1, ReadInvariant, PTL

\* A query is evaluated on the contents of the revisions it names, unless
\* another request wrote to one of these graphs since they were found: however
\* many readers, requests, left-over graphs and restarts there are.
THEOREM ReadsAreExact == ReadSpec => []UndisturbedReadsAreExact
<1>1. ReadInv => UndisturbedReadsAreExact
  <2> SUFFICES ASSUME ReadInv, NEW p \in Reader \ disturbed, Reads(p, "find"),
                      NEW g \in reader[p].graphs
               PROVE  Triples(g) = content[g[1]]
    BY DEF UndisturbedReadsAreExact
  <2>1. GraphHolds(reader[p], temp, g)
    BY DEF ReadInv, RInv, ReadIsExact
  <2> QED
    BY <2>1 DEF GraphHolds, Reads, Building, Walking, Triples
<1> QED
  BY <1>1, ReadInvariant, PTL

\* CREATE GRAPH on a temporary graph throws, and blocks all writers, only if
\* another reader works on the same revision.
THEOREM CreateFailsOnlyInRace == ReadSpec => []CreateFailsOnlyByRace
<1>1. ReadInv => CreateFailsOnlyByRace
  BY DEF ReadInv, RInv, ReadIsExact, CreateFailsOnlyByRace, Reads
<1> QED
  BY <1>1, ReadInvariant, PTL

\* A rebuild never gets stuck on its path, whatever was committed, merged or
\* dropped since it read it.
THEOREM PathAlwaysLeadsBack == ReadSpec => []PathLeadsBack
<1>1. ReadInv => PathLeadsBack
  BY DEF ReadInv, RInv, PathHolds, Walking, PathLeadsBack, Reads
<1> QED
  BY <1>1, ReadInvariant, PTL

(***************************************************************************)
(* Rewritten queries of RevisionGraph.  In a tree, whichever choices are   *)
(* made, the path walked from u to v is a chain: two of its revisions are  *)
(* always derived one from the other.                                      *)
(***************************************************************************)
LEMMA OneParent ==
    ASSUME IInv, NEW e \in wasDerivedFrom
    PROVE  /\ e[1] \in revisions /\ e[2] \in revisions /\ e[1] \in Rev /\ e[2] \in Rev
           /\ e[2] < e[1]
           /\ \A d \in wasDerivedFrom : d[1] = e[1] => d[2] = e[2]
<1>1. e[1] \in revisions /\ e[2] \in revisions /\ e[1] \in Rev /\ e[2] \in Rev
  BY HistoryWithin
<1>2. PICK cs \in changeSets : cs.succ = e[1] /\ cs.prior = e[2]
  BY DEF IInv, HistoryIsTree
<1>3. cs.prior < cs.succ
  BY DEF IInv, HistoryIsTree
<1>4. ASSUME NEW d \in wasDerivedFrom, d[1] = e[1]
      PROVE  d[2] = e[2]
  <2>1. PICK c \in changeSets : c.succ = d[1] /\ c.prior = d[2]
    BY DEF IInv, HistoryIsTree
  <2>2. c = cs
    BY <1>2, <1>4, <2>1 DEF IInv, HistoryIsTree
  <2> QED
    BY <1>2, <2>1, <2>2
<1> QED
  BY <1>1, <1>2, <1>3, <1>4

LEMMA StarGoesDown ==
    ASSUME IInv, NEW v \in Rev, NEW u, DerivedStar(v, u)
    PROVE  u \in Rev /\ u <= v
<1> DEFINE S == {w \in Rev : w <= v}
<1>1. v \in S /\ S \in SUBSET Rev
  BY DEF Rev
<1>2. ASSUME NEW e \in wasDerivedFrom, e[1] \in S
      PROVE  e[2] \in S
  <2>1. e[1] \in Rev /\ e[2] \in Rev /\ e[2] < e[1]
    BY OneParent
  <2> QED
    BY <1>2, <2>1 DEF Rev
<1> HIDE DEF S
<1>3. u \in S
  BY <1>1, <1>2 DEF DerivedStar
<1> QED
  BY <1>3 DEF S

LEMMA StarIsAntisymmetric ==
    ASSUME IInv, NEW v \in Rev, NEW u \in Rev, DerivedStar(v, u), DerivedStar(u, v)
    PROVE  u = v
<1>1. u <= v /\ v <= u
  BY StarGoesDown
<1> QED
  BY <1>1 DEF Rev

\* What a revision leads to, its only parent leads to as well.
LEMMA StarThroughParent ==
    ASSUME IInv, NEW e \in wasDerivedFrom, NEW u, u # e[1], DerivedStar(e[1], u)
    PROVE  DerivedStar(e[2], u)
<1>1. e[1] \in Rev /\ wasDerivedFrom \subseteq Rev \X Rev
  BY OneParent DEF IInv, TypeOK
<1>2. DerivedPlus(e[1], u)
  BY <1>1, StarUnfolds
<1>3. PICK d \in wasDerivedFrom : d[1] = e[1] /\ DerivedStar(d[2], u)
  BY <1>2 DEF DerivedPlus
<1>4. d[2] = e[2]
  BY <1>3, OneParent
<1> QED
  BY <1>3, <1>4

\* The path that the choices f walk from u to v.
IsWalk(v, u, f) ==
    /\ v \in revisions
    /\ u \in revisions
    /\ DerivedStar(u, v)
    /\ f \in Choices(v, u)

LEMMA WalkedIsClosed ==
    ASSUME IInv, NEW v, NEW u, NEW f, IsWalk(v, u, f)
    PROVE  /\ Walked(f, u) \subseteq Between(v, u)
           /\ u \in Walked(f, u)
           /\ \A w \in Walked(f, u) \ {v} : /\ w \in DOMAIN f
                                            /\ <<w, f[w]>> \in wasDerivedFrom
                                            /\ f[w] \in Walked(f, u)
           /\ \A S \in SUBSET Between(v, u) :
                 (u \in S /\ \A w \in S \ {v} : f[w] \in S) => Walked(f, u) \subseteq S
<1>1. /\ f \in [Between(v, u) \ {v} -> Between(v, u)]
      /\ \A w \in DOMAIN f : <<w, f[w]>> \in wasDerivedFrom
  BY DEF IsWalk, Choices
<1>2. u \in Between(v, u) /\ Between(v, u) \subseteq revisions
  BY StarContainsStart DEF IsWalk, Between
<1> DEFINE B == Between(v, u)
<1>3. ASSUME NEW S \in SUBSET B, u \in S, \A w \in S \ {v} : f[w] \in S
      PROVE  Walked(f, u) \subseteq S
  <2>1. S \in SUBSET revisions
    BY <1>2
  <2>2. \A w \in S \cap DOMAIN f : f[w] \in S
    BY <1>1, <1>3
  <2> QED
    BY <1>3, <2>1, <2>2 DEF Walked
<1>4. Walked(f, u) \subseteq B
  <2>1. \A w \in B \ {v} : f[w] \in B
    BY <1>1
  <2> HIDE DEF B
  <2> QED
    BY <1>2, <1>3, <2>1 DEF B
<1>5. u \in Walked(f, u)
  BY DEF Walked, IsWalk
<1>6. ASSUME NEW w \in Walked(f, u) \ {v}
      PROVE  w \in DOMAIN f /\ <<w, f[w]>> \in wasDerivedFrom /\ f[w] \in Walked(f, u)
  <2>1. w \in DOMAIN f
    BY <1>1, <1>4
  <2>2. f[w] \in revisions
    BY <1>1, <1>2, <2>1
  <2>3. f[w] \in Walked(f, u)
    BY <2>1, <2>2 DEF Walked
  <2> QED
    BY <1>1, <2>1, <2>3
<1> QED
  BY <1>3, <1>4, <1>5, <1>6

LEMMA WalkReachesTarget ==
    ASSUME IInv, NEW v, NEW u, NEW f, IsWalk(v, u, f)
    PROVE  v \in Walked(f, u)
<1> DEFINE P == Walked(f, u)
<1>1. SUFFICES ASSUME v \notin P
               PROVE  FALSE
  OBVIOUS
<1>2. P \in SUBSET Rev /\ u \in P
  BY WalkedIsClosed DEF Walked, IInv, TypeOK
<1>3. ASSUME NEW e \in wasDerivedFrom, e[1] \in P
      PROVE  e[2] \in P
  <2>1. <<e[1], f[e[1]]>> \in wasDerivedFrom /\ f[e[1]] \in P
    BY <1>1, <1>3, WalkedIsClosed
  <2>2. f[e[1]] = e[2]
    BY <2>1, OneParent
  <2> QED
    BY <2>1, <2>2
<1> HIDE DEF P
<1> QED
  BY <1>1, <1>2, <1>3 DEF IsWalk, DerivedStar

LEMMA WalkIsChain ==
    ASSUME IInv, NEW v, NEW u, NEW f, IsWalk(v, u, f),
           NEW x \in Walked(f, u), NEW y \in Walked(f, u)
    PROVE  DerivedStar(x, y) \/ DerivedStar(y, x)
<1> DEFINE S == {w \in Between(v, u) : DerivedStar(x, w) \/ DerivedStar(w, x)}
<1>1. x \in Between(v, u) /\ u \in Between(v, u)
  BY WalkedIsClosed
<1>2. u \in S
  BY <1>1 DEF Between
<1>3. ASSUME NEW w \in S \ {v}
      PROVE  f[w] \in S
  <2>1. <<w, f[w]>> \in wasDerivedFrom /\ f[w] \in Between(v, u)
    BY <1>3 DEF IsWalk, Choices
  <2>2. CASE DerivedStar(x, w)
    BY <2>1, <2>2, StarIsClosed
  <2>3. CASE DerivedStar(w, x) /\ x = w
    BY <2>1, <2>3, StarIsClosed
  <2>4. CASE DerivedStar(w, x) /\ x # w
    <3>1. DerivedStar(f[w], x)
      BY <2>1, <2>4, StarThroughParent
    <3> QED
      BY <2>1, <3>1
  <2> QED
    BY <1>3, <2>2, <2>3, <2>4
<1>4. S \in SUBSET Between(v, u)
  OBVIOUS
<1> HIDE DEF S
<1>5. Walked(f, u) \subseteq S
  BY <1>2, <1>3, <1>4, WalkedIsClosed
<1> QED
  BY <1>5 DEF S

(***************************************************************************)
(* Walking back, the rewritten pattern over the part of the path that has  *)
(* been walked yields the content of the revision that has been reached.   *)
(***************************************************************************)
WalkedUpTo(f, u, w) == {x \in Walked(f, u) : x # w /\ DerivedStar(x, w)}

LEMMA WalkedFurther ==
    ASSUME IInv, NEW v, NEW u, NEW f, IsWalk(v, u, f), NEW w \in Walked(f, u), w # v
    PROVE  WalkedUpTo(f, u, f[w]) = WalkedUpTo(f, u, w) \cup {w}
<1>1. <<w, f[w]>> \in wasDerivedFrom /\ f[w] \in Walked(f, u)
  BY WalkedIsClosed
<1>2. w \in Rev /\ f[w] \in Rev /\ f[w] < w
  BY <1>1, OneParent
<1>3. \A x \in Walked(f, u) : x \in Rev
  BY DEF Walked, IInv, TypeOK
<1>4. ASSUME NEW x \in WalkedUpTo(f, u, f[w]), x # w
      PROVE  x \in WalkedUpTo(f, u, w)
  <2>1. x \in Walked(f, u) /\ x # f[w] /\ DerivedStar(x, f[w]) /\ x \in Rev
    BY <1>3 DEF WalkedUpTo
  <2>2. ASSUME DerivedStar(w, x)
        PROVE  FALSE
    <3>1. DerivedStar(f[w], x)
      BY <1>1, <1>4, <2>2, StarThroughParent
    <3> QED
      BY <1>2, <2>1, <3>1, StarIsAntisymmetric
  <2>3. DerivedStar(x, w)
    BY <2>1, <2>2, WalkIsChain
  <2> QED
    BY <1>4, <2>1, <2>3 DEF WalkedUpTo
<1>5. ASSUME NEW x \in WalkedUpTo(f, u, w)
      PROVE  x \in WalkedUpTo(f, u, f[w])
  <2>1. x \in Walked(f, u) /\ x \in Rev /\ DerivedStar(x, w)
    BY <1>3 DEF WalkedUpTo
  <2>2. DerivedStar(x, f[w])
    BY <1>1, <2>1, StarIsClosed
  <2>3. w <= x
    BY <2>1, StarGoesDown
  <2>4. x # f[w]
    BY <1>2, <2>1, <2>3 DEF Rev
  <2> QED
    BY <2>1, <2>2, <2>4 DEF WalkedUpTo
<1>6. w \in WalkedUpTo(f, u, f[w])
  <2>1. DerivedStar(w, f[w])
    BY <1>1, StarContainsStart, StarIsClosed
  <2>2. w # f[w]
    BY <1>2 DEF Rev
  <2> QED
    BY <2>1, <2>2 DEF WalkedUpTo
<1> QED
  BY <1>4, <1>5, <1>6

LEMMA RewrittenAtEnd ==
    ASSUME IInv, AbsentIsNowhere, NEW v, NEW u, NEW f, IsWalk(v, u, f), HasReference(u)
    PROVE  Rewritten(<<u, Walked(f, u)>>, WalkedUpTo(f, u, u)) = content[u]
<1>1. WalkedUpTo(f, u, u) = {}
  <2> SUFFICES ASSUME NEW x \in WalkedUpTo(f, u, u)
               PROVE  FALSE
    OBVIOUS
  <2>1. DerivedStar(x, u) /\ x # u /\ DerivedStar(u, x)
    BY WalkedIsClosed DEF WalkedUpTo, Between
  <2>2. x \in Rev /\ u \in Rev
    BY DEF WalkedUpTo, Walked, IsWalk, IInv, TypeOK
  <2> QED
    BY <2>1, <2>2, StarIsAntisymmetric
<1>2. \A r \in Ref : u \in references[r] => fullContent[r] = content[u]
  BY DEF AbsentIsNowhere, IsWalk, IInv, FullGraphIsLeafContent, TypeOK
<1>3. \E r \in Ref : u \in references[r]
  BY DEF HasReference
<1>4. content[u] \subseteq Triple
  BY DEF IsWalk, IInv, TypeOK
<1>5. \A t : Rewritten(<<u, Walked(f, u)>>, {}) =
               {s \in Triple : \E r \in Ref : u \in references[r] /\ s \in fullContent[r]}
  BY DEF Rewritten, Hidden
<1> QED
  BY <1>1, <1>2, <1>3, <1>4, <1>5

\* One more revision on the path: its change set is undone.
LEMMA RewrittenFurther ==
    ASSUME IInv, NEW v, NEW u, NEW f, IsWalk(v, u, f), NEW w \in Walked(f, u), w # v,
           Rewritten(<<u, Walked(f, u)>>, WalkedUpTo(f, u, w)) = content[w]
    PROVE  Rewritten(<<u, Walked(f, u)>>, WalkedUpTo(f, u, f[w])) = content[f[w]]
<1> DEFINE P == Walked(f, u)
           Q == WalkedUpTo(f, u, w)
           R == WalkedUpTo(f, u, f[w])
<1>1. <<w, f[w]>> \in wasDerivedFrom
  BY WalkedIsClosed
<1>2. PICK cs \in changeSets : cs.succ = w /\ cs.prior = f[w]
  BY <1>1 DEF IInv, HistoryIsTree
<1>3. w \in Rev /\ f[w] \in Rev
  BY <1>1, OneParent
<1>4. cs.prior # NoRevision /\ cs.del \subseteq Triple
  BY <1>2, <1>3 DEF NoRevision, Rev, IInv, TypeOK, ChangeSet
<1>5. content[f[w]] = (content[w] \cup cs.del) \ cs.add
  BY <1>2, <1>4 DEF IInv, ChangeSetsReplay, Undone
<1>6. \A d \in changeSets : d.succ = w => d = cs
  BY <1>2 DEF IInv, HistoryIsTree
<1>7. R = Q \cup {w}
  BY WalkedFurther
<1>8. \A x \in R \cup {u} : DerivedStar(x, w)
  BY <1>7, WalkedIsClosed, StarContainsStart DEF WalkedUpTo, Between
<1>9. \A t : ~ Hidden(t, w, Q)
  <2> SUFFICES ASSUME NEW d \in changeSets, d.succ \in Q, DerivedStar(w, d.succ)
               PROVE  FALSE
    BY DEF Hidden
  <2>1. d.succ \in Rev /\ d.succ # w /\ DerivedStar(d.succ, w)
    BY DEF WalkedUpTo, Walked, IInv, TypeOK
  <2> QED
    BY <1>3, <2>1, StarIsAntisymmetric
<1> HIDE DEF P, Q, R
<1>10. \A t : \A x \in R \cup {u} : Hidden(t, x, R) <=> (Hidden(t, x, Q) \/ t \in cs.add)
  BY <1>2, <1>6, <1>7, <1>8 DEF Hidden
<1>11. ASSUME NEW t \in Triple
       PROVE  t \in Rewritten(<<u, P>>, R) <=>
                 (t \in Rewritten(<<u, P>>, Q) \/ t \in cs.del) /\ t \notin cs.add
  <2> DEFINE InFullGraph == \E r \in Ref : u \in references[r] /\ t \in fullContent[r]
             Deleted(d, X) == d.succ \in X /\ t \in d.del /\ ~ Hidden(t, d.succ, X)
  <2>1. /\ t \in Rewritten(<<u, P>>, R) <=>
              (~ Hidden(t, u, R) /\ InFullGraph) \/ \E d \in changeSets : Deleted(d, R)
        /\ t \in Rewritten(<<u, P>>, Q) <=>
              (~ Hidden(t, u, Q) /\ InFullGraph) \/ \E d \in changeSets : Deleted(d, Q)
    BY DEF Rewritten
  <2>2. ASSUME NEW d \in changeSets
        PROVE  Deleted(d, R) <=>
                  (Deleted(d, Q) \/ (d = cs /\ t \in cs.del)) /\ t \notin cs.add
    BY <1>2, <1>6, <1>7, <1>9, <1>10
  <2>3. (\E d \in changeSets : Deleted(d, R)) <=>
           ((\E d \in changeSets : Deleted(d, Q)) \/ t \in cs.del) /\ t \notin cs.add
    <3> HIDE DEF Deleted
    <3> QED
      BY <2>2
  <2>4. Hidden(t, u, R) <=> (Hidden(t, u, Q) \/ t \in cs.add)
    BY <1>10
  <2> HIDE DEF InFullGraph, Deleted
  <2> QED
    BY <2>1, <2>3, <2>4
<1>12. Rewritten(<<u, P>>, Q) = content[w]
  BY DEF P, Q
<1>13. content[w] \subseteq Triple /\ Rewritten(<<u, P>>, R) \subseteq Triple
  BY <1>3 DEF Rewritten, IInv, TypeOK
<1>14. Rewritten(<<u, P>>, R) = content[f[w]]
  BY <1>4, <1>5, <1>11, <1>12, <1>13
<1> QED
  BY <1>14 DEF P, R

LEMMA RewrittenIsContent ==
    ASSUME IInv, AbsentIsNowhere, NEW v, NEW u, NEW f, IsWalk(v, u, f), HasReference(u)
    PROVE  Rewritten(<<u, Walked(f, u)>>, Walked(f, u) \ {v}) = content[v]
<1> DEFINE P == Walked(f, u)
           S == {w \in P : Rewritten(<<u, P>>, WalkedUpTo(f, u, w)) = content[w]}
<1>1. S \in SUBSET Between(v, u)
  BY WalkedIsClosed
<1>2. u \in S
  BY RewrittenAtEnd, WalkedIsClosed
<1>3. ASSUME NEW w \in S \ {v}
      PROVE  f[w] \in S
  <2>1. w \in P /\ w # v /\ Rewritten(<<u, P>>, WalkedUpTo(f, u, w)) = content[w]
    BY <1>3
  <2>2. f[w] \in P
    BY <2>1, WalkedIsClosed
  <2>3. Rewritten(<<u, P>>, WalkedUpTo(f, u, f[w])) = content[f[w]]
    BY <2>1, RewrittenFurther
  <2> QED
    BY <2>2, <2>3
<1> HIDE DEF S
<1>4. v \in S
  BY <1>1, <1>2, <1>3, WalkedIsClosed, WalkReachesTarget
<1>5. WalkedUpTo(f, u, v) = P \ {v}
  BY WalkedIsClosed DEF WalkedUpTo, Between
<1> QED
  BY <1>4, <1>5 DEF S

\* For every history without three-way merges, whichever reference and path the
\* rewriter takes: the rewritten pattern matches exactly the content of the old
\* revision.
THEOREM RewrittenQueriesAreExact == Spec => []RewritingIsExact
<1>1. IInv /\ AbsentIsNowhere => RewritingIsExact
  <2> SUFFICES ASSUME IInv, AbsentIsNowhere, NEW v \in revisions, NEW b \in BestPaths(v)
               PROVE  Rewritten(b, b[2] \ {v}) = content[v]
    BY DEF RewritingIsExact
  <2>1. PICK u \in PathEnds(v) : b \in {u} \X Paths(v, u)
    BY DEF BestPaths
  <2>2. PICK f \in Choices(v, u) : b = <<u, Walked(f, u)>>
    BY <2>1 DEF Paths
  <2>3. IsWalk(v, u, f) /\ HasReference(u)
    BY DEF IsWalk, PathEnds
  <2>4. b[2] = Walked(f, u)
    BY <2>2
  <2> QED
    BY <2>2, <2>3, <2>4, RewrittenIsContent
<1>2. Init => AbsentIsNowhere
  BY DEF Init, AbsentIsNowhere
<1>3. IInv /\ AbsentIsNowhere /\ [Next]_vars => AbsentIsNowhere'
  BY NextKeepsAbsent
<1> QED
  BY <1>1, <1>2, <1>3, Invariant, PTL DEF Spec

=============================================================================
