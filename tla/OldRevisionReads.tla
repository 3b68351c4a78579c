--------------------------- MODULE OldRevisionReads ---------------------------
(***************************************************************************)
(* SELECT of old revisions without query rewriting, beside the requests    *)
(* that change the graph.  A revision that no reference is at is rebuilt   *)
(* in a temporary graph, whose name depends on the revision only: every    *)
(* reader of this revision drops, creates, fills and purges that one       *)
(* graph, each in a transaction of its own.                                *)
(*                                                                         *)
(* The requests that change the graph are the steps of RevisionGraph; the  *)
(* reads run between them.  An update that throws leaves the writer lock   *)
(* of the embedded store taken until the server is started again.          *)
(***************************************************************************)
EXTENDS RevisionGraph, Sequences

CONSTANTS
    Reader,     \* threads that serve SELECT requests
    Changes,    \* pairs <<add, delete>>: the updates that clients send
    Queries     \* the queries: sequences of the revisions they name

ASSUME QueriesAssumption == Queries \subseteq Seq(Rev)
ASSUME ChangesAssumption == Changes \subseteq (SUBSET Triple) \X (SUBSET Triple)

VARIABLES
    temp,       \* the temporary graph of each revision
    reader,     \* the SELECT each thread serves
    stuck,      \* an update has thrown with the writer lock taken
    disturbed   \* history: readers that others have written to the graphs of

readVars == <<vars, temp, reader, stuck, disturbed>>

\* rest: the revisions still to be looked up; rev, ref, at, path: the rebuild
\* in progress; graphs: where the revisions found are read; made: the last
\* revision rebuilt.
Resting == [stage |-> "idle", rest |-> <<>>, rev |-> 0, ref |-> MasterRef,
            at |-> 0, path |-> {}, graphs |-> {}, made |-> {}]

Stage == {"idle", "find", "drop", "create", "nearest", "leaf", "source", "copy",
          "undo", "purge"}

\* Stands for the temporary graph of a revision where a reference would stand
\* for its full graph.
TempGraph == -1

ASSUME TempGraphAssumption == MasterRef # TempGraph

ReaderState ==
    [stage: Stage, rest: Seq(Rev), rev: Rev, ref: Ref, at: Rev, path: SUBSET (Rev \X Rev),
     graphs: SUBSET (Rev \X (Ref \cup {TempGraph})), made: SUBSET Rev]

Reads(p, s) == reader[p].stage = s

Triples(g) == IF g[2] = TempGraph THEN temp[g[1]] ELSE fullContent[g[2]]

\* The revisions whose temporary graph p builds or will read.
HoldsTemp(p) ==
    {g[1] : g \in {x \in reader[p].graphs : x[2] = TempGraph}}
        \cup (IF reader[p].stage \in {"create", "nearest", "leaf", "source", "copy", "undo"}
              THEN {reader[p].rev} ELSE {})

\* The references whose full graph p will read or copy.
HoldsReferences(p) ==
    ({g[2] : g \in reader[p].graphs} \ {TempGraph})
        \cup (IF Reads(p, "copy") THEN {reader[p].ref} ELSE {})

-----------------------------------------------------------------------------
(***************************************************************************)
(* The reads.                                                              *)
(***************************************************************************)

\* The next stage of p, nothing written.
Continues(p, next) ==
    /\ reader' = [reader EXCEPT ![p] = next]
    /\ UNCHANGED <<vars, temp, stuck, disturbed>>

\* A transaction of p on the temporary graph of v: it disturbs the others.
Writes(p, v, graph, next) ==
    /\ ~ stuck
    /\ temp' = [temp EXCEPT ![v] = graph]
    /\ reader' = [reader EXCEPT ![p] = next]
    /\ disturbed' = (IF next = Resting THEN disturbed \ {p} ELSE disturbed)
          \cup {q \in Reader \ {p} : v \in HoldsTemp(q)}
    /\ UNCHANGED <<vars, stuck>>

\* The request of p is over; its thread goes back to the pool.
Ends(p) ==
    /\ reader' = [reader EXCEPT ![p] = Resting]
    /\ disturbed' = disturbed \ {p}
    /\ UNCHANGED <<vars, temp>>

\* The transaction of p throws: the lock stays taken.
Throws(p) == ~ stuck /\ stuck' = TRUE /\ Ends(p)

\* A lookup of p finds nothing: the request is answered with an error.
Aborts(p) == UNCHANGED stuck /\ Ends(p)

StartRead(p) ==
    /\ Reads(p, "idle")
    /\ \E q \in Queries : Continues(p, [Resting EXCEPT !.stage = "find", !.rest = q])

\* What an identifier stands for without a rebuild: references that are at the
\* revision of this number or have this name, with the revision they are at.
Shown(id) ==
    {g \in Rev \X Ref : g[1] \in references[g[2]] /\ (g[1] = id \/ Identifier(g[2]) = id)}

\* The next identifier of the query is that of a reference, or of a revision
\* that a reference is at: its full graph is read.
FindReference(p) ==
    /\ Reads(p, "find")
    /\ reader[p].rest # <<>>
    /\ \E g \in Shown(Head(reader[p].rest)) :
          Continues(p, [reader[p] EXCEPT !.rest = Tail(@), !.graphs = @ \cup {g}])

\* It is that of another revision, which has to be rebuilt, or of none.
FindRevision(p) ==
    /\ Reads(p, "find")
    /\ reader[p].rest # <<>>
    /\ LET v == Head(reader[p].rest) IN
          /\ Shown(v) = {}
          /\ IF v \in revisions
             THEN Continues(p, [reader[p] EXCEPT !.stage = "drop", !.rev = v, !.rest = Tail(@)])
             ELSE Aborts(p)

\* Mutant: what is left of an earlier read stays.
LeftAsIs(v) == temp[v]

\* DROP SILENT GRAPH
Dropped(v) == {}

DropTemp(p) ==
    /\ Reads(p, "drop")
    /\ LET v == reader[p].rev IN
          Writes(p, v, Dropped(v), [reader[p] EXCEPT !.stage = "create"])

\* CREATE GRAPH, not SILENT: it throws on a graph that has triples.
CreateTemp(p) ==
    /\ Reads(p, "create")
    /\ IF temp[reader[p].rev] = {}
       THEN Writes(p, reader[p].rev, {}, [reader[p] EXCEPT !.stage = "nearest"])
       ELSE Throws(p)

\* A branch that has come to the revision meanwhile, else a nearest reference.
FindNearest(p) ==
    /\ Reads(p, "nearest")
    /\ LET v == reader[p].rev
           nearest == {r \in Ref : IsNearestReference(v, r)}
       IN  IF \E r \in Ref : IsBranch(r) /\ v \in references[r]
           THEN Continues(p, [reader[p] EXCEPT !.stage = "source", !.at = v])
           ELSE \/ \E r \in nearest :
                      Continues(p, [reader[p] EXCEPT !.stage = "leaf", !.ref = r])
                \/ nearest = {} /\ Aborts(p)

\* Mutants: the last change set of the path is left out, and the first one of
\* the history is taken in.
PathBeyond(v, h) ==
    {<<cs.succ, cs.prior>> : cs \in {c \in changeSets :
        c.prior \in revisions \ {v} /\ DerivedStar(h, c.succ) /\ DerivedStar(c.prior, v)}}

PathToOrigin(v, h) ==
    {<<cs.succ, cs.prior>> : cs \in {c \in changeSets : DerivedStar(h, c.succ)}}

\* The change sets from the leaf h back to v, by their revisions.
PathBetween(v, h) ==
    {<<cs.succ, cs.prior>> : cs \in {c \in changeSets :
        c.prior # NoRevision /\ DerivedStar(h, c.succ) /\ DerivedStar(c.prior, v)}}

FindPath(p) ==
    /\ Reads(p, "leaf")
    /\ LET v == reader[p].rev
           leaves == {h \in references[reader[p].ref] :
                         Resolves(reader[p].ref, h) /\ h # v /\ DerivedStar(h, v)}
       IN  \/ \E h \in leaves :
                 Continues(p, [reader[p] EXCEPT !.stage = "source", !.ref = MasterRef,
                                                !.at = h, !.path = PathBetween(v, h)])
           \/ leaves = {} /\ Aborts(p)

\* Mutant: the full graph of the master, wherever the path ends.
MasterAt(h) == {MasterRef}

\* The references that are at the end of the path.
SourcesAt(h) == {r \in Ref : IsReference(r) /\ h \in references[r]}

FindSource(p) ==
    /\ Reads(p, "source")
    /\ \/ \E r \in SourcesAt(reader[p].at) :
             Continues(p, [reader[p] EXCEPT !.stage = "copy", !.ref = r])
       \/ SourcesAt(reader[p].at) = {} /\ Aborts(p)

\* COPY GRAPH, not SILENT: it throws on a graph without triples.
CopyFullGraph(p) ==
    /\ Reads(p, "copy")
    /\ IF fullContent[reader[p].ref] # {}
       THEN Writes(p, reader[p].rev, fullContent[reader[p].ref],
                   [reader[p] EXCEPT !.stage = "undo", !.ref = MasterRef])
       ELSE Throws(p)

\* Undoes the next change set of the path, if its graphs are still there.
UndoOnTemp(p) ==
    /\ Reads(p, "undo")
    /\ reader[p].at # reader[p].rev
    /\ \E e \in reader[p].path :
          LET v == reader[p].rev
              found == {cs \in changeSets : cs.succ = e[1] /\ cs.prior = e[2]}
          IN  /\ e[1] = reader[p].at
              /\ Writes(p, v, (temp[v] \cup UNION {cs.del : cs \in found})
                                  \ UNION {cs.add : cs \in found},
                        [reader[p] EXCEPT !.at = e[2], !.path = @ \ {e}])

FinishTemp(p) ==
    /\ Reads(p, "undo")
    /\ reader[p].at = reader[p].rev
    /\ LET v == reader[p].rev IN
          Continues(p, [Resting EXCEPT !.stage = "find", !.rest = reader[p].rest, !.made = {v},
                                       !.graphs = reader[p].graphs \cup {<<v, TempGraph>>}])

\* The query itself: one read transaction for all its graphs.
AnswerQuery(p) ==
    /\ Reads(p, "find")
    /\ reader[p].rest = <<>>
    /\ IF reader[p].made # {}
       THEN Continues(p, [reader[p] EXCEPT !.stage = "purge", !.graphs = {}])
       ELSE UNCHANGED stuck /\ Ends(p)

\* Only the graph that was rebuilt last is purged.
PurgeTemp(p) ==
    /\ Reads(p, "purge")
    /\ \E v \in reader[p].made : Writes(p, v, {}, Resting)

ReadStep(p) ==
    \/ FindReference(p) \/ FindRevision(p) \/ DropTemp(p) \/ CreateTemp(p)
    \/ FindNearest(p) \/ FindPath(p) \/ FindSource(p) \/ CopyFullGraph(p)
    \/ UndoOnTemp(p) \/ FinishTemp(p) \/ AnswerQuery(p) \/ PurgeTemp(p)

-----------------------------------------------------------------------------
(***************************************************************************)
(* The requests that write, and the server.                                *)
(***************************************************************************)

\* A request moves references or replaces their full graphs.
Request ==
    /\ ~ stuck
    /\ \/ \E c \in Changes : Create(c[1])
       \/ \E r \in Ref, n \in Rev, c \in Changes : \E v \in references[r] :
             Update(r, v, n, c[1], c[2])
       \/ \E r \in Ref, n \in Rev, cs \in changeSets : Revert(r, cs.succ, n, cs)
       \/ ReferenceRequest
       \/ MergeRequest
       \/ Undo
       \/ FinishReference
    /\ LET moved == {r \in Ref : references'[r] # references[r]
                                    \/ fullContent'[r] # fullContent[r]}
       IN  disturbed' = disturbed \cup {p \in Reader : HoldsReferences(p) \cap moved # {}}
    /\ UNCHANGED <<temp, reader, stuck>>

\* BRANCH or TAG whose full graph is there already, left behind by a crash:
\* its CREATE GRAPH throws.
ReferenceThrows(r) ==
    /\ ~ stuck
    /\ Serving
    /\ revisions # {}
    /\ ~ IsReference(r)
    /\ fullContent[r] # {}
    /\ stuck' = TRUE
    /\ UNCHANGED <<vars, temp, reader, disturbed>>

DropGraph ==
    /\ ~ stuck
    /\ Drop
    /\ disturbed' = disturbed \cup
          {p \in Reader : HoldsTemp(p) # {} \/ HoldsReferences(p) # {}}
    /\ UNCHANGED <<temp, reader, stuck>>

\* The server is stopped and started: requests and locks are gone, graphs stay.
Restart ==
    /\ job' = Idle
    /\ reader' = [p \in Reader |-> Resting]
    /\ disturbed' = {}
    /\ stuck' = FALSE
    /\ UNCHANGED <<registered, revisions, wasDerivedFrom, changeSets, kind, references,
                   fullContent, used, content, temp>>

ReadInit ==
    /\ Init
    /\ temp = [v \in Rev |-> {}]
    /\ reader = [p \in Reader |-> Resting]
    /\ stuck = FALSE
    /\ disturbed = {}

ReadNext ==
    \/ \E p \in Reader : StartRead(p) \/ ReadStep(p)
    \/ Request
    \/ \E r \in Name : ReferenceThrows(r)
    \/ DropGraph
    \/ Restart

ReadSpec == ReadInit /\ [][ReadNext]_readVars
-----------------------------------------------------------------------------
(***************************************************************************)
(* Properties.                                                             *)
(***************************************************************************)

\* Every variable has its type.
ReadTypeOK ==
    /\ temp \in [Rev -> SUBSET Triple]
    /\ stuck \in BOOLEAN
    /\ disturbed \subseteq Reader
    /\ reader \in [Reader -> ReaderState]

\* Every graph that a query is about to be evaluated on holds the content of
\* the revision it stands for, unless another request wrote to that graph
\* meanwhile: readers of other revisions, crashes and requests on other
\* references never show in an answer.
UndisturbedReadsAreExact ==
    \A p \in Reader \ disturbed : Reads(p, "find") =>
        \A g \in reader[p].graphs : Triples(g) = content[g[1]]

\* CREATE GRAPH meets a graph with triples only if another reader works on the
\* same revision: what earlier reads, aborted or multiple, left behind does no harm.
CreateFailsOnlyByRace ==
    \A p \in Reader \ disturbed : Reads(p, "create") => temp[reader[p].rev] = {}

\* The change sets read with the path lead from each revision they come to on
\* to the revision asked for, whatever was committed, merged or dropped since.
PathLeadsBack ==
    \A p \in Reader : Reads(p, "undo") /\ reader[p].at # reader[p].rev =>
        \E e \in reader[p].path : e[1] = reader[p].at
=============================================================================
