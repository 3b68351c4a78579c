---------------------------- MODULE RevisionGraph ----------------------------
(***************************************************************************)
(* One graph under revision control by R43ples: its revision graph (the    *)
(* metadata: revisions, change sets, references) and the named graphs that *)
(* hold its data (add sets, delete sets and one full graph per reference). *)
(*                                                                         *)
(* The actions are the SPARQL requests of the endpoint, taken one at a     *)
(* time: CREATE GRAPH, INSERT/DELETE, REVERT, BRANCH, TAG, a MERGE that    *)
(* fast-forwards, and DROP GRAPH.  A BRANCH or TAG rebuilds the content of *)
(* its base revision change set by change set, so it takes several steps.  *)
(* The triplestore is the embedded Jena TDB, in which a named graph        *)
(* without triples does not exist.                                         *)
(***************************************************************************)
EXTENDS Integers, FiniteSets

CONSTANTS
    Triple,         \* the triples that can occur in the data
    Name,           \* the identifiers a BRANCH or TAG request may give
    Master,         \* the identifier "master"
    MasterRef,      \* the reference rmo:Master created with the graph
    MaxRevision     \* bound: the highest revision number that is modelled

\* Identifiers are numbers: those in Rev are numerals ("0", "1", ...), the
\* others stand for names that are no revision number.
Rev == 0..MaxRevision

ASSUME BoundAssumption == MaxRevision \in Nat
ASSUME NameAssumption == Name \subseteq Nat /\ Master \in Nat \ Rev
ASSUME MasterRefAssumption == MasterRef \notin Name

VARIABLES
    registered,     \* the graph is listed in Config.revision_graph
    revisions,      \* resources of type rmo:Revision
    wasDerivedFrom, \* pairs <<new, old>>
    changeSets,     \* resources of type rmo:ChangeSet with their two graphs
    kind,           \* type of each reference, "none" when there is none
    references,     \* targets of rmo:references, for each reference
    fullContent,    \* triples of the full graph belonging to each reference
    used,           \* rmo:used of the commit that generated the reference
    job,            \* the BRANCH or TAG request being served
    content         \* history: full graph of the branch after each commit

vars == <<registered, revisions, wasDerivedFrom, changeSets, kind,
          references, fullContent, used, job, content>>

(***************************************************************************)
(* References are named by the URI they get: graph-master for the master   *)
(* branch, graph-branch-<name> or graph-tag-<name> for the others.  The    *)
(* full graph of the master is the graph itself, that of another reference *)
(* is graph-<name>, so a name has at most one of a branch and a tag.       *)
(***************************************************************************)
Ref == Name \cup {MasterRef}

Identifier(r) == IF r = MasterRef THEN Master ELSE r

NoRevision == -1

IsBranch(r) == kind[r] \in {"master", "branch"}

IsReference(r) == kind[r] # "none"

ChangeSet == [prior: Rev \cup {NoRevision}, succ: Rev,
              add: SUBSET Triple, del: SUBSET Triple]

Idle == [active |-> FALSE, ref |-> MasterRef, kind |-> "branch",
         base |-> 0, at |-> 0]

Job == [active: BOOLEAN, ref: Ref, kind: {"branch", "tag"},
        base: Rev, at: Rev]

-----------------------------------------------------------------------------
(***************************************************************************)
(* Queries on the revision graph.                                          *)
(***************************************************************************)

\* rmo:wasDerivedFrom*: u is in every set that contains v and is closed
\* under wasDerivedFrom.
DerivedStar(v, u) ==
    \A S \in SUBSET Rev :
        v \in S /\ u \notin S => ~ \A e \in wasDerivedFrom : e[1] \in S => e[2] \in S

\* Mutant: the older revision in the place of the newer one.
DerivedBackwards(v, u) == \E e \in wasDerivedFrom : e[1] = u /\ DerivedStar(e[2], v)

\* rmo:wasDerivedFrom+
DerivedPlus(v, u) == \E e \in wasDerivedFrom : e[1] = v /\ DerivedStar(e[2], u)

\* The identifier of reference r leads to exactly one revision, v: a second
\* reference with that identifier, or a revision with that number, is
\* "Identifier not unique".
Resolves(r, v) ==
    /\ IsReference(r)
    /\ references[r] = {v}
    /\ Identifier(r) \notin revisions
    /\ \A q \in Ref \ {r} : IsReference(q) => Identifier(q) # Identifier(r)

\* Requests find reference r by its identifier.
IsFound(r) == \E v \in Rev : Resolves(r, v)

IsIdentifierOfReference(id) ==
    \E r \in Ref : IsReference(r) /\ Identifier(r) = id

\* Mutant: the highest number itself.
IsHighestRevision(n) == n \in Rev /\ \A v \in revisions : v <= n

\* Mutant: the number after the highest one, whatever the references are called.
IsNumberAfterHighest(n) ==
    /\ n \in Rev
    /\ \A v \in revisions : v < n
    /\ \A m \in Rev : m < n => \E v \in revisions : m <= v

\* The number after the highest one, skipping the numbers that some
\* reference has as its identifier.
IsNextRevision(n) ==
    /\ n \in Rev
    /\ \A v \in revisions : v < n
    /\ ~ IsIdentifierOfReference(n)
    /\ \A m \in Rev : (m < n /\ \A v \in revisions : v < m)
                         => IsIdentifierOfReference(m)

\* The solutions that SELECT ?branch (COUNT(?revision)) ... GROUP BY ?branch
\* counts for reference r: the revisions from v to a revision it references.
RevisionsBetween(v, r) ==
    {p \in references[r] \X revisions : DerivedStar(p[1], p[2]) /\ DerivedStar(p[2], v)}

IsNearestReference(v, r) ==
    /\ RevisionsBetween(v, r) # {}
    /\ \A q \in Ref : RevisionsBetween(v, q) # {} =>
          Cardinality(RevisionsBetween(v, r)) <= Cardinality(RevisionsBetween(v, q))

\* Mutant: any reference will do.
StartsAnywhere(v, h) == \E r \in Ref : Resolves(r, h)

\* Where rebuilding v starts: v itself if a branch references it, else the
\* leaf of a nearest reference, which must not be v.
StartsRebuild(v, h) ==
    IF \E r \in Ref : IsBranch(r) /\ v \in references[r]
    THEN h = v
    ELSE h # v /\ \E r \in Ref : Resolves(r, h) /\ IsNearestReference(v, r)

-----------------------------------------------------------------------------
(***************************************************************************)
(* Writes that several requests share.                                     *)
(***************************************************************************)

\* Mutant: wasDerivedFrom is written for the first revision, too.
AddRevisionWithPrior(n, prior, add, del) ==
    /\ revisions' = revisions \cup {n}
    /\ wasDerivedFrom' = wasDerivedFrom \cup {<<n, prior>>}
    /\ changeSets' = changeSets \cup
          {[prior |-> prior, succ |-> n, add |-> add, del |-> del]}

\* Mutant: wasDerivedFrom the wrong way round.
AddRevisionBackwards(n, prior, add, del) ==
    /\ revisions' = revisions \cup {n}
    /\ wasDerivedFrom' = wasDerivedFrom \cup (({prior} \ {NoRevision}) \X {n})
    /\ changeSets' = changeSets \cup
          {[prior |-> prior, succ |-> n, add |-> add, del |-> del]}

\* The new revision and its change set.
AddRevision(n, prior, add, del) ==
    /\ revisions' = revisions \cup {n}
    /\ wasDerivedFrom' = wasDerivedFrom \cup ({n} \X ({prior} \ {NoRevision}))
    /\ changeSets' = changeSets \cup
          {[prior |-> prior, succ |-> n, add |-> add, del |-> del]}

\* INSERT the add set into the full graph, then DELETE the delete set.
Applied(graph, add, del) == (graph \cup add) \ del

\* Mutant: what the change set added stays.
UndoneDeletes(graph, cs) == graph \cup cs.del

\* Undo a change set: ADD the delete set, then delete the add set.
Undone(graph, cs) == (graph \cup cs.del) \ cs.add

\* DELETE the triple to the old revision, INSERT the one to the new.
Moved(r, old, new) == (references[r] \ {old}) \cup {new}

\* Commits a change set on reference r, whose leaf is v.
Commit(r, v, n, add, del) ==
    /\ AddRevision(n, v, add, del)
    /\ references' = [references EXCEPT ![r] = Moved(r, v, n)]
    /\ fullContent' = [fullContent EXCEPT ![r] = Applied(fullContent[r], add, del)]
    /\ content' = [content EXCEPT ![n] = Applied(fullContent[r], add, del)]
    /\ UNCHANGED <<registered, kind, used, job>>

Serving == registered /\ ~ job.active

-----------------------------------------------------------------------------
(***************************************************************************)
(* The requests.                                                           *)
(***************************************************************************)

\* CREATE GRAPH: revision 0 and the master branch.
Create(add) ==
    /\ ~ registered
    /\ fullContent[MasterRef] = {}
    /\ registered' = TRUE
    /\ AddRevision(0, NoRevision, add, {})
    /\ kind' = [kind EXCEPT ![MasterRef] = "master"]
    /\ references' = [references EXCEPT ![MasterRef] = {0}]
    /\ fullContent' = [fullContent EXCEPT ![MasterRef] = Applied({}, add, {})]
    /\ content' = [content EXCEPT ![0] = Applied({}, add, {})]
    /\ UNCHANGED <<used, job>>

\* Mutants: sets that are not stripped, and one stripped of the wrong triples.
WholeAdd(r, add) == add
OnlyMissingDel(r, del) == del \ fullContent[r]

\* Triples that are already there leave the add set, triples that are not
\* there leave the delete set.
StrippedAdd(r, add) == add \ fullContent[r]
StrippedDel(r, del) == del \cap fullContent[r]

\* INSERT and DELETE on a branch.  The type of the reference is not looked at.
Update(r, v, n, add, del) ==
    /\ Serving
    /\ Resolves(r, v)
    /\ IsNextRevision(n)
    /\ Commit(r, v, n, StrippedAdd(r, add), StrippedDel(r, del))

\* The triplestore rejects the rewritten query (or a second branch of the
\* request is unknown): revision and empty change set are already written,
\* the reference is never moved.
UpdateRejected(r, v, n) ==
    /\ Serving
    /\ Resolves(r, v)
    /\ IsNextRevision(n)
    /\ AddRevision(n, v, {}, {})
    /\ content' = [content EXCEPT ![n] = content[v]]
    /\ UNCHANGED <<registered, kind, references, fullContent, used, job>>

\* Mutant: the leaf's change set is committed as it is.
RepeatLeaf(r, v, n, cs) ==
    /\ Serving
    /\ Resolves(r, v)
    /\ IsNextRevision(n)
    /\ cs \in changeSets
    /\ cs.succ = v
    /\ Commit(r, v, n, cs.add, cs.del)

\* REVERT: commits the leaf's change set the other way round.
Revert(r, v, n, cs) ==
    /\ Serving
    /\ Resolves(r, v)
    /\ IsNextRevision(n)
    /\ cs \in changeSets
    /\ cs.succ = v
    /\ Commit(r, v, n, cs.del, cs.add)

\* Mutant: the full graph of the target is not replaced.
FastForwardOfReferenceOnly(f, u, r, v) ==
    /\ Serving
    /\ Resolves(f, u)
    /\ Resolves(r, v)
    /\ u # v
    /\ DerivedPlus(u, v)
    /\ references' = [references EXCEPT ![r] = Moved(r, v, u)]
    /\ UNCHANGED <<registered, revisions, wasDerivedFrom, changeSets, kind,
                   fullContent, used, job, content>>

\* MERGE of branch f, ahead of branch r, into r.
FastForward(f, u, r, v) ==
    /\ Serving
    /\ Resolves(f, u)
    /\ Resolves(r, v)
    /\ u # v
    /\ DerivedPlus(u, v)
    /\ fullContent[f] # {}
    /\ fullContent' = [fullContent EXCEPT ![r] = fullContent[f]]
    /\ references' = [references EXCEPT ![r] = Moved(r, v, u)]
    /\ UNCHANGED <<registered, revisions, wasDerivedFrom, changeSets, kind,
                   used, job, content>>

\* BRANCH or TAG of revision v to name r, up to the copy of the full graph
\* of a reference q to h, from which v can be rebuilt.  CREATE GRAPH fails on
\* a graph that has triples, COPY GRAPH on one that has none.
BeginReference(k, r, v, h, q) ==
    /\ Serving
    /\ v \in revisions
    /\ ~ IsReference(r)
    /\ k = "tag" => ~ IsIdentifierOfReference(r)
    /\ fullContent[r] = {}
    /\ StartsRebuild(v, h)
    /\ IsReference(q) /\ h \in references[q]
    /\ fullContent[q] # {}
    /\ fullContent' = [fullContent EXCEPT ![r] = fullContent[q]]
    /\ job' = [active |-> TRUE, ref |-> r, kind |-> k, base |-> v, at |-> h]
    /\ UNCHANGED <<registered, revisions, wasDerivedFrom, changeSets, kind,
                   references, used, content>>

\* Undoes one change set of the path from the base revision to h.
UndoChangeSet(cs) ==
    /\ job.active
    /\ job.at # job.base
    /\ cs \in changeSets
    /\ cs.succ = job.at
    /\ cs.prior # NoRevision
    /\ DerivedStar(cs.prior, job.base)
    /\ fullContent' = [fullContent EXCEPT ![job.ref] = Undone(fullContent[job.ref], cs)]
    /\ job' = [job EXCEPT !.at = cs.prior]
    /\ UNCHANGED <<registered, revisions, wasDerivedFrom, changeSets, kind,
                   references, used, content>>

\* The metadata of the new reference and of its commit.
FinishReference ==
    /\ job.active
    /\ job.at = job.base
    /\ kind' = [kind EXCEPT ![job.ref] = job.kind]
    /\ references' = [references EXCEPT ![job.ref] = {job.base}]
    /\ used' = [used EXCEPT ![job.ref] = {job.base}]
    /\ job' = Idle
    /\ UNCHANGED <<registered, revisions, wasDerivedFrom, changeSets,
                   fullContent, content>>

\* The server stops during the rebuild: the half-built graph stays behind.
Crash ==
    /\ job.active
    /\ job' = Idle
    /\ UNCHANGED <<registered, revisions, wasDerivedFrom, changeSets, kind,
                   references, fullContent, used, content>>

\* DROP GRAPH: only the graphs the metadata knows of are dropped.
Drop ==
    /\ Serving
    /\ registered' = FALSE
    /\ revisions' = {}
    /\ wasDerivedFrom' = {}
    /\ changeSets' = {}
    /\ kind' = [r \in Ref |-> "none"]
    /\ references' = [r \in Ref |-> {}]
    /\ fullContent' = [r \in Ref |-> IF IsReference(r) THEN {} ELSE fullContent[r]]
    /\ used' = [r \in Ref |-> {}]
    /\ content' = [v \in Rev |-> {}]
    /\ UNCHANGED job

-----------------------------------------------------------------------------
Init ==
    /\ registered = FALSE
    /\ revisions = {}
    /\ wasDerivedFrom = {}
    /\ changeSets = {}
    /\ kind = [r \in Ref |-> "none"]
    /\ references = [r \in Ref |-> {}]
    /\ fullContent = [r \in Ref |-> {}]
    /\ used = [r \in Ref |-> {}]
    /\ job = Idle
    /\ content = [v \in Rev |-> {}]

CommitRequest ==
    \E r \in Ref, n \in Rev : \E v \in references[r] :
        \/ \E add, del \in SUBSET Triple : Update(r, v, n, add, del)
        \/ UpdateRejected(r, v, n)
        \/ \E cs \in changeSets : Revert(r, v, n, cs)

ReferenceRequest ==
    \E k \in {"branch", "tag"}, r \in Name, v \in revisions, q \in Ref :
        \E h \in references[q] : BeginReference(k, r, v, h, q)

MergeRequest ==
    \E f, r \in Ref : \E u \in references[f], v \in references[r] :
        FastForward(f, u, r, v)

Undo == \E cs \in changeSets : UndoChangeSet(cs)

Next ==
    \/ \E add \in SUBSET Triple : Create(add)
    \/ CommitRequest
    \/ ReferenceRequest
    \/ MergeRequest
    \/ Undo
    \/ FinishReference
    \/ Crash
    \/ Drop

Spec == Init /\ [][Next]_vars

\* The thread that serves a request goes on with it unless the server stops.
FairSpec == Spec /\ WF_vars(Undo) /\ WF_vars(FinishReference)
-----------------------------------------------------------------------------
(***************************************************************************)
(* Properties.                                                             *)
(***************************************************************************)

\* Every variable has its type: in particular the metadata and the rebuild
\* only name revisions.
TypeOK ==
    /\ registered \in BOOLEAN
    /\ revisions \subseteq Rev
    /\ wasDerivedFrom \subseteq Rev \X Rev
    /\ changeSets \subseteq ChangeSet
    /\ kind \in [Ref -> {"none", "master", "branch", "tag"}]
    /\ references \in [Ref -> SUBSET Rev]
    /\ fullContent \in [Ref -> SUBSET Triple]
    /\ used \in [Ref -> SUBSET Rev]
    /\ job \in Job
    /\ content \in [Rev -> SUBSET Triple]

\* The full graph that serves a reference without rebuilding is the content
\* of the revision it references, however the two came together (commits,
\* fast-forwards, rebuilds from another reference, revert).
FullGraphIsLeafContent ==
    \A r \in Ref, v \in Rev :
        IsReference(r) /\ v \in references[r] => fullContent[r] = content[v]

\* A change set leads from the content of its prior revision to that of its
\* succeeding one and, undone, back: rebuilding relies on the way back.
ChangeSetsReplay ==
    \A cs \in changeSets : cs.prior # NoRevision =>
        /\ content[cs.succ] = Applied(content[cs.prior], cs.add, cs.del)
        /\ content[cs.prior] = Undone(content[cs.succ], cs)

\* The history is a tree that grows upward: a revision other than 0 has one
\* change set, whose prior revision is the one it was derived from.
HistoryIsTree ==
    /\ \A cs \in changeSets :
          /\ {cs.succ} \cup ({cs.prior} \ {NoRevision}) \subseteq revisions
          /\ cs.prior < cs.succ
          /\ cs.prior # NoRevision => <<cs.succ, cs.prior>> \in wasDerivedFrom
    /\ \A e \in wasDerivedFrom :
          \E cs \in changeSets : cs.succ = e[1] /\ cs.prior = e[2]
    /\ \A c, d \in changeSets : c.succ = d.succ => c = d

\* What the properties above and below rest on: every reference points to
\* exactly one revision, a graph that is not registered has no metadata, the
\* first change set only adds, and the graph that a rebuild works on holds the
\* content of the revision it has come to.
OneLeaf ==
    \A r \in Ref : IsReference(r) => \E v \in revisions : references[r] = {v}

UnregisteredIsEmpty ==
    ~ registered => /\ revisions = {} /\ changeSets = {} /\ wasDerivedFrom = {}
                    /\ \A r \in Ref : ~ IsReference(r)
                    /\ ~ job.active

FirstChangeSetOnlyAdds ==
    \A cs \in changeSets : cs.prior = NoRevision =>
        cs.del = {} /\ content[cs.succ] = cs.add

RebuildIsExact ==
    job.active => /\ ~ IsReference(job.ref)
                  /\ {job.base, job.at} \subseteq revisions
                  /\ fullContent[job.ref] = content[job.at]

IInv ==
    /\ TypeOK
    /\ UnregisteredIsEmpty
    /\ OneLeaf
    /\ FullGraphIsLeafContent
    /\ ChangeSetsReplay
    /\ HistoryIsTree
    /\ FirstChangeSetOnlyAdds
    /\ RebuildIsExact

\* A commit never takes the number of an existing revision or changes what is
\* recorded of one.
HistoryIsKept ==
    [][registered' => /\ changeSets \subseteq changeSets'
                      /\ \A v \in revisions : content'[v] = content[v]]_vars

\* A reference that requests find stays found, whatever they do to it or to
\* the others: only DROP GRAPH or a second reference with its identifier (a
\* branch called master) ends it.  A new revision never takes a numeral that is
\* an identifier, and a reference is never left with two revisions.
ReferencesStayFound ==
    [][\A r \in Ref : IsFound(r) /\ registered' =>
          \/ IsFound(r)'
          \/ \E q \in Ref \ {r} :
                Identifier(q) = Identifier(r) /\ kind'[q] # kind[q]]_vars

\* An update leaves the branch with what it inserts, without what it deletes
\* and with every other triple as it was.  The exception is a triple that it
\* both inserts and deletes: both of its sets are stripped against the same
\* full graph, so a triple that was there goes.
UpdateTakesEffect ==
    [][\A r \in Ref, n \in Rev, add, del \in SUBSET Triple : \A v \in references[r] :
          Update(r, v, n, add, del) =>
             fullContent'[r] = ((fullContent[r] \ del) \cup add)
                                  \ (add \cap del \cap fullContent[r])]_vars

\* REVERT of a leaf brings back the content of the revision before it.
RevertRestores ==
    [][\A r \in Ref, n \in Rev, cs \in changeSets :
          Revert(r, cs.succ, n, cs) /\ cs.prior # NoRevision =>
             fullContent'[r] = content[cs.prior]]_vars

\* A rebuild reaches its base revision, or the server stops: no choice of
\* reference and change sets leads into a dead end.
RebuildEnds == job.active ~> ~ job.active
=============================================================================
