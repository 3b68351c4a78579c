# R43ples in TLA+

R43ples puts revision control around named graphs of an RDF triplestore: it
accepts SPARQL with a few additional requests (`CREATE GRAPH`, `INSERT`/`DELETE
... BRANCH`, `REVERT`, `BRANCH`, `TAG`, `MERGE`, `DROP GRAPH`, `SELECT ...
REVISION`) and keeps, beside the data, a *revision graph* with revisions, change
sets and references. This directory models that core, checks it with TLC and
proves its invariants, action properties and refinements with TLAPS. Paths below are relative to
`src/main/java/de/tud/plt/r43ples`.

## 1. Inventory

| Component | State | Operations | Interacts with |
|---|---|---|---|
| Revision graph (`core/*Draft`, `existentobjects`) | one named graph of metadata per graph: `rmo:Revision`, `rmo:wasDerivedFrom`, `rmo:ChangeSet`, `rmo:Reference`, `rmo:Commit` | create, update, revert, branch, tag, merge, drop | writes through the triplestore interface, one update request per call |
| Data graphs | add set and delete set per change set, one full graph per reference | filled, stripped and merged by commits; copied by fast-forward and rebuilds | read by SELECT, rewritten by SPARQL |
| Path calculation and full graphs (`optimization`, `core/FullGraph`) | none of its own (temporary named graphs) | nearest reference, path of change sets, undoing them | BRANCH, TAG, SELECT, merges |
| Merges (`core/MergeCommitDraft` and subclasses) | temporary progress and difference graphs | fast-forward; three-way merge over a structural definition group (`sdg.ttl`) | revision graph, full graphs |
| Revision information header (`core/HeaderInformation`) | none; clients hold what they were sent | send, compare before a commit | commit drafts |
| Triplestore interface (`triplestoreInterface`) | the store; a writer lock in the embedded TDB | one transaction per call | everything |
| Query rewriting (`management/SparqlRewriter`) | none | rewrites graph patterns over change sets | SELECT |
| SELECT of old revisions (`core/SelectConstructAskQuery`) | temporary named graphs, one per revision, shared by all readers | rebuild, query, purge | path calculation, full graphs |
| Life cycle (`core/InitialCommitDraft`, `RevisionGraph.purgeRevisionInformation`) | the list of revision graphs | CREATE GRAPH, DROP GRAPH | revision graph, all named graphs |
| Version graph page (`webapp/js/version-graph.js`) | arrays of revisions and branches in the browser | load, give every branch a lane, draw | metadata over HTTP |
| Pick, aggregation, coevolution | revision graph through update commits | | |
| Web service, server-side visualisation, client, samples, JavaScript libraries | none that matters to a graph | | core |

What is hard here:

* a commit is a chain of about a dozen separate transactions with no lock around
  it (no method of `src/main` is synchronized), while the web server runs
  requests in parallel: number, leaf and header check are read long before
  they are used;
* metadata and data are redundant: the full graph of a reference must equal what
  the change sets say, through every mix of requests;
* a rejected query or a stop of the server leaves the chain half done;
* temporary graphs have fixed names, shared by all readers of a revision and by
  all merges of a graph;
* an update that throws in the embedded store keeps the writer lock for good;
* identifiers of references and numbers of revisions live in one name space.

What makes each part correct: the revision graph is a tree whose change sets
replay in both directions; each reference has one leaf, whose content its full
graph holds, and stays found by its identifier; recorded revisions never change; a rebuild is exact and ends; an
update changes what it names and nothing else; a read sees the revision it asked
for; a DROP leaves nothing behind; no finished request is lost. `PROJECT.json` lists the hazards
with the line where each bites and the properties that are aimed at it.

## 2. Modules

| Module | What it is |
|---|---|
| `RevisionGraph` | one graph under revision control, requests one at a time; `BRANCH`/`TAG` in several steps |
| `VersionedGraph` | abstract specification: immutable versions, references that point to one of them and show its content |
| `RevisionGraphRefinement` | the mapping from the first to the second |
| `RevisionGraphProofs`, `RevisionGraphRefinementProofs` | the theorems |
| `CommitSteps` | update requests as chains of transactions, in concurrent threads, with crashes |
| `ThreeWayMerge` | MERGE of diverged branches: extends `RevisionGraph`, whose requests build the histories that are merged |
| `QueryRewriting` | the paths and triples of a rewritten SELECT: operators over `RevisionGraph` |
| `OldRevisionReads` | SELECT of old revisions in concurrent threads: composed with all actions of `RevisionGraph` |
| `GraphLifeCycle` | CREATE GRAPH and DROP GRAPH as chains of transactions, in threads, with restarts |
| `MergeSteps` | three-way merges as chains of transactions, in threads, with restarts |
| `VersionGraphView` | the lanes of the version graph page |
| `CommitStepsProofs`, `ThreeWayMergeProofs`, `GraphLifeCycleProofs`, `MergeStepsProofs`, `VersionGraphViewProofs` | theorems about these modules |
| `OldRevisionReadsProofs` | theorems about `OldRevisionReads` and `QueryRewriting` |
| `MC*` and `.cfg` | instances for TLC |

### RevisionGraph

`revisions`, `wasDerivedFrom`, `changeSets`, `kind` and `references` are the
triples of the metadata; a change set carries its two named graphs as sets of
triples. `fullContent` is the full graph of each reference, `used` the
`rmo:used` of the commit that generated it. `registered` is the entry in the
graph of revision graphs. `content` is a history variable: what the full graph
of the branch was right after each commit. No guard reads it.

A reference is named by its URI; `Identifier` is what requests call it. The
names are numbers so that a branch called "2" can meet revision 2. `Resolves`
is `getRevisionUri`: exactly one row, else "Identifier not unique".

| Action | Code |
|---|---|
| `Create` | `InitialCommitDraft`, `MasterDraft` |
| `Update` | `UpdateCommitDraft` with `RevisionDraft` and `ChangeSetDraft`: strip, insert, delete, move |
| `UpdateRejected` | the same, when the rewritten query throws after the revision is written |
| `Revert` | `RevertCommitDraft` |
| `FastForward` | `MergeCommitDraft` choosing `FastForwardMergeCommitDraft` |
| `BeginReference`, `UndoChangeSet`, `FinishReference` | `BranchCommitDraft`/`TagCommitDraft` with `FullGraph` and `SimplePathCalculation` |
| `Crash` | a stop of the server during these |
| `Drop` | `RevisionGraph.purgeRevisionInformation` |

Both sets of an update are stripped against the same full graph. A triple that an
update both deletes and inserts therefore stays in one of them only: it goes if it
was there and comes if it was not, where SPARQL would leave it there in both cases.
`UpdateTakesEffect` states this with the rest of an update's effect.

An error that leaves the store as it was is a request that takes no step. An
exception inside a write transaction of the embedded TDB leaves the transaction
open (no `finally`): the steps after `UpdateRejected` are those of the server
after its restart, or of a store reached over HTTP.

### VersionedGraph

`recorded` versions, their content `versions`, the order `before`, the `head` of
each reference and its `view`, the content it shows. It promises that versions
never change, that a commit adds one version behind the head of one reference,
and that a reference that is up shows the version of its head. The mapping hides
the full graph of a reference that is still being built.

### CommitSteps

One thread per request; `pc` names the next transaction. `Order` is the chain of
`updateChangeSetsByRewrittenQuery`. Steps that only read what no other thread
of the model changes (the URI of the branch, the URI of its full graph) are left
out, the insertion of the commit's own metadata, which nobody reads, is part of
`MoveBranch`. `seen` is the revision information a client passes in the header.
Two specifications share the actions: `Spec` (threads at the same time, the
server may stop) and `SerialSpec` (one request after the other, no stop).

### ThreeWayMerge

`merge` is the request: the revision progress of each branch (which triples are
`Original`, `Added`, `Deleted` since the common revision), the difference model
as pairs of a structural definition and a triple, and the merged graph. The
temporary graphs the code keeps these in are dropped before each use, so no merge
reads what another has left there. `decided` is a history variable: the revisions
whose content a WITH part gave, and which therefore no rule can tell.

| Action | Code (`ThreeWayMergeCommitDraft` unless named) |
|---|---|
| `BeginMerge` | `MergeCommitDraft.createCommitInTripleStore`, the common revision (`SimplePathCalculation`), the start of its full graph |
| `UndoOfBase` | `FullGraph.createNewFullGraph` |
| `StartProgress`, `ContinueProgress` | `createRevisionProgresses`, `createRevisionProgress` (one change set a step) |
| `CreateDifferenceModel` | `createDifferenceTripleModel` with `sdg.ttl` |
| `ReportConflict` | MERGE without WITH that has a conflict: the model is sent to the client |
| `CopyTarget`, `TakeGivenTriples`, `ResolveGroup` | `createMergedRevision`, one difference group a step, in any order |
| `CommitMerge` | the rest of `createMergedRevision` and `addMetaInformation` |
| `AbandonMerge` | an error or a stop before the commit |

A query without ORDER BY may list its rows in any order: which common revision,
which of two paths through an earlier merge and which group comes first are
choices of the model. The revision that is committed has two change sets. That of
the source side loses its deletions, as in the code, where it is stripped against
a URI that names no graph.

Of an object with a datatype or a language the code writes a string with the
suffix into the difference model; this is the constant `Plain`, which the run takes
as the identity (literals without suffix). The exactness properties are claimed for
such literals only (`AllPlain`): another one is changed by its way through the model.

### QueryRewriting

With `query_rewriting=true` nothing is rebuilt: `SparqlRewriter` looks for the
shortest path from a later reference (`BestPaths`) and turns each triple pattern
into one over the full graph at its end and the delete sets on the way, minus
what an add set hides (`Rewritten`, `Hidden`). The module has the triples that one
such pattern matches; the walk over the syntax tree of the query is left out, and
with it the list of revisions that several GRAPH clauses of a query share.

### OldRevisionReads

Without the option, a SELECT of a revision no reference is at rebuilds it in a
temporary graph named after the revision. `reader` is the request of each thread,
`temp` the temporary graphs, and every transaction of a rebuild is a step:

| Action | Code |
|---|---|
| `FindReference`, `FindRevision` | `SelectConstructAskQuery.performQuery`: `hasBranch`, `getReferenceGraph`, `getRevision` |
| `DropTemp`, `CreateTemp`, `CopyFullGraph`, `UndoOnTemp`, `FinishTemp` | `FullGraph.createNewFullGraph` |
| `FindNearest`, `FindPath`, `FindSource` | `getPathOfChangeSets`, `getChangeSetsBetweenStartAndTargetRevision`, `getAssociatedReference` |
| `AnswerQuery`, `PurgeTemp` | the query, `FullGraph.purge` |
| `Request`, `DropGraph` | the requests of `RevisionGraph`, one step each |
| `ReferenceThrows`, `Throws` | an update that throws: the writer lock stays taken (`stuck`) |
| `Restart` | the server is started again: requests and lock are gone, graphs are not |

`disturbed` is a history variable: the readers to whose graphs another request has
written. The properties are about all others, so they say exactly what a reader
can be hurt by.

### GraphLifeCycle

CREATE GRAPH draws a number, checks names, writes change set, revision and master
and registers the graph last; DROP GRAPH lists the named graphs, drops them one
by one, drops the metadata and unregisters last. A triple is named by the number
of the revision that added it. `overlapped` and `interrupted` are history
variables: whether a CREATE or an update has run beside another request, whether
the server has stopped in one, since the graph was last completely gone. An
update is one step (`CommitSteps` has its parts).

### MergeSteps

The transactions of `createCommitInTripleStore` in their `Order`: both leaves are
read first; the four temporary graphs are dropped, created and filled; the leaf of
the target is read again by the revision draft, that of the source by the draft
of the second change set; the edge to the source is written with the leaf read
first. Of a temporary graph only the merges that wrote to it are modelled, of a
full graph only the revisions whose change sets it holds: what a merge computes
is in `ThreeWayMerge`. `applied`, `temp` and the threads' reads are state;
`committed`, `disturbed` and `moved` are history variables.

### VersionGraphView

The page loads the metadata once (`Load`), sorts branches by their heads and gives
each the first lane that is free from there on (`PlaceMaster`, `PlaceBranch`):
`ends` is `positions`, `position` is `branchPositions`. It reads the vocabulary of
an earlier server (`prov:generated`, `rmo:belongsTo`; `StructuredTree.java:132`
notes that the server no longer writes the latter), whose metadata are modelled
from what the page reads. A revision without a commit stops it: nothing is drawn.

## 3. Runs

| Run | Instance | Shows |
|---|---|---|
| `core` | 2 triples, 4 revisions, references master, "2", "master" | all invariants and action properties of `RevisionGraph`, that rewritten queries are exact, and that it implements `VersionedGraph` |
| `rebuild_ends` | 1 triple, same references | `RebuildEnds` under fairness |
| `concurrent_updates` | 3 threads, 2 branches, 2 triples, with crashes | what survives any interleaving |
| `serial_updates` | same, one after the other | full graphs are exact, names are free, the chain is one abstract step |
| `header_race` | 2 threads, 1 branch | *violated*: two clients pass the up-to-date check together |
| `three_way_merge` | 2 triples, 5 revisions, master and develop, all four kinds of MERGE | progresses are exact; an automatic merge is the source with what only the target added; WITH decides exactly the conflicts; undecided merges replay over both sides |
| `merge_rebuild` | 2 triples, 4 revisions, a second branch, MERGE MANUAL | *violated*: rebuilt from a merged revision, the source side misses what the merge dropped |
| `rewriting_merged` | 2 triples, 4 revisions, MERGE AUTO | *violated*: over a merged revision the rewritten query does not see the content of the old revision |
| `old_reads` | 2 readers, queries of revisions 1 and 2 and of revision 0, 3 revisions, 1 triple, master and a second reference | an answer is exact, and no rebuild throws, unless another request wrote to the very graphs it reads |
| `life_cycle` | 2 threads, 3 revisions, updates, restarts | a DROP that no CREATE or update overlaps leaves nothing; only overlaps keep the writer lock; without stops the graph is whole or gone |
| `merge_steps` | 2 merges, 2 branches, 5 revisions, updates, restarts | no finished request is lost, full graphs are never ahead, edges have change sets unless the source moved on |
| `version_graph` | 4 revisions, master and 3 branches | circles of different branches never meet; no lane is wasted |

Bounds. Four revisions are the least in which a branch can be rebuilt across two
change sets while another reference moves on, and a numeral as the name of a
branch ("2") is skipped as a number (without the skip it takes four requests until
the branch is no longer found, `ReferencesStayFound`). Two triples tell a lost one from a kept one
and allow an update to insert one and delete another. `MaxRevision` and the
number of threads are the only bounds. Triples and threads are symmetric
(nothing distinguishes them), and symmetry is not used in the liveness run.
Three threads are the least in which one thread runs between two others that
share a change set. Deadlock is checked in every run but one: `Drop` leads the
serial model back to its start, `Rest` lets answered clients rest, and a server
can always be restarted. In `merge_steps` every merge is sent once, and when all
have ended and the numbers are used up nothing is left to do.

In the merge runs one triple comes and goes by updates and the other is there from
CREATE on or comes with a WITH part: a triple needs three revisions to be deleted
and added again on one branch while the other deletes it, and a fifth revision is
the merge, or a second merge above the first. Two branches are merged there; the
third name in `merge_rebuild` is the BRANCH that rebuilds.

Two readers are the least that disturb each other. One of the two queries holds
the temporary graph of revision 1 while revision 2 is looked up, which is mostly at
a reference and may not exist yet (the read then ends and its temporary graph
stays); the other one rebuilds revision 0. Three revisions let master run two ahead
of the one that is read. That of several rebuilt graphs only the last is purged is
in the model, but no query of the run rebuilds two: a temporary graph that is left
behind is met after an ended read instead. Its one triple is
inserted by updates and taken out by reverts. A graph with revisions 0 to 2 is the
least in which an interrupted CREATE leaves a number that a later one continues
from. Two merges in opposite or the same direction, with two updates before them or
in between, need revisions 0 to 4. The change sets are taken to be non-empty there,
so that a revision progress always has triples (`ThreeWayMerge` has empty ones). Four branches are the least of which three share two
lanes beside the master, with four revisions to start and end them; times are
ranks, so that equal ones occur.

Fairness. `FairSpec` assumes weak fairness of `Undo` and `FinishReference`: the
thread that serves a request continues unless the server stops; nothing is
assumed of clients. It is used by `RebuildEnds` only.

### What the concurrent runs mean

Two updates that overlap may draw the same number: it is read in one transaction
and written in a later one. If they start from the same leaf they then write one
change set together. `concurrent_updates` shows what is left: on a branch whose
requests share change sets only with each other, what a finished request inserted
is there and what it deleted is gone, unless another request wanted the opposite;
no reference is lost; the history stays ordered. What is not left: a branch may
end up referencing two revisions (each thread removes the old leaf and adds its
own), after which every lookup of it fails; requests on *different* branches that
share a change set apply each other's triples; after a stop between change set
and revision the branch cannot be committed to until another branch has used the
number up, and after a stop between the write of the full graph and the move of the
branch the full graph stays ahead of the branch. `NamesAreFree` and `Materialized`
are properties of `SerialSpec`, which has no stops, and say nothing against either.

Reads are safe from everything but two things: another request on the references
whose full graphs they are reading, and another reader of the same old revision.
What earlier reads left behind because they failed is dropped before it could be
read.

`life_cycle` shows that the order of DROP GRAPH (named graphs, metadata, entry)
makes it repeatable, and that an interrupted CREATE does no harm to a later DROP.
It does harm before: until the graph is registered DROP finds nothing to drop, and
the next CREATE, which continues the numbers, gives the master a second revision.

### What the merge runs mean

Without a WITH part, a merge gives the source branch the last word: whatever the
source has is in the merged revision, even what the target deleted and the source
left alone (row `original-deleted` of `sdg.ttl`), and whatever the source deleted
is gone. A MERGE ... WITH removes every conflicting triple that its WITH part does
not name. Both sides of such a merge can be rebuilt, because no triple of the
source is dropped; after a MERGE MANUAL or a WITH part that drops one this is no
longer so (`merge_rebuild`), as the second change set has lost its deletions.
The common revision need not be the nearest one (the query takes any with a successor
that is not common, even one beside both branches). This does no harm by itself:
the progresses are exact from any common revision (`ProgressIsExact`). But a triple
that both branches share since may count as added or deleted on both sides and so
leave the difference model, and a path that is longer than necessary may run
through an older merge.

A merged revision has two change sets. A path follows one of them, and so does a
rebuild; the rewritten query undoes both (`rewriting_merged`).

Of merges beside each other or beside updates, `merge_steps` shows that a finished
request always stays in the history of its branch: the target's branch is moved
from the leaf that was read first, and when that leaf is no longer there the
branch references two revisions rather than losing one (and cannot be found by
its name any more). A merge that is alone is not hurt by temporary graphs that a
stop has left. A full graph may be left behind its branch by a stop, since a
merge moves the branch first, but no merge puts it ahead. When the source moves on
between the two reads of its leaf, the edge that is written has no change set, and
later paths over it fail.

## 4. Proofs

Every invariant and action property that a passing run checks is also a theorem,
for every value of the constants that satisfies the named assumptions: bounds are
natural numbers, inputs have their types, requests are finitely many in
`CommitSteps`, and special names (the master, a temporary graph) are different from
the others. As a bound is any number, the theorems are about histories of any length,
and about any number of threads, readers, merges, branches and triples. The modules
are proved in the same form: an invariant that is inductive, a lemma per action, and
under it a step per conjunct that the action can disturb.

**`RevisionGraphProofs`**: `IInv`. None of the invariants is inductive alone:

* `FullGraphIsLeafContent` needs `RebuildIsExact` (a finished rebuild becomes a
  full graph), which needs `ChangeSetsReplay` backwards for `UndoChangeSet`;
* `ChangeSetsReplay` for a new change set needs `FullGraphIsLeafContent` (the
  sets are stripped against the full graph, the claim is about the content);
* `HistoryIsTree` keeps the change set of a revision unique, which `Revert` and
  `UndoChangeSet` rely on when they pick one;
* `FirstChangeSetOnlyAdds` covers the revert of revision 0, `UnregisteredIsEmpty`
  the graph before `Create` and after `Drop`; `OneLeaf` is what makes `Moved`
  replace rather than add, so that a reference that is moved stays found.

The action properties `HistoryIsKept`, `UpdateTakesEffect` and `RevertRestores`
follow from the invariant. `ReferencesStayFound` does so action by action: a commit
and a fast-forward leave the reference they move with one revision
(`CommitKeepsFound`, `FoundStaysFound`), a new number is no identifier, and the
only new reference is that of the job.

**`RevisionGraphRefinementProofs`**: `Refinement`, every step maps to a step of
`VersionedGraph` or to a stutter. The lemmas on `DerivedStar` need no induction
because it is defined by closed sets. `AbsentIsNowhere` (a name without a reference
has no leaf) is the one addition to `IInv`.

**`CommitStepsProofs`**, threads side by side (`Spec`): typing, `LeavesExist` and
`HistoryIsOrdered` from `StepsInv`. The difficulty is the typing: numbers are drawn
from what other threads have written so far, and that there are enough of them
(`number \in Rev`, `Rev` as large as the number of threads) needs that numbers are
dense (`Dense`) and each was drawn by some thread (`Drawn`); a number beyond the
bound would have to be drawn by a thread too many (`NextIsInRange`).
`RequestsTakeEffect` from `EffectInv`: `Provenance` says that each triple of a
change set was asked for by a request that has drawn this change set, and
`TakesEffect` follows what a request wants through its stages, from the sets it
has filled to the full graph.

**The same, one request after the other** (`SerialSpec`): `NamesAreFree` from
`SerialInv` (what the request in progress has drawn is newer than everything,
all others rest), `Materialized` from `MaterialInv` (the full graph between
insertion, deletion and move is the content of the leaf with the part of the
change set that is already applied), and `AppearsAtomic`, that the chain of
transactions is one step of its abstract specification, from `ShownInv` (a
revision that is not written has empty sets, and writing it changes the content of
no other). `ContentOf` is a recursive function: `ContentIsComputed` proves the
equation it is declared by, from the orderedness of the history.

**`ThreeWayMergeProofs`**: `MergeInv`. It says where the merge stands: the revisions
it names are in the graph (`MergeKnown`), the two branches stay where they are, and
as long as no WITH part has decided a merge, the history replays over all of its
change sets (`HistoryExact`, the part of `IInv` that merged revisions leave), the
progresses are exact and know each triple of the common revision
(`ProgressFollows`: without the latter a triple that both sides kept could be
taken for a difference), and the merged graph is the target with the groups that
are done (`GroupsFollow`). Since the rows of `sdg.ttl` are disjoint, what is done
does not depend on the order. From it follow the exactness of the progresses, the
closed form of an automatic merge and of one with a WITH part, and that both
change sets of a merged revision replay, which closes the circle for the next merge.

**`OldRevisionReadsProofs`**: `ReadInv`. `ReadsChangeNothing` proves first that the
reads implement `Spec` of `RevisionGraph`, so that its theorems hold beside them.
`PathHolds` says that from where a reader has come its path goes down to the
revision it looks for, whatever becomes of the graph; `ReadIsExact`, of undisturbed
readers only, what each stage holds: the temporary graph is the content of the
revision `at`, the graphs found so far are exact, the path is one of change sets
that still exist. `CreateFailsOnlyByRace` follows, as an undisturbed reader at
`create` has found no temporary graph.

`RewrittenQueriesAreExact` proves `RewritingIsExact` of `QueryRewriting` from `IInv`
and `AbsentIsNowhere`: in a tree every walk from a reference to the old revision is a chain
(`WalkIsChain`), it ends there (`WalkReachesTarget`), and with each further revision
on the path the rewritten pattern undoes exactly its change set (`RewrittenFurther`):
its add set hides what was matched so far, and no add set met so far hides its delete
set.

**`GraphLifeCycleProofs`**: all four invariants. `Orderly` is what holds without
overlaps, stops or not: every named graph with triples is known to the metadata, a
DROP in progress has them on its list, and nothing is left when it unregisters.
`Whole` adds where a CREATE that is alone stands.

**`MergeStepsProofs`**: typing and `EdgesHaveChangeSets` from `MergeInv`:
`ReadsStand` says that what a merge has read stays in the history, `WritesStand`
relates each stage to the change set and revision written before it, and to
`moved`. `NothingIsLost` and `FullGraphIsNotAhead` speak of paths through the
history; `LeadInv` adds that what a branch leads to it always leads to, although
the leaf that is taken away may be an old one (`LeadsOn`), and that numbers grow
along the path (`NumberFollows`), so that `Derived`, a recursive function, is what
its equation says. `UndisturbedMergesAreAlone` from `AloneInv`: two merges in
progress are both disturbed, and a merge that is not has only itself in the
temporary graphs it has written.

**`VersionGraphViewProofs`**: `ViewInv`. The metadata have times that follow each
other along the history and along each branch (`TimesFollow`); the branches placed
so far all start later than those that are not (`HeadsInOrder`), `ends` is the end
of the last branch on each lane (`EndsAreLast`), branches on one lane are disjoint in
time (`LanesDisjoint`, from which `CirclesDoNotCollide` follows), and there was a
time at which all lanes were taken (`LanesWereNeeded`, the lower bound in
`LanesAreFewest`).

Recursive functions are unfolded, and strong induction over revision numbers is
done, by the least counterexample (`LeastNatural` from the library's `WFMin`).

Only model-checked: `RebuildEnds`, as liveness under fairness is out of the
prover's reach, and the three runs that expect a violation. The theorems of
`RevisionGraphProofs`, and `RewrittenQueriesAreExact`, are about histories without
three-way merges; with them the history is no longer a tree, and neither
`FullGraphIsLeafContent` (`merge_rebuild`) nor `RewritingIsExact`
(`rewriting_merged`) holds.

## 5. Plan

Done: the revision graph with its abstract specification and refinement; updates in
threads; the content and the steps of three-way merges; reads of old revisions,
rebuilt and rewritten; the life cycle of a graph; the lanes of the version graph
page; proofs of all safety properties of these.

Open, in this order:

1. Proofs about what the runs do not ask yet: which parts of `IInv` are left in
   histories with three-way merges and WITH parts (`MetaInv` of
   `ThreeWayMergeProofs` is a start), and that `Resolves` and `StartsRebuild` always
   find a way when names are unique.
2. `RewritingIsExact` for several GRAPH clauses in one query.
3. BRANCH, TAG and fast-forward transaction by transaction beside updates.
4. Updates whose WHERE clause reads a revision, and requests on several graphs.
5. A store over HTTP, whose failed updates are not noticed.

## 6. Not modelled

* Web service, server-side visualisation, console client and sample data: no state
  of a graph.
* The JavaScript libraries (`dagre-d3`, `jquery*`, `TurtleParser`): third-party
  copies, nearly all of the repository's JavaScript, with none of the program's own
  logic. The program itself is Java, with `version-graph.js` as the one script of
  its own; of this script the layout is modelled, not the curves and tooltips.
* Request parsing (regular expressions) and configuration.
* Aggregation and coevolution: their behaviour is that of SPIN rules in the data.
* PICK: its pattern demands a second closing quote, so that the documented request
  is refused.
* Virtuoso and HTTP transport. The result sets that Jena hands out after the end of
  their read transaction are taken as answered at once.
* URIs: a branch called `revision-5` takes the URI that revision 5 will need
  (`URICalculator.java:160`); names are abstract in the models. Of references it is
  only modelled that one may be called like a number or like the master, and that an
  update may name a tag as its branch, which then moves.
