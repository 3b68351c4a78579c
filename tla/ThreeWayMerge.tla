---------------------------- MODULE ThreeWayMerge ----------------------------
(***************************************************************************)
(* MERGE of two branches that have diverged.  The request rebuilds their   *)
(* common revision, replays the change sets from there to both leaves in   *)
(* two revision progresses, compares these by the structural definition    *)
(* groups, decides every difference, and commits the outcome as a revision *)
(* with two prior revisions.                                               *)
(*                                                                         *)
(* The temporary graphs of a merge are dropped before they are written, so *)
(* what an earlier merge left in them is never read; here they are part of *)
(* the request.  One request is served at a time.                          *)
(***************************************************************************)
EXTENDS RevisionGraph

CONSTANTS
    Changes,    \* pairs <<add, delete>>: the updates that clients send
    MergeTypes, \* a subset of MergeType
    Plain       \* how a triple is read back after the difference model

\* MERGE AUTO, MERGE, MERGE ... WITH and MERGE MANUAL ... WITH.
MergeType == {"AUTO", "COMMON", "WITH", "MANUAL"}

ASSUME ChangesAssumption == Changes \subseteq (SUBSET Triple) \X (SUBSET Triple)
ASSUME MergeTypesAssumption == MergeTypes \subseteq MergeType

\* An object with a datatype or a language is written into the difference
\* model as a string with the suffix in it, which then stays as it is.
ASSUME PlainAssumption == /\ Plain \in [Triple -> Triple]
                          /\ \A t \in Triple : Plain[Plain[t]] = Plain[t]

VARIABLES
    merge,      \* the MERGE request being served
    decided     \* history: revisions whose content a WITH part gave

mergeVars == <<vars, merge, decided>>

-----------------------------------------------------------------------------
(***************************************************************************)
(* Revision progresses and differences.                                    *)
(***************************************************************************)
Progress == [Original: SUBSET Triple, Added: SUBSET Triple, Deleted: SUBSET Triple]

Initial(graph) == [Original |-> graph, Added |-> {}, Deleted |-> {}]

\* Mutant: a triple that is added again stays deleted, too.
WithoutReset(p, cs) ==
    [Original |-> p.Original \ (cs.add \cup cs.del),
     Added |-> (p.Added \cup cs.add) \ cs.del,
     Deleted |-> p.Deleted \cup cs.del]

\* The triples of the add set leave their old state and are Added, then those
\* of the delete set leave theirs and are Deleted.
WithChangeSet(p, cs) ==
    [Original |-> p.Original \ (cs.add \cup cs.del),
     Added |-> (p.Added \cup cs.add) \ cs.del,
     Deleted |-> (p.Deleted \ cs.add) \cup cs.del]

InState(p, state) ==
    IF state = "NotIncluded" THEN Triple \ (p.Original \cup p.Added \cup p.Deleted)
    ELSE p[state]

Definition(a, b, conflict, resolution) ==
    [a |-> a, b |-> b, conflict |-> conflict, resolution |-> resolution]

\* Mutant: what the target deleted stays deleted.
SDGOfBoth ==
    {Definition("Deleted", "Added", TRUE, "Deleted"),
     Definition("Deleted", "Original", FALSE, "Deleted"),
     Definition("Added", "Deleted", TRUE, "Added"),
     Definition("Added", "NotIncluded", FALSE, "Added"),
     Definition("Original", "Deleted", FALSE, "Deleted"),
     Definition("NotIncluded", "Added", FALSE, "Added")}

\* The structural definitions that make a difference: state of the triple in
\* the source (A) and in the target (B), and what an automatic merge does.
SDG ==
    {Definition("Deleted", "Added", TRUE, "Deleted"),
     Definition("Deleted", "Original", FALSE, "Deleted"),
     Definition("Added", "Deleted", TRUE, "Added"),
     Definition("Added", "NotIncluded", FALSE, "Added"),
     Definition("Original", "Deleted", FALSE, "Added"),
     Definition("NotIncluded", "Added", FALSE, "Added")}

\* The difference model: pairs <<definition, triple>>.
Differences(from, into) ==
    UNION {{d} \X {Plain[t] : t \in InState(from, d.a) \cap InState(into, d.b)} : d \in SDG}

HasConflict(differences) == \E x \in differences : x[1].conflict

\* Mutant: the WITH part decides every difference.
GivenOrRemoved(d, type, given, t) ==
    IF type = "WITH" THEN t \in given ELSE d.resolution = "Added"

\* Whether a triple is to be in the merged graph: what the definition says or,
\* for a conflict in a MERGE with a WITH part, whether this part has it.
IsToBeAdded(d, type, given, t) ==
    IF type = "WITH" /\ d.conflict THEN t \in given ELSE d.resolution = "Added"

\* The differences of group d join those of the groups before it, and all of
\* them are applied to the merged graph: additions first.
WithGroup(m, d) ==
    LET triples == {t \in Triple : <<d, t>> \in m.differences}
        adds == m.adds \cup {t \in triples : IsToBeAdded(d, m.type, m.given, t)}
        dels == m.dels \cup {t \in triples : ~ IsToBeAdded(d, m.type, m.given, t)}
    IN  [m EXCEPT !.groups = @ \ {d}, !.adds = adds, !.dels = dels,
                  !.merged = Applied(@, adds, dels)]

-----------------------------------------------------------------------------
(***************************************************************************)
(* The request.                                                            *)
(***************************************************************************)
NoMerge ==
    [stage |-> "none", from |-> MasterRef, into |-> MasterRef, source |-> 0,
     target |-> 0, common |-> 0, type |-> "AUTO", given |-> {}, at |-> 0,
     base |-> {}, progressFrom |-> Initial({}), progressInto |-> Initial({}),
     differences |-> {}, groups |-> {}, adds |-> {}, dels |-> {}, merged |-> {}]

Stage == {"none", "rebuild", "from", "into", "decide", "resolve"}

Merging == merge.stage # "none"

\* A revision both leaves are derived from, with a successor that is not one:
\* the first that the triplestore finds is taken.
IsCommonRevision(u, v, c) ==
    /\ DerivedPlus(u, c) /\ DerivedPlus(v, c)
    /\ \E e \in wasDerivedFrom : e[2] = c /\ ~ (DerivedPlus(u, e[1]) /\ DerivedPlus(v, e[1]))

\* The common revision has a branch, whose full graph is used, or is rebuilt
\* from the full graph of a nearest reference, which must have triples.
StartsBase(c, h, q) ==
    /\ IsReference(q) /\ h \in references[q]
    /\ IF h = c THEN IsBranch(q) ELSE fullContent[q] # {}
    /\ StartsRebuild(c, h)

BeginMerge(f, u, r, v, c) ==
    /\ Serving
    /\ Resolves(f, u)
    /\ Resolves(r, v)
    /\ u # v
    /\ ~ DerivedPlus(u, v)
    /\ IsCommonRevision(u, v, c)
    /\ \E h \in revisions, q \in Ref :
          /\ StartsBase(c, h, q)
          /\ merge' = [NoMerge EXCEPT !.stage = "rebuild", !.from = f, !.into = r,
                          !.source = u, !.target = v, !.common = c,
                          !.at = h, !.base = fullContent[q]]
    /\ UNCHANGED <<vars, decided>>

\* Mutant: any change set of the revision is undone, even the first one.
UndoAnyOfBase(cs) ==
    /\ merge.stage = "rebuild"
    /\ cs \in changeSets
    /\ cs.succ = merge.at
    /\ merge' = [merge EXCEPT !.base = Undone(merge.base, cs), !.at = cs.prior]
    /\ UNCHANGED <<vars, decided>>

\* One change set on the way to the common revision is undone.
UndoOfBase(cs) ==
    /\ merge.stage = "rebuild"
    /\ merge.at # merge.common
    /\ cs \in changeSets
    /\ cs.succ = merge.at
    /\ cs.prior # NoRevision
    /\ DerivedStar(cs.prior, merge.common)
    /\ merge' = [merge EXCEPT !.base = Undone(merge.base, cs), !.at = cs.prior]
    /\ UNCHANGED <<vars, decided>>

\* The revision progresses start with the common revision, that of the source
\* branch first.
StartProgress ==
    /\ \/ /\ merge.stage = "rebuild"
          /\ merge.at = merge.common
          /\ merge' = [merge EXCEPT !.stage = "from", !.progressFrom = Initial(merge.base)]
       \/ /\ merge.stage = "from"
          /\ merge.at = merge.source
          /\ merge' = [merge EXCEPT !.stage = "into", !.progressInto = Initial(merge.base),
                                    !.at = merge.common]
    /\ UNCHANGED <<vars, decided>>

\* The next change set of a path from the common revision to leaf v.
IsNextOnPath(cs, v) ==
    /\ merge.at # v
    /\ cs \in changeSets
    /\ cs.prior = merge.at
    /\ DerivedStar(v, cs.succ)

ContinueProgress(cs) ==
    /\ \/ /\ merge.stage = "from"
          /\ IsNextOnPath(cs, merge.source)
          /\ merge' = [merge EXCEPT !.progressFrom = WithChangeSet(@, cs), !.at = cs.succ]
       \/ /\ merge.stage = "into"
          /\ IsNextOnPath(cs, merge.target)
          /\ merge' = [merge EXCEPT !.progressInto = WithChangeSet(@, cs), !.at = cs.succ]
    /\ UNCHANGED <<vars, decided>>

CreateDifferenceModel ==
    /\ merge.stage = "into"
    /\ merge.at = merge.target
    /\ merge' = [merge EXCEPT !.stage = "decide",
                    !.differences = Differences(merge.progressFrom, merge.progressInto)]
    /\ UNCHANGED <<vars, decided>>

\* MERGE: the client gets the difference model, nothing is committed.  (The
\* type of the request and its WITH part are not looked at before.)
ReportConflict ==
    /\ merge.stage = "decide"
    /\ "COMMON" \in MergeTypes
    /\ HasConflict(merge.differences)
    /\ merge' = NoMerge
    /\ UNCHANGED <<vars, decided>>

\* MERGE AUTO, MERGE without a conflict and MERGE ... WITH: the merged graph
\* starts as a copy of the target's full graph, which must have triples.
CopyTarget(type, given) ==
    /\ merge.stage = "decide"
    /\ type \in {"AUTO", "COMMON", "WITH"}
    /\ type = "COMMON" => ~ HasConflict(merge.differences)
    /\ type # "WITH" => given = {}
    /\ fullContent[merge.into] # {}
    /\ merge' = [merge EXCEPT !.stage = "resolve", !.type = type, !.given = given,
                    !.merged = fullContent[merge.into],
                    !.groups = {x[1] : x \in merge.differences}]
    /\ UNCHANGED <<vars, decided>>

\* MERGE MANUAL ... WITH: the given triples are the merged graph.
TakeGivenTriples(given) ==
    /\ merge.stage = "decide"
    /\ "MANUAL" \in MergeTypes
    /\ merge' = [merge EXCEPT !.stage = "resolve", !.type = "MANUAL", !.given = given,
                    !.merged = given]
    /\ UNCHANGED <<vars, decided>>

ResolveGroup(d) ==
    /\ merge.stage = "resolve"
    /\ d \in merge.groups
    /\ merge' = WithGroup(merge, d)
    /\ UNCHANGED <<vars, decided>>

\* Mutant: triples of the target that are still in the merged graph.
KeptOf(r) == fullContent[r] \cap merge.merged

DeletedOf(r) == fullContent[r] \ merge.merged

AddedTo(r) == merge.merged \ fullContent[r]

\* The change set of the target branch is stripped against its full graph.
\* That of the source branch is stripped against the URI of the branch, where
\* no graph is: it keeps its additions and loses its deletions.
CommitMerge(n, u, v) ==
    /\ merge.stage = "resolve"
    /\ merge.groups = {}
    /\ Resolves(merge.from, u)
    /\ Resolves(merge.into, v)
    /\ IsNextRevision(n)
    /\ revisions' = revisions \cup {n}
    /\ wasDerivedFrom' = wasDerivedFrom \cup {<<n, v>>, <<n, u>>}
    /\ changeSets' = changeSets \cup
          {[prior |-> v, succ |-> n, add |-> AddedTo(merge.into), del |-> DeletedOf(merge.into)],
           [prior |-> u, succ |-> n, add |-> AddedTo(merge.from), del |-> {}]}
    /\ references' = [references EXCEPT ![merge.into] = Moved(merge.into, merge.target, n)]
    /\ fullContent' = [fullContent EXCEPT ![merge.into] =
                          Applied(@, AddedTo(merge.into), DeletedOf(merge.into))]
    /\ content' = [content EXCEPT ![n] = merge.merged]
    /\ decided' = IF merge.type \in {"WITH", "MANUAL"} THEN decided \cup {n} ELSE decided
    /\ merge' = NoMerge
    /\ UNCHANGED <<registered, kind, used, job>>

\* The server stops or the triplestore refuses a step: only temporary graphs
\* have been written.
AbandonMerge ==
    /\ Merging
    /\ merge' = NoMerge
    /\ UNCHANGED <<vars, decided>>

-----------------------------------------------------------------------------
MergeInit == Init /\ merge = NoMerge /\ decided = {}

\* The other requests that change the history, with the updates in Changes.
\* TAG and a stop during a BRANCH, which do not, are left to RevisionGraph.
OtherRequest ==
    /\ ~ Merging
    /\ \/ \E add \in SUBSET Triple : Create(add)
       \/ \E r \in Ref, n \in Rev : \E v \in references[r] :
             \/ \E change \in Changes : Update(r, v, n, change[1], change[2])
             \/ UpdateRejected(r, v, n)
             \/ \E cs \in changeSets : Revert(r, v, n, cs)
       \/ \E r \in Name, v \in revisions, q \in Ref : \E h \in references[q] :
             BeginReference("branch", r, v, h, q)
       \/ Undo
       \/ FinishReference
       \/ MergeRequest
    /\ UNCHANGED <<merge, decided>>

DropRequest == ~ Merging /\ Drop /\ decided' = {} /\ UNCHANGED merge

BeginThreeWayMerge ==
    /\ ~ Merging
    /\ \E f, r \in Ref : \E u \in references[f], v \in references[r] :
          \E c \in revisions : BeginMerge(f, u, r, v, c)

MergeStep ==
    \/ \E cs \in changeSets : UndoOfBase(cs)
    \/ StartProgress
    \/ \E cs \in changeSets : ContinueProgress(cs)
    \/ CreateDifferenceModel
    \/ ReportConflict
    \/ \E type \in MergeTypes, given \in SUBSET Triple : CopyTarget(type, given)
    \/ \E given \in SUBSET Triple : TakeGivenTriples(given)
    \/ \E d \in SDG : ResolveGroup(d)
    \/ \E u \in references[merge.from], v \in references[merge.into] :
          \E n \in Rev : CommitMerge(n, u, v)

MergeNext == OtherRequest \/ DropRequest \/ BeginThreeWayMerge \/ MergeStep \/ AbandonMerge

MergeSpec == MergeInit /\ [][MergeNext]_mergeVars

-----------------------------------------------------------------------------
(***************************************************************************)
(* Properties.                                                             *)
(***************************************************************************)

\* The request has its type: every revision it visits is one of the graph.
MergeTypeOK ==
    /\ decided \subseteq revisions
    /\ merge.stage \in Stage
    /\ {merge.from, merge.into} \subseteq Ref
    /\ Merging => {merge.source, merge.target, merge.common, merge.at} \subseteq revisions
    /\ merge.type \in MergeType
    /\ {merge.given, merge.base, merge.adds, merge.dels, merge.merged} \subseteq SUBSET Triple
    /\ {merge.progressFrom, merge.progressInto} \subseteq Progress
    /\ merge.differences \subseteq SDG \X Triple
    /\ merge.groups \subseteq SDG

\* A progress tells the truth about the revision it has reached: its content
\* is what is Original or Added, and no triple is in two states.
Describes(p, v) ==
    /\ p.Original \cup p.Added = content[v]
    /\ p.Original \cap p.Added = {}
    /\ p.Deleted \cap content[v] = {}

\* No literal that is changed on its way through the difference model.
AllPlain == \A t \in Triple : Plain[t] = t

\* The progresses are exact on every path through the history, through either
\* side of earlier merges, as long as no WITH part has decided a merge (and no
\* merge has lost a literal).
ProgressIsExact ==
    decided = {} /\ AllPlain =>
        /\ merge.stage = "from" => Describes(merge.progressFrom, merge.at)
        /\ merge.stage = "into" => /\ Describes(merge.progressFrom, merge.source)
                                   /\ Describes(merge.progressInto, merge.at)

IsResolved == merge.stage = "resolve" /\ merge.groups = {}

\* A merge that nobody decides has everything that the source branch has (not
\* even a deletion in the target wins over it) and, beside this, what the
\* target branch added and the source branch did not delete.
AutomaticMergeKeepsSource ==
    IsResolved /\ merge.type \in {"AUTO", "COMMON"} /\ decided = {} /\ AllPlain =>
        merge.merged = fullContent[merge.from]
                          \cup (merge.progressInto.Added \ merge.progressFrom.Deleted)

\* A WITH part decides the triples that one side added and the other deleted,
\* whatever else it contains or leaves out.
WithPartDecidesConflicts ==
    IsResolved /\ merge.type = "WITH" /\ decided = {} /\ AllPlain =>
        LET from == merge.progressFrom
            into == merge.progressInto
            conflicts == (from.Added \cap into.Deleted) \cup (from.Deleted \cap into.Added)
        IN  /\ merge.merged \cap conflicts = merge.given \cap conflicts
            /\ fullContent[merge.from] \ conflicts \subseteq merge.merged

\* Revisions can be rebuilt over both sides of every merge, as long as no WITH
\* part has decided one.
MergedHistoryReplays ==
    decided = {} /\ AllPlain => \A cs \in changeSets : cs.prior # NoRevision =>
        /\ content[cs.succ] = Applied(content[cs.prior], cs.add, cs.del)
        /\ content[cs.prior] = Undone(content[cs.succ], cs)
=============================================================================
