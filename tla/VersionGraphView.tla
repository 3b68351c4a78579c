--------------------------- MODULE VersionGraphView ---------------------------
(***************************************************************************)
(* The page that draws a revision graph (webapp/js/version-graph.js).  It  *)
(* loads the metadata once, builds its arrays of revisions and branches    *)
(* and gives every branch a lane: the revisions are circles on the lane of *)
(* the branch they belong to, from left to right by the time of their      *)
(* commits.  The master has lane 0; another branch takes the first lane in *)
(* which the branches placed before it start later than it ends.           *)
(*                                                                         *)
(* The page reads the vocabulary of an earlier server (prov:generated,     *)
(* rmo:belongsTo, as in                                                    *)
(* src/test/resources/core/R43plesCore/revisiongraph_datasetComplex_pick_1 *)
(* .ttl), and stops on the metadata of today's, which has no rmo:belongsTo *)
(* (StructuredTree.java:132).  That server is not in the repository: it is *)
(* modelled by the metadata it may leave, a revision before its commit and *)
(* the move of its branch.                                                 *)
(***************************************************************************)
EXTENDS Integers, Sequences, FiniteSets

CONSTANTS
    Master,     \* the branch labelled "master"
    Branch,     \* the other branches
    MaxRevision \* bound: the highest revision number

ASSUME MasterAssumption == Master \notin Branch
ASSUME BoundsAssumption == MaxRevision \in Nat

VARIABLES
    \* the metadata of the server
    parent,     \* the revision each revision was derived from
    belongsTo,  \* the branch it was committed to
    time,       \* the time of its commit, NoCommit as long as there is none
    head,       \* rmo:references, for each branch there is
    derivedFrom,\* the revision a branch was created from
    \* the page
    page,       \* "empty", "placing", "drawn" or "broken"
    unplaced,   \* the branches that have no lane yet
    ends,       \* positions: where the last branch of each lane ends
    position    \* branchPositions

metadata == <<parent, belongsTo, time, head, derivedFrom>>
view == <<page, unplaced, ends, position>>
vars == <<metadata, view>>

NoCommit == -1
NoRevision == -1

Time == 0..MaxRevision

Revisions == DOMAIN parent
Branches == DOMAIN head
Uncommitted == {v \in Revisions : time[v] = NoCommit}

LatestTime == CHOOSE t \in Time :
    /\ \E v \in Revisions : time[v] = t
    /\ \A v \in Revisions : time[v] <= t

Extended(f, x, y) == [z \in DOMAIN f \cup {x} |-> IF z = x THEN y ELSE f[z]]

\* rmo:wasDerivedFrom*
Ancestors(v) ==
    LET up[u \in Revisions] == {u} \cup (IF parent[u] = NoRevision THEN {} ELSE up[parent[u]])
    IN  up[v]

-----------------------------------------------------------------------------
(***************************************************************************)
(* The server.                                                             *)
(***************************************************************************)

\* An update writes its revision; it may end here (see RevisionGraph,
\* UpdateRejected), or the server may stop.
WriteRevision(b) ==
    LET n == Cardinality(Revisions) IN
    /\ n <= MaxRevision
    /\ parent' = Extended(parent, n, head[b])
    /\ belongsTo' = Extended(belongsTo, n, b)
    /\ time' = Extended(time, n, NoCommit)
    /\ UNCHANGED <<head, derivedFrom, view>>

\* Its commit, perhaps in the same millisecond as the one before (times are
\* ranks: only their order counts).
WriteCommit(v, t) ==
    /\ v \in Uncommitted
    /\ parent[v] = head[belongsTo[v]]
    /\ t \in {LatestTime, LatestTime + 1}
    /\ time' = [time EXCEPT ![v] = t]
    /\ head' = [head EXCEPT ![belongsTo[v]] = v]
    /\ UNCHANGED <<parent, belongsTo, derivedFrom, view>>

CreateBranch(b, v) ==
    /\ b \in Branch \ Branches
    /\ v \in Revisions \ Uncommitted
    /\ head' = Extended(head, b, v)
    /\ derivedFrom' = Extended(derivedFrom, b, v)
    /\ UNCHANGED <<parent, belongsTo, time, view>>

FastForward(f, b) ==
    /\ head[b] \in Ancestors(head[f]) \ {head[f]}
    /\ head' = [head EXCEPT ![b] = head[f]]
    /\ UNCHANGED <<parent, belongsTo, time, derivedFrom, view>>

-----------------------------------------------------------------------------
(***************************************************************************)
(* The page.                                                               *)
(***************************************************************************)

\* Lanes are filled from right to left: a branch starts with its head and ends
\* with the revision it was created from.
StartTime(b) == time[head[b]]

\* Mutant: the present, the end of a branch that was not created from another,
\* for every branch.
EndsNow(b) == MaxRevision + 1

EndTime(b) == time[derivedFrom[b]]

\* The metadata is loaded.  The time of a revision without a commit is
\* undefined: sorting throws and nothing is drawn.
Load ==
    /\ page = "empty"
    /\ IF Uncommitted = {}
       THEN page' = "placing" /\ unplaced' = Branches
       ELSE page' = "broken" /\ unplaced' = {}
    /\ UNCHANGED <<metadata, ends, position>>

\* Mutant: the oldest head first.
IsLast(b) == \A c \in unplaced : StartTime(b) <= StartTime(c)

\* The branches are sorted by their heads, the newest first.
IsFirst(b) == \A c \in unplaced : StartTime(c) <= StartTime(b)

\* Mutant: a branch that ends at the same revision as another one starts.
Meets(b, j) == StartTime(b) <= ends[j]

Fits(b, j) == StartTime(b) < ends[j]

\* The first lane that is free, else a new one.
FirstFree(b) ==
    LET free == {j \in 1..Len(ends) : Fits(b, j)} \cup {Len(ends) + 1}
    IN  {j \in free : \A i \in free : j <= i}

PlaceMaster ==
    /\ page = "placing"
    /\ Master \in unplaced
    /\ IsFirst(Master)
    /\ unplaced' = unplaced \ {Master}
    /\ position' = Extended(position, Master, 0)
    /\ UNCHANGED <<metadata, page, ends>>

PlaceBranch(b) ==
    /\ page = "placing"
    /\ b \in unplaced \ {Master}
    /\ IsFirst(b)
    /\ \E j \in FirstFree(b) :
          /\ ends' = [i \in 1..(IF j > Len(ends) THEN j ELSE Len(ends)) |->
                         IF i = j THEN EndTime(b) ELSE ends[i]]
          /\ position' = Extended(position, b, j)
    /\ unplaced' = unplaced \ {b}
    /\ UNCHANGED <<metadata, page>>

Draw ==
    /\ page = "placing"
    /\ unplaced = {}
    /\ page' = "drawn"
    /\ UNCHANGED <<metadata, unplaced, ends, position>>

\* The page is opened again.
Reload ==
    /\ page \in {"drawn", "broken"}
    /\ page' = "empty" /\ unplaced' = {} /\ ends' = <<>> /\ position' = <<>>
    /\ UNCHANGED metadata

-----------------------------------------------------------------------------
Init ==
    /\ parent = [v \in {0} |-> NoRevision]
    /\ belongsTo = [v \in {0} |-> Master]
    /\ time = [v \in {0} |-> 0]
    /\ head = [b \in {Master} |-> 0]
    /\ derivedFrom = <<>>
    /\ page = "empty" /\ unplaced = {} /\ ends = <<>> /\ position = <<>>

\* What the server does after the page was loaded does not reach the page.
Serve ==
    /\ page = "empty"
    /\ \/ \E b \in Branches : WriteRevision(b)
       \/ \E v \in Revisions, t \in Time : WriteCommit(v, t)
       \/ \E b \in Branch, v \in Revisions : CreateBranch(b, v)
       \/ \E f, b \in Branches : FastForward(f, b)

Next ==
    \/ Serve
    \/ Load
    \/ PlaceMaster
    \/ \E b \in Branch : PlaceBranch(b)
    \/ Draw
    \/ Reload

Spec == Init /\ [][Next]_vars
-----------------------------------------------------------------------------
(***************************************************************************)
(* Properties.                                                             *)
(***************************************************************************)

\* Every variable has its type; lanes are numbered without gaps.
ViewTypeOK ==
    /\ Revisions \subseteq 0..MaxRevision
    /\ Branches \subseteq Branch \cup {Master}
    /\ unplaced \subseteq Branches
    /\ ends \in Seq(Time)
    /\ DOMAIN position \subseteq Branches
    /\ \A b \in DOMAIN position : position[b] \in 0..Len(ends)

\* Circles at the same place belong to the same branch: revisions of different
\* branches never cover each other, though branches share lanes, are created
\* from each other's revisions and fast-forwarded over them.
CirclesDoNotCollide ==
    page = "drawn" =>
        \A v, w \in Revisions :
            position[belongsTo[v]] = position[belongsTo[w]] /\ time[v] = time[w]
                => belongsTo[v] = belongsTo[w]

Spans(b, t) == EndTime(b) <= t /\ t <= StartTime(b)

\* No more lanes than branches that exist at one point of time: taking the
\* first free lane in the order of the heads is optimal.
LanesAreFewest ==
    page = "drawn" /\ ends # <<>> =>
        \E t \in Time :
            Cardinality({b \in Branches \ {Master} : Spans(b, t)}) = Len(ends)
=============================================================================
