----------------------- MODULE RevisionGraphRefinement -----------------------
(***************************************************************************)
(* RevisionGraph implements VersionedGraph: a reference comes into being   *)
(* with its metadata (the steps of its rebuild stutter), what a client     *)
(* reads of it is its full graph, and one revision is before another when  *)
(* wasDerivedFrom leads from the other to it.                              *)
(***************************************************************************)
EXTENDS RevisionGraph

ViewOf(r) == IF IsReference(r) THEN fullContent[r] ELSE {}

DerivedBefore == {e \in revisions \X revisions : DerivedPlus(e[1], e[2])}

Versioned == INSTANCE VersionedGraph
    WITH Revision <- Rev, Content <- SUBSET Triple,
         recorded <- revisions, versions <- content, before <- DerivedBefore,
         head <- references, view <- [r \in Ref |-> ViewOf(r)]

\* Every request, with all its writes and however a rebuild is interrupted,
\* is one step of the versioned graph or none: a revision keeps its content,
\* a reference shows the content of its head, a merge never moves a reference
\* off what was committed to it.
ImplementsVersionedGraph == Versioned!Spec
=============================================================================
