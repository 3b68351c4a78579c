---------------------------- MODULE QueryRewriting ----------------------------
(***************************************************************************)
(* SELECT of an old revision with the option query_rewriting: no graph is  *)
(* rebuilt.  Each triple pattern is turned into one over the full graph of *)
(* a later reference and the change sets on the way to it, so that one     *)
(* query of the store answers it.  Here are the paths that the rewriter    *)
(* asks for and the triples that a rewritten pattern matches.              *)
(***************************************************************************)
EXTENDS RevisionGraph

\* Some reference is at v: no pattern is rewritten, its full graph is read.
HasReference(v) == \E r \in Ref : v \in references[r]

\* Where a path from v may end.
PathEnds(v) == {u \in revisions : HasReference(u) /\ DerivedStar(u, v)}

\* The revisions that lie between v and u, with both.
Between(v, u) == {w \in revisions : DerivedStar(u, w) /\ DerivedStar(w, v)}

\* Walking back from u: at each revision one that it was derived from and that
\* lies between (a merged revision may have two).
Choices(v, u) ==
    {f \in [Between(v, u) \ {v} -> Between(v, u)] :
        \A w \in DOMAIN f : <<w, f[w]>> \in wasDerivedFrom}

Walked(f, u) ==
    {w \in revisions : \A S \in SUBSET revisions :
        (u \in S /\ \A x \in S \cap DOMAIN f : f[x] \in S) => w \in S}

Paths(v, u) == {Walked(f, u) : f \in Choices(v, u)}

\* Pairs <<end, path>>: the shortest of the paths to all ends.
BestPaths(v) ==
    {b \in UNION {{u} \X Paths(v, u) : u \in PathEnds(v)} :
        \A u \in PathEnds(v) : \E P \in Paths(v, u) : Cardinality(b[2]) <= Cardinality(P)}

\* Mutant: an add set hides what comes from its own revision only.
HiddenByOwn(t, from, path) ==
    \E cs \in changeSets : cs.succ \in path /\ from = cs.succ /\ t \in cs.add

\* The MINUS part: t was added on the path, in the revision it comes from or in
\* an earlier one.
Hidden(t, from, path) ==
    \E cs \in changeSets : cs.succ \in path /\ DerivedStar(from, cs.succ) /\ t \in cs.add

\* The triples that a rewritten pattern matches for the revision that b leads
\* away from: those of the full graph at its end and those of the delete sets
\* on the path, unless hidden.  The path is that of the expression list,
\* without the revision itself.
Rewritten(b, path) ==
    {t \in Triple :
        \/ ~ Hidden(t, b[1], path) /\ \E r \in Ref : b[1] \in references[r] /\ t \in fullContent[r]
        \/ \E cs \in changeSets :
              cs.succ \in path /\ t \in cs.del /\ ~ Hidden(t, cs.succ, path)}

-----------------------------------------------------------------------------
\* A query that names one old revision, and is rewritten, sees exactly the
\* content of this revision, whichever end and path is taken, and though the
\* MINUS part knows nothing of the order of change sets but wasDerivedFrom.
RewritingIsExact ==
    \A v \in revisions : ~ HasReference(v) =>
        \A b \in BestPaths(v) : Rewritten(b, b[2] \ {v}) = content[v]
=============================================================================
