------------------------------ MODULE Batches ------------------------------
(***************************************************************************)
(* Batches of updates and the pass that every node makes over a batch      *)
(* before it is known whether an update of it needs a refresh, and undoes  *)
(* from the first that does.  The pass cuts the deleted tree edges and     *)
(* links none, so an edge is cut by the first of its deletions only.       *)
(***************************************************************************)
EXTENDS DynamicTrees, Sequences

EdgeOf(u) == {u.src, u.dst}

UpdateMessage ==
  [type : {"insert", "delete"}, src : Vertex, dst : Vertex]

\* The forest F, or the forest of a link-cut tree, after i updates of b.
ForestAfter(F, b, i) ==
  F \ {EdgeOf(b[j]) : j \in {k \in 1 .. i : b[k].type = "delete"}}

\* The edges in a sketch after the updates of b at the positions S.  A second
\* update of an edge takes back the first, and the order does not matter.
SketchAfter(G, b, S) ==
  {e \in Edge : e \in G <=> Cardinality({i \in S : EdgeOf(b[i]) = e}) % 2 = 0}

\* Slip: one update is left out.
Slip_UpdatesFrom(b, first) == first + 1 .. Len(b)

\* The positions of the updates that are undone, or not applied yet.
UpdatesFrom(b, first) == first .. Len(b)

\* The i-th update cuts its edge of the forest F.
Cuts(F, b, i) ==
  b[i].type = "delete" /\ EdgeOf(b[i]) \in ForestAfter(F, b, i - 1)

\* Relink the edges that updates first .. Len(b) cut, in their order.
Relinked(F, b, cut, first) ==
  LET forest[i \in first - 1 .. Len(b)] ==
        IF i < first THEN F
        ELSE IF cut[i] THEN EttLink(forest[i - 1], EdgeOf(b[i]))
        ELSE forest[i - 1]
  IN  forest[Len(b)]

\* The same for a link-cut tree, which needs the weights they had, 0 if not cut.
RelinkedWeighted(l, b, weights, first) ==
  LET tree[i \in first - 1 .. Len(b)] ==
        IF i < first THEN l
        ELSE IF weights[i] # 0 THEN LctLink(tree[i - 1], EdgeOf(b[i]), weights[i])
        ELSE tree[i - 1]
  IN  tree[Len(b)]
=============================================================================
