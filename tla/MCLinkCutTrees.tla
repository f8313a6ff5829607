--------------------------- MODULE MCLinkCutTrees ---------------------------
(***************************************************************************)
(* LinkCutTrees on a few vertices: every forest on them, however the       *)
(* splay trees, the preferred paths and the caches got to their shape.     *)
(***************************************************************************)
EXTENDS LinkCutTrees, TLC

\* Bound: edges of different weights only in forests of two edges, where the
\* splay trees have three nodes and every kind of rotation happens.
FewWeights ==
  LET weight == [e \in UNION {DOMAIN nodes[v].edges : v \in Vertex} |->
                   nodes[CHOOSE v \in e : TRUE].edges[e]]
  IN  Cardinality(DOMAIN weight) =< 2 \/ \A e \in DOMAIN weight : weight[e] = 1

BoundedSpec == Init /\ [][Next /\ FewWeights']_nodes

VertexSymmetry == Permutations(Vertex)
=============================================================================
