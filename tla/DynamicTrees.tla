---------------------------- MODULE DynamicTrees ----------------------------
(***************************************************************************)
(* What the two dynamic tree structures do to their forests.  The forest   *)
(* of an Euler tour tree is a set of edges; the link-cut tree's is a       *)
(* function from its edges to their weights.  The structures behind them   *)
(* (skip lists, splay trees) are not represented.                          *)
(***************************************************************************)
EXTENDS Forests

\* Slip: the Euler tour trees are not cut.
Slip_EttCut(F, e) == F

EttCut(F, e) == F \ {e}

\* EulerTourNode::link returns false when the trees are one already.
EttLink(F, e) == IF Joins(F, e) THEN F ELSE F \cup {e}

\* Slip: the link-cut tree is not cut.
Slip_LctCut(l, e) == l

LctCut(l, e) == [f \in DOMAIN l \ {e} |-> l[f]]

LctLink(l, e, weight) ==
  [f \in DOMAIN l \cup {e} |-> IF f = e THEN weight ELSE l[f]]

\* Slip: some edge of the path, not the heaviest.
Slip_Heaviest(l, e) == PathEdges(DOMAIN l, e)

\* path_aggregate: which of several heaviest edges comes first depends on the
\* shape of the splay trees.
Heaviest(l, e) ==
  LET path == PathEdges(DOMAIN l, e)
  IN  {c \in path : \A d \in path : l[d] <= l[c]}

TreeSize(F, v) == Cardinality(Component(F, v))
=============================================================================
