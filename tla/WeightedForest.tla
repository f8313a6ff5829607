--------------------------- MODULE WeightedForest ---------------------------
(***************************************************************************)
(* What the link-cut tree promises the tiers: its links and cuts change a  *)
(* weighted forest as DynamicTrees says, and nothing else changes it.      *)
(***************************************************************************)
EXTENDS DynamicTrees

CONSTANT Weight

VARIABLE forest   \* the weights of its edges

Init == forest = [e \in {} |-> 0]

\* find_root, path_aggregate and get_cc turn the splay trees round and nothing
\* else.
Ask == UNCHANGED forest

Cut(e) == forest' = LctCut(forest, e)

Link(e, weight) ==
  /\ ~Joins(DOMAIN forest, e)
  /\ forest' = LctLink(forest, e, weight)

Next ==
  \/ Ask
  \/ \E e \in DOMAIN forest : Cut(e)
  \/ \E e \in Edge, weight \in Weight : Link(e, weight)

Spec == Init /\ [][Next]_forest
=============================================================================
