--------------------------- MODULE DynamicForest ---------------------------
(***************************************************************************)
(* What an Euler tour tree promises the tiers: link and cut change a       *)
(* forest as DynamicTrees says, and the trees it can tell apart are the    *)
(* forest's components.                                                    *)
(***************************************************************************)
EXTENDS DynamicTrees

VARIABLES
  forest,    \* its edges
  trees      \* the vertices of each tree

vars == <<forest, trees>>

Trees(F) == Blocks(F, Vertex)

Init ==
  /\ forest = {}
  /\ trees = Trees({})

Link(e) ==
  /\ forest' = EttLink(forest, e)
  /\ trees' = Trees(forest')

Cut(e) ==
  /\ forest' = EttCut(forest, e)
  /\ trees' = Trees(forest')

Next == \E e \in Edge : Link(e) \/ Cut(e)

Spec == Init /\ [][Next]_vars
=============================================================================
