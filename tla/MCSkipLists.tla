---------------------------- MODULE MCSkipLists -----------------------------
(***************************************************************************)
(* SkipLists for TLC.  The vertices are interchangeable, but for the       *)
(* height of their elements, which Init gives them in every way.           *)
(***************************************************************************)
EXTENDS SkipLists, TLC

VertexSymmetry == Permutations(Vertex)

\* What waits in the buffers multiplies the states, and so do the nodes: there
\* are twelve elements and nodes of elements together, which is four elements
\* two nodes high, and seven while there is anything in a sketch or a buffer.
Empty == temp = {} /\ \A n \in Allocated : heap[n].agg \in {None, {}} /\ heap[n].buf = <<>>
Towers == {n \in Allocated : n[3] = "node"}

FewNodes == Cardinality(Live) + Cardinality(Towers) =< IF Empty THEN 12 ELSE 7

BoundedSpec == Init /\ [][Next /\ FewNodes']_vars
=============================================================================
