---------------------------- MODULE MCEulerTours ----------------------------
(***************************************************************************)
(* EulerTours on a few vertices: every tour of every forest on them, with  *)
(* every choice of the nodes that hold the sketches.                       *)
(***************************************************************************)
EXTENDS EulerTours, TLC

VertexSymmetry == Permutations(Vertex)
=============================================================================
