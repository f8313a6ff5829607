------------------------------ MODULE Sketches ------------------------------
(***************************************************************************)
(* The sketches of a cut, as the tiers use them.  Sketch is CameoSketch of *)
(* the GraphZeppelin library: not part of the repository, and modelled     *)
(* from how euler_tour_tree.cpp and graph_tiers.cpp use it.  The aggregate *)
(* of a tree's vertex sketches is the sketch of the edges with one end in  *)
(* the tree, since an edge with both is added twice.  One bucket of it     *)
(* holds all of those edges, the others hold the edges of one depth each;  *)
(* sample() is GOOD when some bucket holds exactly one edge, and the edge  *)
(* is then the sample.  Depths are hashes, fixed by the tier's seed.       *)
(***************************************************************************)

\* The edges sample() may return of a sketch that hashes edge e to depth[e];
\* which bucket it looks at first is left open.
BucketSamples(depth, cut) ==
  {e \in cut : cut = {e} \/ {f \in cut : depth[f] = depth[e]} = {e}}

\* A sketch with so many buckets that it never fails.
PerfectSamples(cut) == cut
=============================================================================
