---------------------------- MODULE MCGraphTiers ----------------------------
(***************************************************************************)
(* GraphTiers on a few vertices, with the number of tiers the constructor  *)
(* computes for them.  Streams of any length: the states are finitely many *)
(* without a bound.                                                        *)
(***************************************************************************)
EXTENDS GraphTiers, Sketches, TLC

CONSTANT N      \* number of vertices

MCVertex == 1 .. N

\* Sketches that do not fail treat all edges alike, so any renaming of the
\* vertices maps behaviours to behaviours.
VertexSymmetry == Permutations(Vertex)

MCNumTiers == NumTiersFor(N)

\* Sketches that never fail: the seed does not matter.
PerfectSeeds == {0}
AnySample(s, t, cut) == PerfectSamples(cut)

\* Sketches with two depths: a seed says which edges of each sampled tier are
\* deep.  None deep is the smallest sketch: it finds an edge only in a cut
\* of one edge.
LossySeeds ==
  { <<{}, {}>>,
    <<{{1, 2}, {3, 4}}, {{1, 3}}>>,
    <<{{1, 2}, {1, 3}, {1, 4}}, {{2, 3}, {3, 4}, {1, 2}}>> }
LossySample(s, t, cut) ==
  BucketSamples([e \in Edge |-> IF e \in s[t + 1] THEN 1 ELSE 0], cut)

=============================================================================
