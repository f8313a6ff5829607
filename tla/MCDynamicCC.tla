---------------------------- MODULE MCDynamicCC ----------------------------
(***************************************************************************)
(* DynamicCC on a few vertices, tiers and buffered updates.  Streams of    *)
(* any length: the states are finitely many without a bound.               *)
(***************************************************************************)
EXTENDS DynamicCC, Sketches

CONSTANT N      \* number of vertices

MCVertex == 1 .. N

\* A triangle.
TrianglePairs == {<<1, 2>>, <<2, 3>>, <<3, 1>>}

\* A triangle and an edge to a fourth vertex, in one orientation each: the
\* smallest graph in which a sampled edge closes a cycle with another one.
PawPairs == {<<1, 2>>, <<2, 3>>, <<3, 4>>, <<4, 2>>}

\* A path of three vertices.
PathPairs == {<<1, 2>>, <<3, 2>>}

\* Sketches that never fail: the seed does not matter.
PerfectSeeds == {0}
AnySample(s, t, cut) == PerfectSamples(cut)

\* Sketches with two depths: a seed says which edges of each sampled tier are
\* deep.  Two edges that tie at the first tier make its sample fail.
TriangleSeeds == { <<{{1, 2}}, {}>> }
LossySample(s, t, cut) ==
  BucketSamples([e \in Edge |-> IF e \in s[t + 1] THEN 1 ELSE 0], cut)

=============================================================================
