----------------------------- MODULE GraphTiers -----------------------------
(***************************************************************************)
(* The shared-memory data structure, src/graph_tiers.cpp: one Euler tour   *)
(* tree forest per tier, with a sketch of the graph in each, and one link- *)
(* cut tree that holds the top tier's forest, every edge weighted with the *)
(* first tier the edge is in.                                              *)
(*                                                                         *)
(* update() is one action, up to and including the isolation check that    *)
(* refresh() begins with.  When the check finds an isolated tree, each     *)
(* round of refresh()'s loop, for a tier and an endpoint of the updated    *)
(* edge, is an action too.  The rounds run in the caller's thread, so no   *)
(* update or query comes between them; the parallel loops inside update()  *)
(* and inside a round touch disjoint tiers and are one step.               *)
(***************************************************************************)
EXTENDS DynamicTrees

CONSTANTS
  NumTiers,         \* number of Euler tour forests
  Seeds,            \* the random choices of the sketches
  Samples(_, _, _)  \* Samples(seed, tier, cut): the edges a tier's sketch may
                    \* return for a tree with this cut, none if it fails

ASSUME NumTiersAssumption == NumTiers \in Nat \ {0}

\* A sample that is GOOD is an edge of the cut: the sketch's checksums
\* guarantee it with high probability.
ASSUME SamplesAssumption ==
  \A s \in Seeds, t \in 0 .. NumTiers - 2, cut \in SUBSET Edge :
    Samples(s, t, cut) \subseteq cut

VARIABLES
  seed,     \* the seed the constructor drew
  graph,    \* the edges every tier's sketches hold: the stream so far
  ett,      \* ett[t]: the forest of tier t
  lct,      \* the link-cut tree: weight of each edge of the top forest
  ends,     \* <<src, dst>> of the update being refreshed, <<>> when idle
  tier,     \* the round of refresh()'s loop: its tier ...
  side,     \* ... and the index in ends of its endpoint
  answer    \* the answer to the last query, {} when an update followed it

vars == <<seed, graph, ett, lct, ends, tier, side, answer>>

Tier == 0 .. NumTiers - 1

\* Slip: one tier for every halving, log2(n).
Slip_NumTiersFor(n) == CHOOSE k \in 0 .. n : 2^k <= n /\ n < 2^(k+1)

\* 3^k.
PowerOfThree[k \in Nat] == IF k = 0 THEN 1 ELSE 3 * PowerOfThree[k - 1]

\* log2(n) / (log2(3) - 1), truncated: the largest k with (3/2)^k <= n.
NumTiersFor(n) ==
  CHOOSE k \in 0 .. n :
    PowerOfThree[k] <= n * 2^k /\ n * 2^(k+1) < PowerOfThree[k+1]

Idle == ends = <<>>

-----------------------------------------------------------------------------
\* What the sketch at the root of v's tree in tier t may return.
Sampled(G, F, t, v) == Samples(seed, t, Boundary(G, Component(F[t], v)))

\* Slip: the sizes are not compared.
Slip_Isolated(G, F, t, v) == Sampled(G, F, t, v) # {}

\* v's tree in tier t is no smaller in tier t + 1, though an edge leaves it.
Isolated(G, F, t, v) ==
  /\ TreeSize(F[t], v) = TreeSize(F[t + 1], v)
  /\ Sampled(G, F, t, v) # {}

-----------------------------------------------------------------------------
TypeOK ==
  /\ seed \in Seeds
  /\ graph \subseteq Edge
  /\ ett \in [Tier -> SUBSET Edge]
  /\ DOMAIN lct \subseteq Edge
  /\ lct \in [DOMAIN lct -> 1 .. NumTiers - 1]
  /\ Idle \/ ends \in Vertex \X Vertex
  /\ tier \in 0 .. NumTiers - 1
  /\ ~Idle => tier < NumTiers - 1
  /\ side \in {1, 2}
  /\ answer \in SUBSET (SUBSET Vertex)

Init ==
  /\ seed \in Seeds
  /\ graph = {}
  /\ ett = [t \in Tier |-> {}]
  /\ lct = [e \in {} |-> 0]
  /\ ends = <<>>
  /\ tier = 0
  /\ side = 1
  /\ answer = {}

\* Slip: only the first endpoint is checked.
Slip_StartRefresh(src, dst) ==
  /\ ends' = IF \E t \in 0 .. NumTiers - 2 : Isolated(graph', ett', t, src)
             THEN <<src, dst>>
             ELSE <<>>
  /\ tier' = 0
  /\ side' = 1

\* The isolation check of refresh(): start the loop if a tree of an endpoint
\* is isolated on some tier, else return.
StartRefresh(src, dst) ==
  /\ ends' = IF \E t \in 0 .. NumTiers - 2, v \in {src, dst} :
                   Isolated(graph', ett', t, v)
             THEN <<src, dst>>
             ELSE <<>>
  /\ tier' = 0
  /\ side' = 1

Insert(src, dst) ==
  /\ Idle
  /\ src # dst
  /\ {src, dst} \notin graph
  /\ graph' = Toggle(graph, {src, dst})
  /\ answer' = {}
  /\ UNCHANGED <<seed, ett, lct>>
  /\ StartRefresh(src, dst)

Delete(src, dst) ==
  /\ Idle
  /\ {src, dst} \in graph
  /\ src # dst
  /\ graph' = Toggle(graph, {src, dst})
  /\ lct' = LctCut(lct, {src, dst})
  /\ ett' = [t \in Tier |-> EttCut(ett[t], {src, dst})]
  /\ answer' = {}
  /\ UNCHANGED seed
  /\ StartRefresh(src, dst)

-----------------------------------------------------------------------------
(* refresh()'s loop over the tiers below the top and the two endpoints.    *)

\* Slip: only the first endpoint is refreshed.
Slip_NextRound ==
  /\ side' = 1
  /\ IF tier + 1 = NumTiers - 1
     THEN tier' = 0 /\ ends' = <<>>
     ELSE tier' = tier + 1 /\ UNCHANGED ends

NextRound ==
  IF side = 1
  THEN side' = 2 /\ UNCHANGED <<tier, ends>>
  ELSE /\ side' = 1
       /\ IF tier + 1 = NumTiers - 1
          THEN tier' = 0 /\ ends' = <<>>
          ELSE tier' = tier + 1 /\ UNCHANGED ends

\* The tree is not isolated: "continue".
Skip ==
  /\ ~Idle
  /\ ~Isolated(graph, ett, tier, ends[side])
  /\ NextRound
  /\ UNCHANGED <<seed, graph, ett, lct, answer>>

\* Slip: the tier of the evicted edge's weight is not cut.
Slip_EvictAndLink(e, c) ==
  /\ lct' = LctLink(LctCut(lct, c), e, tier + 1)
  /\ ett' = [t \in Tier |->
               LET F == IF t > lct[c] THEN EttCut(ett[t], c) ELSE ett[t]
               IN  IF t >= tier + 1 THEN EttLink(F, e) ELSE F]

\* Link e in the tiers above the round's, after cutting c, the heaviest edge
\* of the path between e's ends, in the tiers that have it.
EvictAndLink(e, c) ==
  /\ lct' = LctLink(LctCut(lct, c), e, tier + 1)
  /\ ett' = [t \in Tier |->
               LET F == IF t >= lct[c] THEN EttCut(ett[t], c) ELSE ett[t]
               IN  IF t >= tier + 1 THEN EttLink(F, e) ELSE F]

\* Slip: the edge is weighted with the tier it was sampled in.
Slip_OnlyLink(e) ==
  /\ lct' = LctLink(lct, e, tier)
  /\ ett' = [t \in Tier |->
               IF t >= tier + 1 THEN EttLink(ett[t], e) ELSE ett[t]]

OnlyLink(e) ==
  /\ lct' = LctLink(lct, e, tier + 1)
  /\ ett' = [t \in Tier |->
               IF t >= tier + 1 THEN EttLink(ett[t], e) ELSE ett[t]]

Grow(e) ==
  /\ ~Idle
  /\ Isolated(graph, ett, tier, ends[side])
  /\ e \in Sampled(graph, ett, tier, ends[side])
  /\ IF Joins(DOMAIN lct, e)
     THEN \E c \in Heaviest(lct, e) : EvictAndLink(e, c)
     ELSE OnlyLink(e)
  /\ NextRound
  /\ UNCHANGED <<seed, graph, answer>>

-----------------------------------------------------------------------------
\* is_connected asks the link-cut tree, get_cc the top tier's forest.
IsConnected(a, b) ==
  /\ Idle
  /\ answer' = Blocks(DOMAIN lct, {a, b})
  /\ UNCHANGED <<seed, graph, ett, lct, ends, tier, side>>

GetCC ==
  /\ Idle
  /\ answer' = Blocks(ett[NumTiers - 1], Vertex)
  /\ UNCHANGED <<seed, graph, ett, lct, ends, tier, side>>

Next ==
  \/ \E src, dst \in Vertex : Insert(src, dst) \/ Delete(src, dst)
  \/ Skip
  \/ \E e \in graph : Grow(e)
  \/ \E a, b \in Vertex : a # b /\ IsConnected(a, b)
  \/ GetCC

Spec == Init /\ [][Next]_vars

-----------------------------------------------------------------------------
(* Properties.                                                             *)

\* The forests never drift apart: the weight the link-cut tree has for an edge
\* is exactly the first tier whose Euler tour forest has the edge, and every
\* later tier has it too, through any series of cuts, evictions (a cut from
\* weight max.second up) and links (from tier + 1 up) and although link()
\* silently refuses to link one tree to itself.
TiersAgree == \A t \in Tier : ett[t] = {e \in DOMAIN lct : lct[e] <= t}

\* Whatever is evicted and linked, the top forest stays a forest of edges that
\* are in the graph now: no stale edge outlives its deletion, no cycle closes.
SpanningForest ==
  /\ DOMAIN lct \subseteq graph
  /\ Acyclic(DOMAIN lct)

\* The invariant the whole structure rests on: when update() has returned, no
\* tree on any tier is isolated, neither those of the updated edge's endpoints
\* that refresh() visits nor the others that its evictions and links touch.
NoIsolation ==
  Idle => \A t \in 0 .. NumTiers - 2, v \in Vertex : ~Isolated(graph, ett, t, v)

\* Why it holds: while refresh() runs, an isolated tree has an endpoint of the
\* updated edge in it, and the round of that tier and endpoint is still ahead.
IsolationIsAhead ==
  \A t \in 0 .. NumTiers - 2, v \in Vertex :
    Isolated(graph, ett, t, v) =>
      \E i \in {1, 2} :
        /\ ~Idle
        /\ ends[i] \in Component(ett[t], v)
        /\ t > tier \/ (t = tier /\ i >= side)

\* A round of refresh() disconnects nothing: on every tier the edge it evicts
\* is replaced by the edge it links, also on the tiers between them.
RepairNeverDisconnects ==
  [][~Idle => \A t \in Tier, v \in Vertex :
                Component(ett[t], v) \subseteq Component(ett'[t], v)]_vars

\* A round evicts no edge of its own tier or of the tier it links in: those
\* tiers only grow, so the trees that earlier rounds repaired stay repaired.
EvictedFromAbove ==
  [][~Idle => \A e \in DOMAIN lct \ DOMAIN lct' : lct[e] > tier + 1]_vars

\* Also when sketches fail, is_connected and get_cc never report a connection
\* the graph does not have.
SoundAnswers ==
  \A B \in answer : \A u, v \in B : Connected(graph, u, v)

\* is_connected and get_cc answer for the graph of the stream so far.
AnswersExact == answer # {} => answer = Blocks(graph, UNION answer)

Promise == INSTANCE Connectivity

\* With sketches that do not fail the structure implements its promise: every
\* answer of is_connected and get_cc is the graph's, whatever the stream was
\* and whichever edges the sketches sampled and the evictions chose.
KeepsPromise == Promise!Spec
=============================================================================
