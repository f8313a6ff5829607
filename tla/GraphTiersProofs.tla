-------------------------- MODULE GraphTiersProofs --------------------------
(***************************************************************************)
(* Theorems about the shared-memory data structure, for every set of       *)
(* vertices, every number of tiers and every sketch that samples edges of  *)
(* the cut it is asked about, failing or not.                              *)
(***************************************************************************)
EXTENDS GraphTiers, ForestLemmas, FiniteSetTheorems

USE DEF Tier, Idle

-----------------------------------------------------------------------------
(* The two trees' operations, as edge sets and weights.                    *)

\* What LctCut leaves of the link-cut tree keeps its weights.
LEMMA LctCutValue ==
  ASSUME NEW l, NEW e
  PROVE  /\ DOMAIN LctCut(l, e) = DOMAIN l \ {e}
         /\ \A f \in DOMAIN l \ {e} : LctCut(l, e)[f] = l[f]
BY DEF LctCut

\* A sketch samples an edge of the graph that leaves the tree.
LEMMA SampledLeaves ==
  ASSUME TypeOK, NEW t \in 0 .. NumTiers - 2, NEW v,
         NEW e \in Sampled(graph, ett, t, v)
  PROVE  e \in Boundary(graph, Component(ett[t], v))
<1>1. Boundary(graph, Component(ett[t], v)) \in SUBSET Edge
  BY DEF TypeOK, Boundary
<1> QED
  BY <1>1, SamplesAssumption DEF TypeOK, Sampled

-----------------------------------------------------------------------------
\* The inductive invariant: types, agreement of the forests, and that they are
\* forests of the graph.  The agreement needs the top forest to be acyclic,
\* for a link that EulerTourTree::link refused on some tier would break it.
IInv == TypeOK /\ TiersAgree /\ SpanningForest

\* What a round that finds an edge does, with and without an eviction: the top
\* forest keeps the edges B, that do not join the ends of e, and gains e; and
\* so does every tier's forest, as far as the weights say.
LEMMA GrowKeeps ==
  ASSUME IInv, NEW e \in graph, Grow(e)
  PROVE  \E B \in SUBSET DOMAIN lct :
           /\ ~Joins(B, e)
           /\ \/ B = DOMAIN lct
              \/ /\ Joins(DOMAIN lct, e)
                 /\ \E c \in Heaviest(lct, e) : B = DOMAIN lct \ {c}
           /\ DOMAIN lct' = B \cup {e}
           /\ lct'[e] = tier + 1
           /\ \A f \in B : f # e /\ lct'[f] = lct[f]
           /\ ett' \in [Tier -> SUBSET Edge]
           /\ \A t \in Tier :
                ett'[t] = {f \in B : lct[f] <= t}
                            \cup (IF t >= tier + 1 THEN {e} ELSE {})
<1> DEFINE L == DOMAIN lct
           Below(B, t) == {f \in B : lct[f] <= t}
<1>1. /\ L \in SUBSET Edge
      /\ \A f \in L : lct[f] \in 1 .. NumTiers - 1
      /\ e \in Edge
      /\ tier \in Int
      /\ \A t \in Tier : t \in Int /\ ett[t] = Below(L, t)
  BY NumTiersAssumption DEF IInv, TypeOK, TiersAgree
<1>2. ASSUME NEW B \in SUBSET L, ~Joins(B, e)
      PROVE  /\ e \notin B
             /\ \A t : EttLink(Below(B, t), e) = Below(B, t) \cup {e}
             /\ \A t : Below(B, t) \in SUBSET Edge
  <2>1. \A t : Below(B, t) \in SUBSET B /\ B \in SUBSET Edge
    BY <1>1
  <2> HIDE DEF Below
  <2> QED
    BY <2>1, <1>2, JoinsMonotone, JoinsOwn DEF EttLink
<1>3. CASE Joins(L, e)
  <2>1. PICK c \in Heaviest(lct, e) : EvictAndLink(e, c)
    BY <1>3 DEF Grow
  <2> DEFINE B == L \ {c}
  <2>2. c \in L /\ ~Joins(B, e) /\ B \in SUBSET L
    BY DEF Heaviest, PathEdges
  <2>3. \A f \in B : f # e
    BY <2>2, <1>2
  <2>4. /\ DOMAIN lct' = B \cup {e}
        /\ lct'[e] = tier + 1
        /\ \A f \in B : lct'[f] = lct[f]
    <3> DEFINE l == LctCut(lct, c)
    <3>1. lct' = LctLink(l, e, tier + 1)
      BY <2>1 DEF EvictAndLink
    <3>2. DOMAIN l = B /\ \A f \in B : l[f] = lct[f]
      BY LctCutValue
    <3> HIDE DEF l
    <3> QED
      BY <3>1, <3>2, <2>3 DEF LctLink
  <2>5. ASSUME NEW t \in Tier
        PROVE  /\ ett'[t] = Below(B, t)
                              \cup (IF t >= tier + 1 THEN {e} ELSE {})
               /\ ett'[t] \in SUBSET Edge
    <3> DEFINE F == IF t >= lct[c] THEN EttCut(ett[t], c) ELSE ett[t]
    <3>1. F = Below(B, t)
      BY <1>1, <2>2 DEF EttCut
    <3>2. ett'[t] = IF t >= tier + 1 THEN EttLink(F, e) ELSE F
      BY <2>1 DEF EvictAndLink
    <3> HIDE DEF F, Below
    <3>3. ett'[t] = Below(B, t) \cup (IF t >= tier + 1 THEN {e} ELSE {})
      BY <3>1, <3>2, <1>2, <2>2
    <3> QED
      BY <3>3, <1>1, <1>2, <2>2
  <2>6. ett' = [t \in Tier |-> ett'[t]]
    BY <2>1 DEF EvictAndLink
  <2> QED
    BY <1>3, <2>1, <2>2, <2>3, <2>4, <2>5, <2>6
<1>4. CASE ~Joins(L, e)
  <2>1. OnlyLink(e)
    BY <1>4 DEF Grow
  <2>2. e \notin L
    BY <1>2, <1>4
  <2>3. /\ DOMAIN lct' = L \cup {e}
        /\ lct'[e] = tier + 1
        /\ \A f \in L : lct'[f] = lct[f]
    <3>1. lct' = LctLink(lct, e, tier + 1)
      BY <2>1 DEF OnlyLink
    <3> QED
      BY <3>1, <2>2 DEF LctLink
  <2>4. ASSUME NEW t \in Tier
        PROVE  /\ ett'[t] = Below(L, t)
                              \cup (IF t >= tier + 1 THEN {e} ELSE {})
               /\ ett'[t] \in SUBSET Edge
    <3>1. ett'[t] = IF t >= tier + 1 THEN EttLink(ett[t], e) ELSE ett[t]
      BY <2>1 DEF OnlyLink
    <3> HIDE DEF Below
    <3>2. ett'[t] = Below(L, t) \cup (IF t >= tier + 1 THEN {e} ELSE {})
      BY <3>1, <1>1, <1>2, <1>4
    <3> QED
      BY <3>2, <1>1, <1>2, <1>4
  <2>5. ett' = [t \in Tier |-> ett'[t]]
    BY <2>1 DEF OnlyLink
  <2> QED
    BY <1>4, <2>2, <2>3, <2>4, <2>5
<1> QED
  BY <1>3, <1>4

\* The next round, if there is one, is one of a tier below the top.
LEMMA NextRoundType ==
  ASSUME TypeOK, ~Idle, NextRound
  PROVE  /\ Idle' \/ ends' \in Vertex \X Vertex
         /\ tier' \in 0 .. NumTiers - 1
         /\ ~Idle' => tier' < NumTiers - 1
         /\ side' \in {1, 2}
BY NumTiersAssumption DEF TypeOK, NextRound

\* refresh() starts with a round of a tier below the top, or not at all.
LEMMA StartRefreshType ==
  ASSUME NEW src \in Vertex, NEW dst \in Vertex, StartRefresh(src, dst)
  PROVE  /\ Idle' \/ ends' \in Vertex \X Vertex
         /\ tier' \in 0 .. NumTiers - 1
         /\ ~Idle' => tier' < NumTiers - 1
         /\ side' \in {1, 2}
BY NumTiersAssumption DEF StartRefresh

\* A round that finds an edge keeps the invariant.
LEMMA GrowInvariant ==
  ASSUME IInv, NEW e \in graph, Grow(e)
  PROVE  IInv'
<1>1. PICK B \in SUBSET DOMAIN lct :
        /\ ~Joins(B, e)
        /\ DOMAIN lct' = B \cup {e}
        /\ lct'[e] = tier + 1
        /\ \A f \in B : f # e /\ lct'[f] = lct[f]
        /\ ett' \in [Tier -> SUBSET Edge]
        /\ \A t \in Tier :
             ett'[t] = {f \in B : lct[f] <= t}
                         \cup (IF t >= tier + 1 THEN {e} ELSE {})
  BY GrowKeeps
<1>2. /\ e \in Edge
      /\ B \in SUBSET Edge
      /\ B \subseteq graph
      /\ \A f \in B : lct[f] \in 1 .. NumTiers - 1
      /\ tier + 1 \in 1 .. NumTiers - 1
      /\ lct' = [f \in DOMAIN lct' |-> lct'[f]]
  <2>1. lct' = [f \in DOMAIN lct' |-> lct'[f]]
    BY DEF Grow, EvictAndLink, OnlyLink, LctLink
  <2> QED
    BY <2>1, NumTiersAssumption DEF IInv, TypeOK, SpanningForest, Grow
<1>3. TypeOK'
  <2>1. /\ Idle' \/ ends' \in Vertex \X Vertex
        /\ tier' \in 0 .. NumTiers - 1
        /\ ~Idle' => tier' < NumTiers - 1
        /\ side' \in {1, 2}
    BY NextRoundType DEF Grow, IInv
  <2>2. DOMAIN lct' \subseteq Edge /\ lct' \in [DOMAIN lct' -> 1 .. NumTiers - 1]
    BY <1>1, <1>2
  <2> QED
    BY <2>1, <2>2, <1>1 DEF IInv, TypeOK, Grow
<1>4. TiersAgree'
  BY <1>1, <1>2, NumTiersAssumption DEF TiersAgree
<1>5. SpanningForest'
  <2>1. Acyclic(B)
    BY AcyclicSubset DEF IInv, SpanningForest
  <2>2. Acyclic(B \cup {e})
    BY <2>1, <1>1, <1>2, AcyclicLink
  <2> QED
    BY <2>2, <1>1, <1>2 DEF SpanningForest, Grow
<1> QED
  BY <1>3, <1>4, <1>5 DEF IInv

\* An insertion changes no forest.
LEMMA InsertInvariant ==
  ASSUME IInv, NEW src \in Vertex, NEW dst \in Vertex, Insert(src, dst)
  PROVE  IInv'
<1>1. {src, dst} \in Edge
  BY DEF Insert, Edge
<1>2. /\ graph' = graph \cup {{src, dst}}
      /\ UNCHANGED <<seed, ett, lct>>
      /\ answer' = {}
  BY DEF Insert, Toggle
<1>3. TypeOK'
  BY <1>1, <1>2, StartRefreshType DEF IInv, TypeOK, Insert
<1>4. TiersAgree'
  BY <1>2 DEF IInv, TiersAgree
<1>5. SpanningForest'
  BY <1>2 DEF IInv, SpanningForest
<1> QED
  BY <1>3, <1>4, <1>5 DEF IInv

\* A deletion takes its edge out of every forest.
LEMMA DeleteInvariant ==
  ASSUME IInv, NEW src \in Vertex, NEW dst \in Vertex, Delete(src, dst)
  PROVE  IInv'
<1> DEFINE x == {src, dst}
<1>1. /\ graph' = graph \ {x}
      /\ lct' = LctCut(lct, x)
      /\ ett' = [t \in Tier |-> ett[t] \ {x}]
      /\ UNCHANGED seed
      /\ answer' = {}
  BY DEF Delete, Toggle, EttCut
<1>2. /\ DOMAIN lct' = DOMAIN lct \ {x}
      /\ \A f \in DOMAIN lct' : lct'[f] = lct[f]
      /\ lct' = [f \in DOMAIN lct' |-> lct'[f]]
  BY <1>1, LctCutValue DEF LctCut
<1> HIDE DEF x
<1>3. TypeOK'
  <2>1. /\ graph' \subseteq Edge
        /\ ett' \in [Tier -> SUBSET Edge]
        /\ DOMAIN lct' \subseteq Edge
        /\ lct' \in [DOMAIN lct' -> 1 .. NumTiers - 1]
    BY <1>1, <1>2 DEF IInv, TypeOK
  <2> QED
    BY <2>1, <1>1, StartRefreshType DEF IInv, TypeOK, Delete
<1>4. TiersAgree'
  BY <1>1, <1>2 DEF IInv, TiersAgree
<1>5. SpanningForest'
  BY <1>1, <1>2, AcyclicSubset DEF IInv, SpanningForest
<1> QED
  BY <1>3, <1>4, <1>5 DEF IInv

\* The empty forests of the constructor satisfy the invariant.
LEMMA IInvInit == Init => IInv
<1> SUFFICES ASSUME Init PROVE IInv
  OBVIOUS
<1>1. TypeOK
  BY NumTiersAssumption DEF Init, TypeOK
<1>2. TiersAgree
  BY DEF Init, TiersAgree
<1>3. SpanningForest
  BY DEF Init, SpanningForest, Acyclic
<1> QED
  BY <1>1, <1>2, <1>3 DEF IInv

\* Every update, round and query keeps the invariant.
LEMMA IInvNext == IInv /\ [Next]_vars => IInv'
<1> SUFFICES ASSUME IInv, [Next]_vars PROVE IInv'
  OBVIOUS
<1>1. ASSUME NEW src \in Vertex, NEW dst \in Vertex, Insert(src, dst)
      PROVE  IInv'
  BY <1>1, InsertInvariant
<1>2. ASSUME NEW src \in Vertex, NEW dst \in Vertex, Delete(src, dst)
      PROVE  IInv'
  BY <1>2, DeleteInvariant
<1>3. CASE Skip
  <2>1. TypeOK'
    BY <1>3, NextRoundType DEF Skip, IInv, TypeOK
  <2>2. UNCHANGED <<graph, ett, lct>>
    BY <1>3 DEF Skip
  <2> QED
    BY <2>1, <2>2 DEF IInv, TiersAgree, SpanningForest
<1>4. ASSUME NEW e \in graph, Grow(e)
      PROVE  IInv'
  BY <1>4, GrowInvariant
<1>5. ASSUME NEW a \in Vertex, NEW b \in Vertex, IsConnected(a, b)
      PROVE  IInv'
  <2>1. answer' \in SUBSET (SUBSET Vertex)
    BY <1>5 DEF IsConnected, Blocks
  <2> QED
    BY <2>1, <1>5 DEF IsConnected, IInv, TypeOK, TiersAgree, SpanningForest
<1>6. CASE GetCC
  <2>1. answer' \in SUBSET (SUBSET Vertex)
    BY <1>6 DEF GetCC, Blocks
  <2> QED
    BY <2>1, <1>6 DEF GetCC, IInv, TypeOK, TiersAgree, SpanningForest
<1>7. CASE UNCHANGED vars
  BY <1>7 DEF vars, IInv, TypeOK, TiersAgree, SpanningForest
<1> QED
  BY <1>1, <1>2, <1>3, <1>4, <1>5, <1>6, <1>7 DEF Next

\* The invariant that the theorems below rest on.
LEMMA Invariant == Spec => []IInv
BY IInvInit, IInvNext, PTL DEF Spec

\* The state of the structure has the types its parts assume of each other: in
\* particular every weight is a tier above the bottom, and refresh() stays
\* below the top.
THEOREM TypeCorrect == Spec => []TypeOK
BY Invariant, PTL DEF IInv

\* The Euler tour forests of all tiers and the link-cut tree never drift apart.
THEOREM TiersAgreeAlways == Spec => []TiersAgree
BY Invariant, PTL DEF IInv

\* The top forest is a forest of the graph of the stream so far.
THEOREM SpanningForestAlways == Spec => []SpanningForest
BY Invariant, PTL DEF IInv

-----------------------------------------------------------------------------
(* Answers.                                                                *)

\* A forest made of edges of a graph connects only what the graph connects.
LEMMA BlocksSound ==
  ASSUME NEW G \in SUBSET Edge, NEW F \in SUBSET G, NEW Q \in SUBSET Vertex,
         NEW B \in Blocks(F, Q), NEW u \in B, NEW v \in B
  PROVE  Connected(G, u, v)
<1>1. PICK w \in Q : B = Component(F, w) \cap Q
  BY DEF Blocks
<1>2. F \in SUBSET Edge
  OBVIOUS
<1>3. Component(F, u) = Component(F, w)
  BY <1>1, <1>2, ComponentEqual
<1>4. v \in Component(F, u)
  BY <1>1, <1>3
<1> QED
  BY <1>4, ComponentMonotone DEF Connected

\* A query's answer is sound, and an update forgets it.
LEMMA SoundStep == IInv /\ SoundAnswers /\ [Next]_vars => SoundAnswers'
<1> SUFFICES ASSUME IInv, SoundAnswers, [Next]_vars PROVE SoundAnswers'
  OBVIOUS
<1>1. ASSUME NEW src \in Vertex, NEW dst \in Vertex,
             Insert(src, dst) \/ Delete(src, dst)
      PROVE  SoundAnswers'
  BY <1>1 DEF Insert, Delete, SoundAnswers
<1>2. CASE Skip \/ (\E e \in graph : Grow(e)) \/ UNCHANGED vars
  BY <1>2 DEF Skip, Grow, vars, SoundAnswers
<1>3. ASSUME NEW a \in Vertex, NEW b \in Vertex, IsConnected(a, b)
      PROVE  SoundAnswers'
  <2>1. /\ graph \in SUBSET Edge
        /\ DOMAIN lct \in SUBSET graph
        /\ {a, b} \in SUBSET Vertex
    BY DEF IInv, TypeOK, SpanningForest
  <2>2. graph' = graph /\ answer' = Blocks(DOMAIN lct, {a, b})
    BY <1>3 DEF IsConnected
  <2> QED
    BY <2>1, <2>2, BlocksSound DEF SoundAnswers
<1>4. CASE GetCC
  <2>1. /\ graph \in SUBSET Edge
        /\ ett[NumTiers - 1] \in SUBSET graph
        /\ Vertex \in SUBSET Vertex
    BY NumTiersAssumption DEF IInv, TypeOK, TiersAgree, SpanningForest
  <2>2. graph' = graph /\ answer' = Blocks(ett[NumTiers - 1], Vertex)
    BY <1>4 DEF GetCC
  <2> QED
    BY <2>1, <2>2, BlocksSound DEF SoundAnswers
<1> QED
  BY <1>1, <1>2, <1>3, <1>4 DEF Next

\* Also when sketches fail, no query reports a connection the graph of the
\* stream does not have.
THEOREM SoundAnswersAlways == Spec => []SoundAnswers
<1>1. Init => SoundAnswers
  BY DEF Init, SoundAnswers
<1> QED
  BY <1>1, Invariant, SoundStep, PTL DEF Spec

-----------------------------------------------------------------------------
(* What a round that finds an edge does to the trees.                      *)

\* Of two nested forests' trees, equal sizes mean equal trees: this is what
\* the comparison of sizes in the isolation check is for.
LEMMA SameSize ==
  ASSUME NEW G, NEW F \in SUBSET G, NEW v
  PROVE  TreeSize(F, v) = TreeSize(G, v) <=> Component(F, v) = Component(G, v)
<1>1. IsFiniteSet(Component(G, v))
  BY ComponentInVertex, VertexAssumption, FS_Subset
<1> QED
  BY <1>1, ComponentMonotone, FS_Subset DEF TreeSize

\* Each tier's forest is part of the next one's.
LEMMA TiersNest ==
  ASSUME IInv
  PROVE  /\ \A t \in Tier : ett[t] \in SUBSET Edge
         /\ \A s, t \in Tier : s <= t => ett[s] \subseteq ett[t]
         /\ \A t \in 0 .. NumTiers - 2 :
              /\ t \in Tier /\ t + 1 \in Tier
              /\ ett[t] \subseteq ett[t + 1]
<1>1. \A t \in 0 .. NumTiers - 2 : t \in Tier /\ t + 1 \in Tier /\ t <= t + 1
  BY NumTiersAssumption
<1>2. \A s, t \in Tier : s <= t => ett[s] \subseteq ett[t]
  BY NumTiersAssumption DEF IInv, TypeOK, TiersAgree
<1> QED
  BY <1>1, <1>2 DEF IInv, TypeOK

\* The edge that the round samples leaves its endpoint's tree, in the round's
\* tier and in the next, which has the same tree.
LEMMA GrowLeaves ==
  ASSUME IInv, NEW e \in graph, Grow(e)
  PROVE  /\ tier \in 0 .. NumTiers - 2
         /\ ends[side] \in Vertex
         /\ e \in Edge
         /\ \E a \in e : a \in Component(ett[tier], ends[side])
         /\ ~(e \subseteq Component(ett[tier], ends[side]))
         /\ ~Joins(ett[tier + 1], e)
<1> DEFINE w == ends[side]
           C == Component(ett[tier], w)
<1>1. tier \in 0 .. NumTiers - 2 /\ w \in Vertex /\ e \in Edge
  BY NumTiersAssumption DEF IInv, TypeOK, Grow
<1>2. e \in Boundary(graph, C)
  BY <1>1, SampledLeaves DEF Grow, IInv
<1>3. C = Component(ett[tier + 1], w)
  BY <1>1, TiersNest, SameSize DEF Grow, Isolated
<1>4. Closed(C, ett[tier + 1]) /\ C \in SUBSET Vertex
  BY <1>1, <1>3, TiersNest, ComponentClosed, ComponentInVertex
<1>5. PICK a \in e, b \in e : a \in C /\ b \notin C
  BY <1>2 DEF Boundary
<1>6. e = {a, b} /\ a \in Vertex /\ b \in Vertex
  BY <1>1, <1>5, EdgeEnds, EdgeInVertex
<1>7. ~Joins(ett[tier + 1], e)
  BY <1>4, <1>5, <1>6, NoSeparation
<1> QED
  BY <1>1, <1>5, <1>7

\* The evicted edge is in none of the tiers up to the one the new edge is
\* linked in: their forests do not connect the ends of the new edge, while the
\* path would if all of it were there.
LEMMA EvictionAbove ==
  ASSUME IInv, NEW e \in graph, Grow(e), Joins(DOMAIN lct, e),
         NEW c \in Heaviest(lct, e)
  PROVE  /\ lct[c] > tier + 1
         /\ \A t \in Tier : lct[c] <= t => Joins(ett[t], e)
<1> DEFINE L == DOMAIN lct
<1>1. /\ L \in SUBSET Edge
      /\ Acyclic(L)
      /\ tier + 1 \in Tier
      /\ \A f \in L : lct[f] \in Int
      /\ \A t \in Tier : t \in Int /\ ett[t] = {f \in L : lct[f] <= t}
  BY GrowLeaves, TiersNest, NumTiersAssumption
     DEF IInv, TypeOK, TiersAgree, SpanningForest
<1>2. Joins(PathEdges(L, e), e)
  BY <1>1, GrowLeaves, PathJoins
<1>3. /\ c \in L
      /\ \A d \in PathEdges(L, e) : d \in L /\ lct[d] <= lct[c]
  BY PathInForest DEF Heaviest
<1>4. ASSUME NEW t \in Tier, lct[c] <= t
      PROVE  Joins(ett[t], e)
  <2>1. PathEdges(L, e) \in SUBSET ett[t]
    BY <1>1, <1>3, <1>4
  <2> QED
    BY <2>1, <1>2, JoinsMonotone
<1>5. lct[c] > tier + 1
  BY <1>1, <1>3, <1>4, GrowLeaves
<1> QED
  BY <1>4, <1>5

\* Nothing is disconnected on any tier, only the tiers above the round's
\* change, and only trees that then have the round's endpoint in them.
LEMMA GrowTrees ==
  ASSUME IInv, NEW e \in graph, Grow(e)
  PROVE  /\ \A t \in Tier : t <= tier => ett'[t] = ett[t]
         /\ ett'[tier + 1] = ett[tier + 1] \cup {e}
         /\ \A t \in Tier, v \in Vertex :
              /\ Component(ett[t], v) \subseteq Component(ett'[t], v)
              /\ \/ Component(ett[t], v) = Component(ett'[t], v)
                 \/ t > tier /\ ends[side] \in Component(ett'[t], v)
<1> DEFINE L == DOMAIN lct
           w == ends[side]
<1>1. PICK B \in SUBSET L :
        /\ ~Joins(B, e)
        /\ \/ B = L
           \/ Joins(L, e) /\ \E c \in Heaviest(lct, e) : B = L \ {c}
        /\ \A t \in Tier :
             ett'[t] = {f \in B : lct[f] <= t}
                         \cup (IF t >= tier + 1 THEN {e} ELSE {})
  BY GrowKeeps
<1>2. /\ tier \in 0 .. NumTiers - 2
      /\ w \in Vertex
      /\ e \in Edge
      /\ L \in SUBSET Edge
      /\ \A f \in L : lct[f] \in Int
      /\ \A t \in Tier : t \in Int /\ ett[t] = {f \in L : lct[f] <= t}
      /\ \A t \in Tier : ett[t] \in SUBSET Edge
  BY GrowLeaves, TiersNest, NumTiersAssumption DEF IInv, TypeOK, TiersAgree
<1>3. \A f \in L \ B : lct[f] > tier + 1
  BY <1>1, EvictionAbove
<1>4. ASSUME NEW t \in Tier, t <= tier + 1
      PROVE  {f \in B : lct[f] <= t} = ett[t]
  BY <1>2, <1>3, <1>4
<1>5. ASSUME NEW t \in Tier, t <= tier
      PROVE  ett'[t] = ett[t]
  <2>1. t <= tier + 1 /\ ~(t >= tier + 1)
    BY <1>2, <1>5
  <2>2. {f \in B : lct[f] <= t} = ett[t]
    BY <2>1, <1>4
  <2> QED
    BY <2>1, <2>2, <1>1
<1>6. ett'[tier + 1] = ett[tier + 1] \cup {e}
  <2>1. tier + 1 \in Tier /\ tier + 1 <= tier + 1 /\ tier + 1 >= tier + 1
    BY <1>2, NumTiersAssumption
  <2>2. {f \in B : lct[f] <= tier + 1} = ett[tier + 1]
    BY <2>1, <1>4
  <2> QED
    BY <2>1, <2>2, <1>1
<1>7. ASSUME NEW t \in Tier, NEW v \in Vertex, t > tier
      PROVE  /\ Component(ett[t], v) \subseteq Component(ett'[t], v)
             /\ \/ Component(ett[t], v) = Component(ett'[t], v)
                \/ w \in Component(ett'[t], v)
  <2> DEFINE F == {f \in B : lct[f] <= t}
  <2>1. ett'[t] = F \cup {e} /\ F \in SUBSET ett[t] /\ ett'[t] \in SUBSET Edge
    BY <1>1, <1>2, <1>7
  <2>2. ASSUME NEW x \in Vertex
        PROVE  Component(ett[t], x) \subseteq Component(ett'[t], x)
    <3>1. CASE F = ett[t]
      BY <3>1, <2>1, ComponentMonotone
    <3>2. CASE F # ett[t]
      <4>1. PICK c \in Heaviest(lct, e) : B = L \ {c} /\ Joins(L, e)
        BY <3>2, <1>1, <1>2
      <4>2. c \in ett[t] /\ lct[c] <= t /\ F = ett[t] \ {c}
        BY <4>1, <3>2, <1>2
      <4>3. Joins(ett[t], e)
        BY <4>1, <4>2, EvictionAbove
      <4>4. F \in SUBSET B
        OBVIOUS
      <4>5. c \in PathEdges(ett[t], e)
        BY <4>2, <4>4, <1>1, JoinsMonotone DEF PathEdges
      <4> HIDE DEF F
      <4> QED
        BY <4>2, <4>3, <4>5, <2>1, <1>2, ExchangeConnects
    <3> QED
      BY <3>1, <3>2
  <2> HIDE DEF F
  <2>3. ASSUME w \notin Component(ett'[t], v)
        PROVE  Component(ett'[t], v) \subseteq Component(ett[t], v)
    <3> DEFINE D == Component(ett'[t], v)
    <3>1. D \in SUBSET Vertex /\ Closed(D, ett'[t]) /\ v \in D
      BY <2>1, ComponentInVertex, ComponentClosed, ComponentSelf
    <3>2. PICK a \in e : a \in Component(ett[tier], w)
      BY GrowLeaves
    <3>3. a \in Component(ett'[t], w)
      <4>1. ett[tier] \in SUBSET ett[t]
        BY <1>2, <1>7, TiersNest, NumTiersAssumption
      <4> QED
        BY <4>1, <3>2, <2>2, <1>2, ComponentMonotone
    <3>4. a \notin D
      <4>1. a \in D => Component(ett'[t], a) = D
        BY <2>1, ComponentEqual
      <4>2. Component(ett'[t], a) = Component(ett'[t], w)
        BY <2>1, <3>3, <1>2, ComponentEqual
      <4> QED
        BY <4>1, <4>2, <2>3, <1>2, ComponentSelf
    <3>5. e \cap D = {}
      BY <3>1, <3>2, <3>4, <2>1 DEF Closed
    <3>6. ASSUME NEW S \in SUBSET Vertex, v \in S, Closed(S, ett[t])
          PROVE  D \subseteq S
      <4>1. Closed(S \cap D, ett'[t])
        <5> HIDE DEF D
        <5> QED
          BY <3>1, <3>5, <3>6, <2>1 DEF Closed
      <4> QED
        BY <4>1, <3>1, <3>6, ComponentLeast
    <3> QED
      BY <3>1, <3>6, ComponentMember
  <2> QED
    BY <2>2, <2>3
<1> QED
  BY <1>2, <1>5, <1>6, <1>7

-----------------------------------------------------------------------------
(* What no round ever does.                                                *)

\* While refresh() runs, the forests change in no step but a round's.
LEMMA RoundOnly ==
  ASSUME IInv, ~Idle, [Next]_vars
  PROVE  UNCHANGED <<ett, lct>> \/ \E e \in graph : Grow(e)
BY DEF Next, Insert, Delete, Skip, IsConnected, GetCC, vars

\* The step of RepairTheorem.
LEMMA RepairStep ==
  ASSUME IInv, [Next]_vars, ~Idle, NEW t \in Tier, NEW v \in Vertex
  PROVE  Component(ett[t], v) \subseteq Component(ett'[t], v)
<1>1. CASE UNCHANGED <<ett, lct>>
  BY <1>1
<1>2. ASSUME NEW e \in graph, Grow(e)
      PROVE  Component(ett[t], v) \subseteq Component(ett'[t], v)
  BY <1>2, GrowTrees
<1> QED
  BY <1>1, <1>2, RoundOnly

\* A round of refresh() disconnects nothing on any tier, those between the
\* evicted edge's weight and the round's tier included.
THEOREM RepairTheorem == Spec => RepairNeverDisconnects
<1>1. IInv /\ [Next]_vars =>
        [~Idle => \A t \in Tier, v \in Vertex :
                    Component(ett[t], v) \subseteq Component(ett'[t], v)]_vars
  BY RepairStep
<1> QED
  BY <1>1, Invariant, PTL DEF Spec, RepairNeverDisconnects

\* The step of EvictedTheorem.
LEMMA EvictedStep ==
  ASSUME IInv, [Next]_vars, ~Idle, NEW f \in DOMAIN lct \ DOMAIN lct'
  PROVE  lct[f] > tier + 1
<1>1. PICK e \in graph : Grow(e)
  BY RoundOnly
<1>2. PICK B \in SUBSET DOMAIN lct :
        /\ \/ B = DOMAIN lct
           \/ /\ Joins(DOMAIN lct, e)
              /\ \E c \in Heaviest(lct, e) : B = DOMAIN lct \ {c}
        /\ DOMAIN lct' = B \cup {e}
  BY <1>1, GrowKeeps
<1>3. f \in Heaviest(lct, e) /\ Joins(DOMAIN lct, e)
  BY <1>2
<1> QED
  BY <1>1, <1>3, EvictionAbove

\* A round evicts only edges of tiers above the one it links in, so what the
\* earlier rounds repaired stays repaired.
THEOREM EvictedTheorem == Spec => EvictedFromAbove
<1>1. IInv /\ [Next]_vars =>
        [~Idle => \A e \in DOMAIN lct \ DOMAIN lct' : lct[e] > tier + 1]_vars
  BY EvictedStep
<1> QED
  BY <1>1, Invariant, PTL DEF Spec, EvictedFromAbove

-----------------------------------------------------------------------------
(* No isolation.                                                           *)

\* Isolated in terms of trees: the next tier's tree is the same, and a sketch
\* with seed s finds an edge that leaves it.
Stuck(s, G, F, t, v) ==
  /\ Component(F[t], v) = Component(F[t + 1], v)
  /\ Samples(s, t, Boundary(G, Component(F[t], v))) # {}

\* What the isolation check means for nested forests: see Stuck.
LEMMA IsolatedMeans ==
  ASSUME IInv, NEW t \in 0 .. NumTiers - 2, NEW v
  PROVE  Isolated(graph, ett, t, v) <=> Stuck(seed, graph, ett, t, v)
BY TiersNest, SameSize DEF Isolated, Sampled, Stuck

\* All vertices of a tree are isolated or none is.
LEMMA StuckShared ==
  ASSUME IInv, NEW t \in 0 .. NumTiers - 2, NEW v \in Vertex,
         Isolated(graph, ett, t, v), NEW u \in Component(ett[t], v)
  PROVE  Isolated(graph, ett, t, u)
<1>1. Component(ett[t], u) = Component(ett[t], v)
  BY TiersNest, ComponentEqual
<1>2. Stuck(seed, graph, ett, t, v)
  BY IsolatedMeans
<1>3. Component(ett[t + 1], u) = Component(ett[t + 1], v)
  BY <1>2, TiersNest, ComponentEqual DEF Stuck
<1>4. u \in Vertex
  BY ComponentInVertex
<1> QED
  BY <1>1, <1>2, <1>3, <1>4, IsolatedMeans DEF Stuck

\* While a round is ahead, it stays so or is the next.
LEMMA NextRoundAhead ==
  ASSUME TypeOK, ~Idle, NextRound, NEW t \in 0 .. NumTiers - 2,
         NEW i \in {1, 2}, t > tier \/ (t = tier /\ i > side)
  PROVE  /\ ~Idle'
         /\ ends' = ends
         /\ t > tier' \/ (t = tier' /\ i >= side')
BY NumTiersAssumption DEF TypeOK, NextRound

\* An update isolates only trees of its endpoints, and these start a refresh:
\* the other trees, and the edges that leave them, are what they were.
LEMMA UpdateAhead ==
  ASSUME IInv, IInv', IsolationIsAhead, Idle,
         NEW src \in Vertex, NEW dst \in Vertex, StartRefresh(src, dst),
         seed' = seed,
         graph' \ {{src, dst}} = graph \ {{src, dst}},
         \A t \in Tier : ett'[t] = ett[t] \ {{src, dst}}
  PROVE  IsolationIsAhead'
<1> DEFINE x == {src, dst}
<1>1. SUFFICES ASSUME NEW t \in 0 .. NumTiers - 2, NEW v \in Vertex,
                      Isolated(graph, ett, t, v)'
               PROVE  (\E i \in {1, 2} :
                         /\ ~Idle
                         /\ ends[i] \in Component(ett[t], v)
                         /\ t > tier \/ (t = tier /\ i >= side))'
  BY DEF IsolationIsAhead
<1>2. /\ t \in Tier /\ t + 1 \in Tier
      /\ ett[t] \in SUBSET Edge /\ ett[t + 1] \in SUBSET Edge
      /\ ett'[t] \in SUBSET Edge /\ ett'[t + 1] \in SUBSET Edge
      /\ ett'[t] \subseteq ett'[t + 1]
  BY TiersNest
<1> DEFINE C == Component(ett'[t], v)
<1>3. /\ C = Component(ett'[t + 1], v)
      /\ Samples(seed, t, Boundary(graph', C)) # {}
  BY <1>1, <1>2, SameSize DEF Isolated, Sampled
<1>4. ASSUME NEW s \in {t, t + 1}, x \cap C = {}
      PROVE  Component(ett[s], v) = C
  <2>1. ett'[s] = ett[s] \ {x} /\ C = Component(ett'[s], v) /\ s \in Tier
        /\ ett'[s] \in SUBSET Edge
    BY <1>2, <1>3
  <2>2. C \in SUBSET Vertex /\ Closed(C, ett'[s]) /\ v \in C
    BY <2>1, ComponentInVertex, ComponentClosed, ComponentSelf
  <2>3. C \subseteq Component(ett[s], v)
    BY <2>1, ComponentMonotone
  <2>4. Closed(C, ett[s])
    <3> HIDE DEF C, x
    <3> QED
      BY <2>1, <2>2, <1>4 DEF Closed
  <2> QED
    BY <2>2, <2>3, <2>4, ComponentLeast
<1>5. ~(x \cap C = {})
  <2>1. SUFFICES ASSUME x \cap C = {}
                 PROVE  FALSE
    OBVIOUS
  <2>2. Component(ett[t], v) = C /\ Component(ett[t + 1], v) = C
    BY <2>1, <1>4
  <2>3. Boundary(graph, C) = Boundary(graph', C)
    <3> HIDE DEF C, x
    <3>1. x \notin Boundary(graph, C) /\ x \notin Boundary(graph', C)
      BY <2>1 DEF Boundary
    <3>2. graph' \ {x} = graph \ {x}
      BY DEF x
    <3> QED
      BY <3>1, <3>2 DEF Boundary
  <2>4. Stuck(seed, graph, ett, t, v)
    BY <2>2, <2>3, <1>3 DEF Stuck
  <2> QED
    BY <2>4, IsolatedMeans DEF IsolationIsAhead
<1>6. PICK i \in {1, 2} : <<src, dst>>[i] \in C
  BY <1>5
<1> DEFINE u == <<src, dst>>[i]
<1>7. Isolated(graph', ett', t, u)
  <2>1. u \in Vertex
    BY <1>6
  <2>2. Component(ett'[t], u) = C
    BY <1>2, <1>6, ComponentEqual
  <2>3. Component(ett'[t + 1], u) = C
    BY <1>2, <1>3, <1>6, ComponentEqual
  <2>4. TreeSize(ett'[t], u) = TreeSize(ett'[t + 1], u)
    BY <2>2, <2>3 DEF TreeSize
  <2> HIDE DEF C, u
  <2> QED
    BY <2>2, <2>4, <1>3 DEF Isolated, Sampled
<1>8. ends' = <<src, dst>> /\ tier' = 0 /\ side' = 1
  BY <1>7 DEF StartRefresh
<1> QED
  <2>1. ends'[i] \in Component(ett'[t], v)
    BY <1>6, <1>8
  <2>2. ~Idle'
    BY <1>8
  <2> QED
    BY <2>1, <2>2, <1>8

\* A round whose tree is not isolated only moves on.
LEMMA SkipAhead ==
  ASSUME IInv, IsolationIsAhead, Skip
  PROVE  IsolationIsAhead'
<1>1. UNCHANGED <<seed, graph, ett>> /\ ~Idle /\ NextRound
  BY DEF Skip
<1>2. SUFFICES ASSUME NEW t \in 0 .. NumTiers - 2, NEW v \in Vertex,
                      Isolated(graph, ett, t, v)'
               PROVE  (\E i \in {1, 2} :
                         /\ ~Idle
                         /\ ends[i] \in Component(ett[t], v)
                         /\ t > tier \/ (t = tier /\ i >= side))'
  BY DEF IsolationIsAhead
<1>3. Isolated(graph, ett, t, v)
  BY <1>1, <1>2 DEF Isolated, Sampled
<1>4. PICK i \in {1, 2} : /\ ends[i] \in Component(ett[t], v)
                          /\ t > tier \/ (t = tier /\ i >= side)
  BY <1>3 DEF IsolationIsAhead
<1>5. t = tier => i # side
  BY <1>3, <1>4, StuckShared DEF Skip
<1>6. t > tier \/ (t = tier /\ i > side)
  BY <1>4, <1>5 DEF IInv, TypeOK
<1>7. /\ ~Idle'
      /\ ends' = ends
      /\ t > tier' \/ (t = tier' /\ i >= side')
  BY <1>1, <1>6, NextRoundAhead DEF IInv
<1> QED
  BY <1>1, <1>4, <1>7

\* A round that links an edge frees its own tree, and every tree that it makes
\* has its endpoint in it and is of a later tier; other trees were isolated
\* before if they are now, for the trees of the next tier have only grown.
LEMMA GrowAhead ==
  ASSUME IInv, IInv', IsolationIsAhead, NEW e \in graph, Grow(e)
  PROVE  IsolationIsAhead'
<1> DEFINE w == ends[side]
<1>1. UNCHANGED <<seed, graph>> /\ ~Idle /\ NextRound
  BY DEF Grow
<1>2. SUFFICES ASSUME NEW t \in 0 .. NumTiers - 2, NEW v \in Vertex,
                      Isolated(graph, ett, t, v)'
               PROVE  (\E i \in {1, 2} :
                         /\ ~Idle
                         /\ ends[i] \in Component(ett[t], v)
                         /\ t > tier \/ (t = tier /\ i >= side))'
  BY DEF IsolationIsAhead
<1>3. /\ t \in Tier /\ t + 1 \in Tier
      /\ ett[t] \subseteq ett[t + 1]
      /\ ett'[t] \subseteq ett'[t + 1]
      /\ ett'[t] \in SUBSET Edge /\ ett'[t + 1] \in SUBSET Edge
      /\ ett[t] \in SUBSET Edge /\ ett[t + 1] \in SUBSET Edge
      /\ t \in Int /\ tier \in Int /\ side \in {1, 2}
  <2>1. t \in Int /\ tier \in Int /\ side \in {1, 2}
    BY NumTiersAssumption DEF IInv, TypeOK
  <2>2. t \in Tier /\ t + 1 \in Tier /\ t <= t + 1
    BY <2>1, NumTiersAssumption
  <2>3. /\ ett'[t] = {f \in DOMAIN lct' : lct'[f] <= t}
        /\ ett'[t + 1] = {f \in DOMAIN lct' : lct'[f] <= t + 1}
        /\ \A f \in DOMAIN lct' : lct'[f] \in Int
        /\ DOMAIN lct' \in SUBSET Edge
    BY <2>2, NumTiersAssumption DEF IInv, TypeOK, TiersAgree
  <2>4. /\ ett'[t] \subseteq ett'[t + 1]
        /\ ett'[t] \in SUBSET Edge /\ ett'[t + 1] \in SUBSET Edge
    BY <2>1, <2>3
  <2> QED
    BY <2>1, <2>2, <2>4, TiersNest
<1> DEFINE C == Component(ett'[t], v)
<1>4. /\ C = Component(ett'[t + 1], v)
      /\ Samples(seed, t, Boundary(graph, C)) # {}
  BY <1>1, <1>2, <1>3, SameSize DEF Isolated, Sampled
<1>5. CASE t > tier /\ w \in C
  <2>1. /\ ~Idle'
        /\ ends' = ends
        /\ t > tier' \/ (t = tier' /\ side >= side')
    BY <1>1, <1>3, <1>5, NextRoundAhead DEF IInv
  <2> QED
    BY <2>1, <1>3, <1>5
<1>6. CASE ~(t > tier /\ w \in C)
  <2>1. Component(ett[t], v) = C
    BY <1>3, <1>6, GrowTrees
  <2>2. Component(ett[t + 1], v) = C
    <3>1. C \subseteq Component(ett[t + 1], v)
      BY <2>1, <1>3, ComponentMonotone
    <3>2. Component(ett[t + 1], v) \subseteq C
      BY <1>3, <1>4, GrowTrees
    <3> QED
      BY <3>1, <3>2
  <2>3. Isolated(graph, ett, t, v)
    BY <2>1, <2>2, <1>4, IsolatedMeans DEF Stuck
  <2>4. PICK i \in {1, 2} : /\ ends[i] \in C
                            /\ t > tier \/ (t = tier /\ i >= side)
    BY <2>1, <2>3 DEF IsolationIsAhead
  <2>5. t = tier => i # side
    <3>1. SUFFICES ASSUME t = tier, w \in C
                   PROVE  FALSE
      BY <2>4
    <3>2. C = Component(ett[tier], w)
      BY <2>1, <3>1, <1>3, ComponentEqual
    <3>3. e \in ett'[t + 1] /\ Closed(C, ett'[t + 1])
      BY <3>1, <1>3, <1>4, GrowTrees, ComponentClosed
    <3>4. (\E a \in e : a \in C) /\ ~(e \subseteq C)
      BY <3>2, GrowLeaves
    <3> HIDE DEF C
    <3> QED
      BY <3>3, <3>4 DEF Closed
  <2>6. t > tier \/ (t = tier /\ i > side)
    BY <2>4, <2>5, <1>3
  <2>7. /\ ~Idle'
        /\ ends' = ends
        /\ t > tier' \/ (t = tier' /\ i >= side')
    BY <2>6, <1>1, NextRoundAhead DEF IInv
  <2> QED
    BY <2>4, <2>7
<1> QED
  BY <1>5, <1>6

\* Every step keeps isolated trees ahead of the round.
LEMMA AheadNext == IInv /\ IInv' /\ IsolationIsAhead /\ [Next]_vars
                     => IsolationIsAhead'
<1> SUFFICES ASSUME IInv, IInv', IsolationIsAhead, [Next]_vars
             PROVE  IsolationIsAhead'
  OBVIOUS
<1>1. ASSUME NEW src \in Vertex, NEW dst \in Vertex, Insert(src, dst)
      PROVE  IsolationIsAhead'
  <2>1. \A t \in Tier : ett'[t] = ett[t] \ {{src, dst}}
    <3>1. \A t \in Tier : ett[t] \subseteq graph
      BY DEF IInv, TiersAgree, SpanningForest
    <3> QED
      BY <3>1, <1>1 DEF Insert
  <2>2. graph' \ {{src, dst}} = graph \ {{src, dst}}
    BY <1>1 DEF Insert, Toggle
  <2>3. Idle /\ StartRefresh(src, dst) /\ seed' = seed
    BY <1>1 DEF Insert
  <2> QED
    BY <2>1, <2>2, <2>3, UpdateAhead
<1>2. ASSUME NEW src \in Vertex, NEW dst \in Vertex, Delete(src, dst)
      PROVE  IsolationIsAhead'
  <2>1. \A t \in Tier : ett'[t] = ett[t] \ {{src, dst}}
    BY <1>2 DEF Delete, EttCut
  <2>2. graph' \ {{src, dst}} = graph \ {{src, dst}}
    BY <1>2 DEF Delete, Toggle
  <2>3. Idle /\ StartRefresh(src, dst) /\ seed' = seed
    BY <1>2 DEF Delete
  <2> QED
    BY <2>1, <2>2, <2>3, UpdateAhead
<1>3. CASE Skip
  BY <1>3, SkipAhead
<1>4. ASSUME NEW e \in graph, Grow(e)
      PROVE  IsolationIsAhead'
  BY <1>4, GrowAhead
<1>5. CASE (\E a, b \in Vertex : IsConnected(a, b)) \/ GetCC \/ UNCHANGED vars
  <2>1. UNCHANGED <<seed, graph, ett, lct, ends, tier, side>>
    BY <1>5 DEF IsConnected, GetCC, vars
  <2> QED
    BY <2>1 DEF IsolationIsAhead, Isolated, Sampled
<1> QED
  BY <1>1, <1>2, <1>3, <1>4, <1>5 DEF Next

\* Nothing is isolated in an empty graph.
LEMMA AheadInit == Init => IsolationIsAhead
<1> SUFFICES ASSUME Init, NEW t \in 0 .. NumTiers - 2, NEW v \in Vertex
             PROVE  ~Isolated(graph, ett, t, v)
  BY DEF IsolationIsAhead
<1>1. IInv
  BY IInvInit
<1>2. Boundary(graph, Component(ett[t], v)) = {}
  BY DEF Init, Boundary
<1>3. Samples(seed, t, {}) \subseteq {}
  BY SamplesAssumption DEF Init
<1> QED
  BY <1>2, <1>3 DEF Isolated, Sampled

\* While refresh() runs, every isolated tree is that of an endpoint whose round
\* is still to come.
THEOREM IsolationIsAheadAlways == Spec => []IsolationIsAhead
BY AheadInit, AheadNext, Invariant, PTL DEF Spec

\* The invariant the structure rests on: when update() has returned, no tree on
\* any tier has the same vertices on the next tier and a sketch that finds an
\* edge leaving it.
THEOREM NoIsolationAlways == Spec => []NoIsolation
<1>1. IsolationIsAhead => NoIsolation
  BY DEF IsolationIsAhead, NoIsolation
<1> QED
  BY <1>1, IsolationIsAheadAlways, PTL

-----------------------------------------------------------------------------
(* Every answer is right when no sketch fails and there are enough tiers.  *)
(* A tree that an edge of the graph leaves has on each tier at least twice *)
(* the vertices it needs on the tier below, or it would be isolated; on    *)
(* the top tier it would need more than there are.                         *)

\* Sketches that never fail.
PerfectSketches ==
  \A s \in Seeds, t \in 0 .. NumTiers - 2, cut \in SUBSET Edge :
    cut # {} => Samples(s, t, cut) # {}

\* Enough tiers: more than log2(n).
EnoughTiers == Cardinality(Vertex) < 2^NumTiers

-----------------------------------------------------------------------------
(* The number of tiers.                                                    *)

LEMMA PowersOfThree ==
  /\ PowerOfThree[0] = 1
  /\ \A k \in Nat : /\ PowerOfThree[k] \in Nat
                    /\ PowerOfThree[k + 1] = 3 * PowerOfThree[k]
<1>1. PowerOfThree = [k \in Nat |-> IF k = 0 THEN 1 ELSE 3 * PowerOfThree[k - 1]]
  <2>1. \E f : f = [k \in Nat |-> IF k = 0 THEN 1 ELSE 3 * f[k - 1]]
    BY PowersExist
  <2> QED
    BY <2>1, Zenon DEF PowerOfThree
<1>2. PowerOfThree[0] = 1
  BY <1>1
<1>3. ASSUME NEW k \in Nat
      PROVE  PowerOfThree[k + 1] = 3 * PowerOfThree[k]
  <2>1. k + 1 \in Nat /\ k + 1 # 0 /\ (k + 1) - 1 = k
    OBVIOUS
  <2> QED
    BY <1>1, <2>1
<1>4. \A k \in Nat : PowerOfThree[k] \in Nat
  <2> DEFINE T == {k \in Nat : PowerOfThree[k] \in Nat}
  <2>1. 0 \in T
    BY <1>2
  <2>2. \A k \in Nat : k \in T => k + 1 \in T
    BY <1>3
  <2> HIDE DEF T
  <2>3. \A k \in Nat : k \in T
    BY <2>1, <2>2, Induction, Zenon
  <2> QED
    BY <2>3 DEF T
<1> QED
  BY <1>2, <1>3, <1>4

\* (3/2)^m exceeds m - 1.
LEMMA PowersOutgrow ==
  \A m \in Nat : m * 2^(m + 1) < PowerOfThree[m + 1]
<1> DEFINE T == {m \in Nat : m * 2^(m + 1) < PowerOfThree[m + 1]}
<1>0. /\ 2^1 = 2 /\ 2^2 = 4 /\ 2^3 = 8
      /\ PowerOfThree[1] = 3 /\ PowerOfThree[2] = 9 /\ PowerOfThree[3] = 27
  <2>1. 1 = 0 + 1 /\ 2 = 1 + 1 /\ 3 = 2 + 1 /\ 0 \in Nat /\ 1 \in Nat /\ 2 \in Nat
    OBVIOUS
  <2>2. 2^1 = 2 * 2^0 /\ 2^2 = 2 * 2^1 /\ 2^3 = 2 * 2^2
    BY <2>1, PowerOfTwo, Zenon
  <2>3. /\ PowerOfThree[1] = 3 * PowerOfThree[0]
        /\ PowerOfThree[2] = 3 * PowerOfThree[1]
        /\ PowerOfThree[3] = 3 * PowerOfThree[2]
    BY <2>1, PowersOfThree, Zenon
  <2> QED
    BY <2>2, <2>3, PowerOfTwo, PowersOfThree
<1>1. 0 \in T /\ 1 \in T /\ 2 \in T
  BY <1>0
<1>2. ASSUME NEW m \in Nat, m \in T
      PROVE  m + 1 \in T
  <2>1. CASE m \in {0, 1}
    <3>1. m + 1 = 1 \/ m + 1 = 2
      BY <2>1
    <3> HIDE DEF T
    <3> QED
      BY <1>1, <3>1, Zenon
  <2>2. CASE m \notin {0, 1}
    <3>1. PICK p \in Nat : p = 2^(m + 1) /\ 2^((m + 1) + 1) = 2 * p
      <4>1. m + 1 \in Nat
        OBVIOUS
      <4> QED
        BY <4>1, PowerOfTwo, Zenon
    <3>2. PICK q \in Nat : q = PowerOfThree[m + 1] /\ PowerOfThree[(m + 1) + 1] = 3 * q
      <4>1. m + 1 \in Nat
        OBVIOUS
      <4> QED
        BY <4>1, PowersOfThree, Zenon
    <3>3. PICK r \in Nat : r = m * p
      OBVIOUS
    <3>4. r < q
      BY <1>2, <3>1, <3>2, <3>3
    <3>5. (m + 1) * (2 * p) = 2 * r + 2 * p
      BY <3>3
    <3>6. 2 * p <= r
      BY <2>2, <3>3
    <3>7. (m + 1) * (2 * p) < 3 * q
      BY <3>4, <3>5, <3>6
    <3> QED
      BY <3>1, <3>2, <3>7
  <2> QED
    BY <2>1, <2>2
<1> HIDE DEF T
<1>3. \A m \in Nat : m \in T
  BY <1>1, <1>2, Induction, Zenon
<1> QED
  BY <1>3 DEF T

\* The number that the constructor computes is well defined.
LEMMA NumTiersForIs ==
  ASSUME NEW n \in Nat, n # 0
  PROVE  /\ NumTiersFor(n) \in 0 .. n
         /\ n * 2^(NumTiersFor(n) + 1) < PowerOfThree[NumTiersFor(n) + 1]
<1> DEFINE Beyond == {k \in Nat : n * 2^k < PowerOfThree[k]}
           Is(k) == PowerOfThree[k] <= n * 2^k /\ n * 2^(k+1) < PowerOfThree[k+1]
<1>1. n + 1 \in Beyond
  BY PowersOutgrow
<1>2. PICK k \in Beyond : \A j \in Beyond : k <= j
  <2>1. Beyond \in SUBSET Nat
    OBVIOUS
  <2> HIDE DEF Beyond
  <2> QED
    BY <1>1, <2>1, LeastElement
<1>3. k # 0
  <2>1. 0 \notin Beyond
    BY PowerOfTwo, PowersOfThree
  <2> QED
    BY <2>1
<1>4. k - 1 \in 0 .. n /\ k - 1 \notin Beyond /\ (k - 1) + 1 = k
  BY <1>1, <1>2, <1>3
<1>5. n * 2^(k - 1) \in Nat /\ PowerOfThree[k - 1] \in Nat
  <2>1. 2^(k - 1) \in Nat /\ PowerOfThree[k - 1] \in Nat
    BY <1>4, PowerOfTwo, PowersOfThree
  <2>2. PICK p \in Nat : p = 2^(k - 1)
    BY <2>1
  <2> QED
    BY <2>1, <2>2
<1>6. Is(k - 1)
  BY <1>2, <1>4, <1>5
<1>7. \E j \in 0 .. n : Is(j)
  <2> HIDE DEF Is
  <2> QED
    BY <1>4, <1>6
<1> QED
  BY <1>7, Zenon DEF NumTiersFor

\* 3^(k+1) <= 2^(2k+1) from k = 2 on.
LEMMA PowersCompare ==
  \A k \in Nat : k >= 2 => PowerOfThree[k + 1] <= 2 * (2^k * 2^k)
<1> DEFINE T == {k \in Nat : k >= 2 => PowerOfThree[k + 1] <= 2 * (2^k * 2^k)}
<1>1. 0 \in T
  OBVIOUS
<1>2. ASSUME NEW k \in Nat, k \in T
      PROVE  k + 1 \in T
  <2>1. PICK p \in Nat : p = 2^k /\ 2^(k + 1) = 2 * p
    BY PowerOfTwo, Zenon
  <2>2. PICK q \in Nat : q = PowerOfThree[k + 1] /\ PowerOfThree[(k + 1) + 1] = 3 * q
    <3>1. k + 1 \in Nat
      OBVIOUS
    <3> QED
      BY <3>1, PowersOfThree, Zenon
  <2>3. CASE k >= 2
    <3>1. PICK s \in Nat : s = p * p
      OBVIOUS
    <3>2. q <= 2 * s
      BY <1>2, <2>1, <2>2, <2>3, <3>1
    <3>3. (2 * p) * (2 * p) = 4 * s
      BY <3>1
    <3>4. 3 * q <= 2 * ((2 * p) * (2 * p))
      BY <3>2, <3>3
    <3> QED
      BY <2>1, <2>2, <3>4
  <2>4. CASE k = 1
    <3>1. p = 2
      BY <2>1, <2>4, PowerOfTwo
    <3>2. q = 9
      BY <2>2, <2>4, PowersOfThree
    <3> QED
      BY <2>1, <2>2, <3>1, <3>2
  <2>5. CASE k = 0
    BY <2>5
  <2> QED
    BY <2>3, <2>4, <2>5
<1> HIDE DEF T
<1>3. \A k \in Nat : k \in T
  BY <1>1, <1>2, Induction, Zenon
<1> QED
  BY <1>3 DEF T

\* The number of tiers that the constructor computes is enough for three
\* vertices and more: GraphTiers(n) with its tiers has EnoughTiers.
THEOREM ConstructorMakesEnough ==
  ASSUME Cardinality(Vertex) >= 3, NumTiers = NumTiersFor(Cardinality(Vertex))
  PROVE  EnoughTiers
<1> DEFINE n == Cardinality(Vertex)
           k == NumTiersFor(n)
<1>1. n \in Nat /\ n # 0
  BY VertexAssumption, FS_CardinalityType
<1>2. k \in Nat /\ n * 2^(k + 1) < PowerOfThree[k + 1]
  BY <1>1, NumTiersForIs
<1> HIDE DEF n, k
<1>3. PICK p \in Nat : p = 2^k /\ 2^(k + 1) = 2 * p
  BY <1>2, PowerOfTwo, Zenon
<1>4. n >= 3
  BY DEF n
<1>5. k >= 2
  <2>1. CASE k = 0
    BY <1>1, <1>2, <1>3, <1>4, <2>1, PowerOfTwo, PowersOfThree
  <2>2. CASE k = 1
    <3>1. PowerOfThree[2] = 9
      <4>1. PowerOfThree[1] = 3
        BY PowersOfThree
      <4> QED
        BY <4>1, PowersOfThree
    <3>2. p = 2
      BY <1>3, <2>2, PowerOfTwo
    <3> QED
      BY <1>1, <1>2, <1>3, <1>4, <2>2, <3>1, <3>2
  <2> QED
    BY <1>2, <2>1, <2>2
<1>6. n * (2 * p) < 2 * (p * p)
  <2>1. PICK s \in Nat : s = p * p
    OBVIOUS
  <2>2. PICK q \in Nat : q = PowerOfThree[k + 1]
    <3>1. k + 1 \in Nat
      BY <1>2
    <3> QED
      BY <3>1, PowersOfThree, Zenon
  <2>3. q <= 2 * s
    BY <1>2, <1>3, <1>5, <2>1, <2>2, PowersCompare
  <2>4. PICK r \in Nat : r = n * (2 * p)
    BY <1>1
  <2>5. r < q
    BY <1>2, <1>3, <2>2, <2>4
  <2> QED
    BY <2>1, <2>3, <2>4, <2>5
<1>7. n < p
  <2>1. SUFFICES ASSUME p <= n PROVE FALSE
    BY <1>1
  <2>2. p * p <= n * p
    BY <1>1, <2>1
  <2>3. n * (2 * p) = 2 * (n * p)
    BY <1>1
  <2> QED
    BY <1>1, <1>6, <2>2, <2>3
<1> QED
  BY <1>3, <1>7, Zenon DEF EnoughTiers, n, k

-----------------------------------------------------------------------------
(* The trees of the top tier.                                              *)

\* Where nothing is isolated, trees that an edge leaves grow from tier to tier.
LEMMA TiersGrow ==
  ASSUME IInv, PerfectSketches, Idle, NoIsolation
  PROVE  Growing(ett, NumTiers - 1, graph)
<1>1. \A t \in 0 .. NumTiers - 1 : ett[t] \subseteq graph
  BY DEF IInv, TypeOK, TiersAgree, SpanningForest, Tier
<1>2. ASSUME NEW t \in 0 .. (NumTiers - 1) - 1
      PROVE  /\ ett[t] \subseteq ett[t + 1]
             /\ \A v \in Vertex : Incomplete(graph, ett[t], v)
                                  => Component(ett[t], v) # Component(ett[t + 1], v)
  <2>1. t \in 0 .. NumTiers - 2
    BY NumTiersAssumption
  <2>2. ett[t] \subseteq ett[t + 1]
    BY <2>1, TiersNest
  <2>3. ASSUME NEW v \in Vertex, Incomplete(graph, ett[t], v)
        PROVE  Component(ett[t], v) # Component(ett[t + 1], v)
    <3>1. ~Isolated(graph, ett, t, v)
      BY <2>1 DEF NoIsolation
    <3>2. Sampled(graph, ett, t, v) # {}
      <4>1. Boundary(graph, Component(ett[t], v)) \in SUBSET Edge /\ seed \in Seeds
        BY DEF IInv, TypeOK, Boundary
      <4> QED
        BY <2>1, <2>3, <4>1 DEF PerfectSketches, Sampled, Incomplete
    <3> QED
      BY <3>1, <3>2 DEF Isolated, TreeSize
  <2> QED
    BY <2>2, <2>3
<1> QED
  BY <1>1, <1>2 DEF Growing

\* The top tier's trees are the graph's components.
LEMMA TopConnects ==
  ASSUME IInv, PerfectSketches, EnoughTiers, Idle, NoIsolation, NEW v \in Vertex
  PROVE  /\ Component(ett[NumTiers - 1], v) = Component(graph, v)
         /\ Component(DOMAIN lct, v) = Component(graph, v)
<1>1. PICK top \in Nat : top = NumTiers - 1 /\ top + 1 = NumTiers /\ top \in Tier
  BY NumTiersAssumption DEF Tier
<1>2. graph \in SUBSET Edge
  BY DEF IInv, TypeOK
<1>3. Growing(ett, top, graph)
  BY <1>1, TiersGrow, Zenon
<1>4. Cardinality(Vertex) < 2^(top + 1)
  BY <1>1, Zenon DEF EnoughTiers
<1>5. Component(ett[top], v) = Component(graph, v)
  BY <1>2, <1>3, <1>4, GrownConnect, Zenon
<1>6. ett[top] = DOMAIN lct
  <2>1. \A e \in DOMAIN lct : lct[e] \in 1 .. NumTiers - 1
    BY DEF IInv, TypeOK
  <2>2. \A e \in DOMAIN lct : lct[e] <= top
    BY <1>1, <2>1, NumTiersAssumption
  <2> QED
    BY <1>1, <2>2 DEF IInv, TiersAgree
<1> QED
  BY <1>1, <1>5, <1>6

-----------------------------------------------------------------------------
(* The refinement.                                                         *)

\* Connectivity has the definitions of Forests for its own.
LEMMA SameForests ==
  /\ Promise!Edge = Edge
  /\ \A F, Q : Promise!Blocks(F, Q) = Blocks(F, Q)
  /\ \A F, e : Promise!Toggle(F, e) = Toggle(F, e)
<1>1. \A F, v : Promise!Component(F, v) = Component(F, v)
  BY DEF Promise!Component, Component, Promise!Closed, Closed
<1>2. \A F, Q : Promise!Blocks(F, Q) = Blocks(F, Q)
  BY <1>1 DEF Promise!Blocks, Blocks
<1> QED
  BY <1>2 DEF Promise!Edge, Edge, Promise!Toggle, Toggle

\* The answer to a query is the graph's.
LEMMA QueryMaps ==
  ASSUME IInv, PerfectSketches, EnoughTiers, Idle, NoIsolation,
         NEW Q \in SUBSET Vertex, Q # {},
         \/ answer' = Blocks(DOMAIN lct, Q)
         \/ answer' = Blocks(ett[NumTiers - 1], Q),
         graph' = graph
  PROVE  Promise!Next
<1>1. answer' = Blocks(graph, Q)
  BY TopConnects DEF Blocks
<1>2. UNION answer' = Q
  BY <1>1, BlocksCover
<1>3. answer' = Promise!Blocks(graph, Q)
  BY <1>1, SameForests
<1>4. Promise!Query(Q)
  BY <1>3 DEF Promise!Query
<1> QED
  BY <1>2, <1>4 DEF Promise!Next

\* An insertion or a deletion is an update, whatever refresh() begins.
LEMMA UpdateMaps ==
  ASSUME NEW src \in Vertex, NEW dst \in Vertex, Insert(src, dst) \/ Delete(src, dst)
  PROVE  Promise!Next
<1>1. {src, dst} \in Edge /\ graph' = Toggle(graph, {src, dst}) /\ answer' = {}
  BY DEF Insert, Delete, Edge
<1>2. Promise!Update({src, dst}) /\ {src, dst} \in Promise!Edge
  BY <1>1, SameForests DEF Promise!Update
<1> QED
  BY <1>2 DEF Promise!Next

LEMMA StepMaps ==
  ASSUME Vertex # {}, IInv, PerfectSketches, EnoughTiers, NoIsolation, [Next]_vars
  PROVE  [Promise!Next]_(Promise!vars)
<1>1. ASSUME NEW src \in Vertex, NEW dst \in Vertex, Insert(src, dst) \/ Delete(src, dst)
      PROVE  Promise!Next
  BY <1>1, UpdateMaps
<1>2. CASE Skip \/ (\E e \in graph : Grow(e)) \/ UNCHANGED vars
  BY <1>2 DEF Skip, Grow, vars, Promise!vars
<1>3. ASSUME NEW a \in Vertex, NEW b \in Vertex, IsConnected(a, b)
      PROVE  Promise!Next
  <2>1. {a, b} \in SUBSET Vertex /\ {a, b} # {}
    OBVIOUS
  <2> QED
    BY <1>3, <2>1, QueryMaps DEF IsConnected
<1>4. CASE GetCC
  BY <1>4, QueryMaps DEF GetCC
<1> QED
  BY <1>1, <1>2, <1>3, <1>4 DEF Next

\* Every answer of is_connected and get_cc is the graph's, for any stream and
\* whatever the sketches sample and the evictions choose, when the sketches do
\* not fail and there are more than log2(n) tiers, as there are with the number
\* that the constructor computes for three vertices and more.
THEOREM KeepsPromiseAlways ==
  ASSUME Vertex # {}, PerfectSketches, EnoughTiers
  PROVE  Spec => KeepsPromise
<1>1. Init => Promise!Init
  BY DEF Init, Promise!Init
<1>2. IInv /\ NoIsolation /\ [Next]_vars => [Promise!Next]_(Promise!vars)
  BY StepMaps
<1> QED
  BY <1>1, <1>2, Invariant, NoIsolationAlways, PTL DEF Spec, KeepsPromise, Promise!Spec

-----------------------------------------------------------------------------
\* An answer stays the graph's until the next update.
LEMMA ExactStep ==
  ASSUME IInv, PerfectSketches, EnoughTiers, NoIsolation, AnswersExact, [Next]_vars
  PROVE  AnswersExact'
<1>1. ASSUME NEW Q \in SUBSET Vertex, Idle, graph' = graph,
             \/ answer' = Blocks(DOMAIN lct, Q)
             \/ answer' = Blocks(ett[NumTiers - 1], Q)
      PROVE  AnswersExact'
  <2>1. answer' = Blocks(graph, Q)
    BY <1>1, TopConnects DEF Blocks
  <2> QED
    BY <1>1, <2>1, BlocksCover DEF AnswersExact
<1>2. ASSUME NEW src \in Vertex, NEW dst \in Vertex, Insert(src, dst) \/ Delete(src, dst)
      PROVE  AnswersExact'
  BY <1>2 DEF Insert, Delete, AnswersExact
<1>3. CASE Skip \/ (\E e \in graph : Grow(e)) \/ UNCHANGED vars
  BY <1>3 DEF Skip, Grow, vars, AnswersExact
<1>4. ASSUME NEW a \in Vertex, NEW b \in Vertex, IsConnected(a, b)
      PROVE  AnswersExact'
  BY <1>1, <1>4 DEF IsConnected
<1>5. CASE GetCC
  BY <1>1, <1>5 DEF GetCC
<1> QED
  BY <1>2, <1>3, <1>4, <1>5 DEF Next

\* The property that two vertices violate, for whom the constructor computes one
\* tier: with enough tiers, and sketches that do not fail, it holds.
THEOREM AnswersExactAlways ==
  ASSUME PerfectSketches, EnoughTiers
  PROVE  Spec => []AnswersExact
<1>1. Init => AnswersExact
  BY DEF Init, AnswersExact
<1>2. IInv /\ NoIsolation /\ AnswersExact /\ [Next]_vars => AnswersExact'
  BY ExactStep
<1> QED
  BY <1>1, <1>2, Invariant, NoIsolationAlways, PTL DEF Spec
=============================================================================
