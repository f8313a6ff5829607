---------------------------- MODULE ForestLemmas ----------------------------
(***************************************************************************)
(* Facts about Forests: connectivity is an equivalence that grows with the *)
(* edges; linking two trees of a forest gives a forest; in a forest the    *)
(* edges of a path connect its ends by themselves; and an edge of a cycle  *)
(* can be exchanged for another without disconnecting anything.  Each is   *)
(* proved by naming a closed set, so none needs induction on paths.        *)
(*                                                                         *)
(* Of a series of forests, in each of which no tree that an edge leaves is *)
(* a tree of the one before, the last connects what the graph connects     *)
(* when there are more than log2 of the number of vertices (GrownConnect). *)
(*                                                                         *)
(* The section on natural numbers and finite sets comes first: the other   *)
(* sections and the proofs of several modules need it.                     *)
(***************************************************************************)
EXTENDS Forests, FiniteSetTheorems, WellFoundedInduction, TLAPS

-----------------------------------------------------------------------------
(* Natural numbers and finite sets: the least element of a set, induction, *)
(* and powers of two.                                                      *)

\* A set of natural numbers that is not empty has a least element.
LEMMA LeastElement ==
  ASSUME NEW T \in SUBSET Nat, T # {}
  PROVE  \E m \in T : \A k \in T : m <= k
<1>1. IsWellFoundedOn(OpToRel(<, Nat), Nat)
  BY NatLessThanWellFounded, Zenon
<1>2. PICK m \in T : \A k \in T : ~(<<k, m>> \in OpToRel(<, Nat))
  BY <1>1, WFMin, Zenon
<1>3. \A k \in T : ~(k < m)
  BY <1>2, Zenon DEF OpToRel
<1> QED
  BY <1>3

\* Induction, for a property that is given by the numbers that have it.
LEMMA Induction ==
  ASSUME NEW T, 0 \in T, \A n \in Nat : n \in T => n + 1 \in T
  PROVE  \A n \in Nat : n \in T
<1> DEFINE S == {n \in Nat : n \notin T}
<1>1. SUFFICES ASSUME S # {} PROVE FALSE
  OBVIOUS
<1>2. PICK m \in S : \A k \in S : m <= k
  <2> HIDE DEF S
  <2>1. S \in SUBSET Nat
    BY DEF S
  <2> QED
    BY <1>1, <2>1, LeastElement
<1>3. m - 1 \in Nat /\ m - 1 \notin S
  BY <1>2
<1> QED
  BY <1>2, <1>3

\* Powers of two: the subsets of a set with one more element are twice as many.
LEMMA PowerOfTwo ==
  /\ 2^0 = 1
  /\ \A n \in Nat : 2^n \in Nat /\ 2^(n + 1) = 2 * 2^n
<1>1. 2^0 = 1
  <2>1. SUBSET {} = {{}}
    OBVIOUS
  <2> QED
    BY <2>1, FS_EmptySet, FS_SUBSET, FS_Singleton
<1>2. ASSUME NEW n \in Nat
      PROVE  2^n \in Nat /\ 2^(n + 1) = 2 * 2^n
  <2> DEFINE S == 1 .. n
             x == n + 1
             Old == SUBSET S
             New == {T \in SUBSET (S \cup {x}) : x \in T}
             f == [T \in Old |-> T \cup {x}]
  <2>1. IsFiniteSet(S) /\ Cardinality(S) = n /\ x \notin S
    BY FS_Interval
  <2>2. IsFiniteSet(S \cup {x}) /\ Cardinality(S \cup {x}) = n + 1
    BY <2>1, FS_AddElement
  <2>3. IsFiniteSet(Old) /\ Cardinality(Old) = 2^n
    BY <2>1, FS_SUBSET
  <2>4. Cardinality(SUBSET (S \cup {x})) = 2^(n + 1)
    BY <2>2, FS_SUBSET
  <2>5. f \in Bijection(Old, New)
    <3>1. f \in [Old -> New]
      OBVIOUS
    <3>2. ASSUME NEW T \in Old, NEW U \in Old, f[T] = f[U]
          PROVE  T = U
      BY <2>1, <3>2
    <3>3. ASSUME NEW T \in New
          PROVE  \E U \in Old : f[U] = T
      <4>1. T \ {x} \in Old /\ (T \ {x}) \cup {x} = T
        OBVIOUS
      <4> QED
        BY <4>1
    <3> HIDE DEF f, Old, New
    <3> QED
      BY <3>1, <3>2, <3>3 DEF Bijection, Injection, Surjection, IsInjective
  <2>6. IsFiniteSet(New) /\ Cardinality(New) = 2^n
    <3> HIDE DEF f, Old, New
    <3>1. ExistsBijection(Old, New)
      BY <2>5 DEF ExistsBijection
    <3> QED
      BY <2>3, <3>1, FS_Bijection
  <2>7. Old \cup New = SUBSET (S \cup {x}) /\ Old \cap New = {}
    BY <2>1
  <2>8. PICK p \in Nat : p = 2^n
    BY <2>3, FS_CardinalityType
  <2>9. Cardinality(Old \cup New) = 2 * p
    <3> HIDE DEF f, Old, New
    <3>1. Cardinality(Old) = p /\ Cardinality(New) = p
      BY <2>3, <2>6, <2>8, Zenon
    <3>2. Cardinality(Old \cap New) = 0
      BY <2>7, FS_EmptySet
    <3> QED
      BY <2>3, <2>6, <3>1, <3>2, FS_Union
  <2>10. 2^(n + 1) = 2 * p
    BY <2>4, <2>7, <2>9, Zenon
  <2> QED
    BY <2>8, <2>10, Zenon
<1> QED
  BY <1>1, <1>2

\* Powers by recursion: there is a function that does what its definition says.
LEMMA PowersExist ==
  ASSUME NEW b \in Nat
  PROVE  \E f : f = [n \in Nat |-> IF n = 0 THEN 1 ELSE b * f[n - 1]]
<1> DEFINE Good(n, g) == /\ g \in [0 .. n -> Nat]
                         /\ g[0] = 1
                         /\ \A i \in 1 .. n : g[i] = b * g[i - 1]
           First(n) == CHOOSE g : Good(n, g)
           f == [n \in Nat |-> First(n)[n]]
<1>1. \A n \in Nat : \E g : Good(n, g)
  <2> DEFINE T == {n \in Nat : \E g : Good(n, g)}
  <2>1. 0 \in T
    <3>1. Good(0, [i \in 0 .. 0 |-> 1])
      OBVIOUS
    <3> QED
      BY <3>1
  <2>2. ASSUME NEW n \in Nat, n \in T
        PROVE  n + 1 \in T
    <3>1. PICK g : Good(n, g)
      BY <2>2
    <3>2. PICK p \in Nat : p = b * g[n]
      BY <3>1
    <3> DEFINE h == [i \in 0 .. n + 1 |-> IF i = n + 1 THEN p ELSE g[i]]
    <3>3. h \in [0 .. n + 1 -> Nat] /\ h[0] = 1
      BY <3>1, <3>2
    <3>4. ASSUME NEW i \in 1 .. n + 1
          PROVE  h[i] = b * h[i - 1]
      <4>1. CASE i = n + 1
        BY <3>2, <4>1
      <4>2. CASE i # n + 1
        <5>1. i \in 1 .. n /\ h[i] = g[i] /\ h[i - 1] = g[i - 1]
          BY <4>2
        <5> QED
          BY <3>1, <5>1
      <4> QED
        BY <4>1, <4>2
    <3>5. Good(n + 1, h)
      BY <3>3, <3>4
    <3> HIDE DEF Good, h
    <3> QED
      BY <3>5
  <2> HIDE DEF T
  <2>3. \A n \in Nat : n \in T
    BY <2>1, <2>2, Induction, Zenon
  <2> QED
    BY <2>3 DEF T
<1>2. \A n \in Nat : Good(n, First(n))
  <2> HIDE DEF Good
  <2> QED
    BY <1>1
<1>3. ASSUME NEW n \in Nat
      PROVE  First(n + 1)[n] = First(n)[n]
  <2> DEFINE g == First(n)
             h == First(n + 1)
             T == {i \in Nat : i <= n => g[i] = h[i]}
  <2> HIDE DEF Good, First
  <2>0. Good(n, g) /\ Good(n + 1, h)
    BY <1>2
  <2> HIDE DEF g, h
  <2> USE DEF Good
  <2>1. 0 \in T
    BY <2>0
  <2>2. ASSUME NEW i \in Nat, i \in T
        PROVE  i + 1 \in T
    <3>1. SUFFICES ASSUME i + 1 <= n PROVE g[i + 1] = h[i + 1]
      OBVIOUS
    <3>2. i + 1 \in 1 .. n /\ i + 1 \in 1 .. n + 1 /\ (i + 1) - 1 = i /\ g[i] = h[i]
      BY <2>2, <3>1
    <3>3. g[i + 1] = b * g[i]
      BY <2>0, <3>2
    <3>4. h[i + 1] = b * h[i]
      BY <2>0, <3>2
    <3> QED
      BY <3>2, <3>3, <3>4
  <2> HIDE DEF T
  <2>3. \A i \in Nat : i \in T
    BY <2>1, <2>2, Induction, Zenon
  <2>4. g[n] = h[n]
    BY <2>3 DEF T
  <2> QED
    BY <2>4 DEF g, h
<1>4. ASSUME NEW n \in Nat
      PROVE  f[n] = IF n = 0 THEN 1 ELSE b * f[n - 1]
  <2>1. CASE n = 0
    BY <1>2, <2>1
  <2>2. CASE n # 0
    <3>1. n - 1 \in Nat /\ (n - 1) + 1 = n /\ n \in 1 .. n
      BY <2>2
    <3>2. First(n)[n] = b * First(n)[n - 1]
      BY <1>2, <3>1
    <3>3. First(n)[n - 1] = First(n - 1)[n - 1]
      BY <1>3, <3>1
    <3> HIDE DEF First
    <3> QED
      BY <2>2, <3>1, <3>2, <3>3
  <2> QED
    BY <2>1, <2>2
<1>5. f = [n \in Nat |-> IF n = 0 THEN 1 ELSE b * f[n - 1]]
  <2> HIDE DEF First
  <2>1. f = [n \in Nat |-> f[n]]
    OBVIOUS
  <2> HIDE DEF f
  <2> QED
    BY <1>4, <2>1
<1> QED
  BY <1>5

-----------------------------------------------------------------------------
\* u is connected to v when every closed set with v in it has u in it.
LEMMA ComponentMember ==
  ASSUME NEW F, NEW v, NEW u
  PROVE  u \in Component(F, v) <=>
           /\ u \in Vertex
           /\ \A S \in SUBSET Vertex : v \in S /\ Closed(S, F) => u \in S
BY DEF Component

\* A component is a set of vertices.
LEMMA ComponentInVertex ==
  ASSUME NEW F, NEW v
  PROVE  Component(F, v) \subseteq Vertex
BY DEF Component

\* An edge is a set of vertices.
LEMMA EdgeInVertex ==
  ASSUME NEW e \in Edge
  PROVE  e \subseteq Vertex
BY DEF Edge

\* An edge has two ends.
LEMMA EdgeEnds ==
  ASSUME NEW e \in Edge
  PROVE  \E a, b \in Vertex : a # b /\ e = {a, b}
BY DEF Edge

\* A vertex is in its own component.
LEMMA ComponentSelf ==
  ASSUME NEW F, NEW v \in Vertex
  PROVE  v \in Component(F, v)
BY ComponentMember

\* No edge leaves a component.
LEMMA ComponentClosed ==
  ASSUME NEW F \in SUBSET Edge, NEW v \in Vertex
  PROVE  Closed(Component(F, v), F)
<1>1. SUFFICES ASSUME NEW e \in F, NEW w \in e, w \in Component(F, v),
                      NEW x \in e
               PROVE  x \in Component(F, v)
  BY DEF Closed
<1>2. x \in Vertex
  BY EdgeInVertex
<1>3. SUFFICES ASSUME NEW S \in SUBSET Vertex, v \in S, Closed(S, F)
               PROVE  x \in S
  BY <1>2, ComponentMember
<1>4. w \in S
  BY <1>1, <1>3, ComponentMember
<1> QED
  BY <1>3, <1>4 DEF Closed

\* A component is part of every closed set it meets.
LEMMA ComponentLeast ==
  ASSUME NEW F, NEW S \in SUBSET Vertex, Closed(S, F), NEW v \in S
  PROVE  Component(F, v) \subseteq S
BY ComponentMember

\* What is not in a closed set is closed, too.
LEMMA ClosedComplement ==
  ASSUME NEW F \in SUBSET Edge, NEW S \in SUBSET Vertex, Closed(S, F)
  PROVE  Closed(Vertex \ S, F)
BY EdgeInVertex DEF Closed

\* Two vertices are in one tree whichever of them is asked about.
LEMMA ConnectedSymmetric ==
  ASSUME NEW F \in SUBSET Edge, NEW u \in Vertex, NEW v \in Vertex,
         Connected(F, u, v)
  PROVE  Connected(F, v, u)
<1>1. SUFFICES ASSUME NEW S \in SUBSET Vertex, v \in S, Closed(S, F), u \notin S
               PROVE  FALSE
  BY ComponentMember DEF Connected
<1>2. Closed(Vertex \ S, F) /\ u \in Vertex \ S
  BY <1>1, ClosedComplement
<1>3. v \in Vertex \ S
  BY <1>2, ComponentMember DEF Connected
<1> QED
  BY <1>1, <1>3

\* Who is in one tree with a vertex of a tree is in that tree.
LEMMA ConnectedTransitive ==
  ASSUME NEW F, NEW u, NEW v, NEW w, Connected(F, u, v), Connected(F, v, w)
  PROVE  Connected(F, u, w)
BY ComponentMember DEF Connected

\* Connected vertices have the same component.
LEMMA ComponentEqual ==
  ASSUME NEW F \in SUBSET Edge, NEW u \in Vertex, NEW v \in Component(F, u)
  PROVE  Component(F, v) = Component(F, u)
<1>1. v \in Vertex /\ Connected(F, u, v) /\ Connected(F, v, u)
  BY ComponentInVertex, ConnectedSymmetric DEF Connected
<1>2. ASSUME NEW w \in Component(F, v)
      PROVE  w \in Component(F, u)
  BY <1>1, <1>2, ConnectedTransitive DEF Connected
<1>3. ASSUME NEW w \in Component(F, u)
      PROVE  w \in Component(F, v)
  BY <1>1, <1>3, ConnectedTransitive DEF Connected
<1> QED
  BY <1>2, <1>3

\* More edges connect more.
LEMMA ComponentMonotone ==
  ASSUME NEW G, NEW F \in SUBSET G, NEW v
  PROVE  Component(F, v) \subseteq Component(G, v)
<1>1. \A S : Closed(S, G) => Closed(S, F)
  BY DEF Closed
<1> QED
  BY <1>1, ComponentMember

\* What closes a cycle closes one in every larger graph.
LEMMA JoinsMonotone ==
  ASSUME NEW G, NEW F \in SUBSET G, NEW e, Joins(F, e)
  PROVE  Joins(G, e)
BY ComponentMonotone DEF Joins, Connected

\* One direction between the ends of an edge is enough.
LEMMA JoinsPair ==
  ASSUME NEW F \in SUBSET Edge, NEW a \in Vertex, NEW b \in Vertex
  PROVE  Joins(F, {a, b}) <=> Connected(F, a, b)
<1>1. Connected(F, a, a) /\ Connected(F, b, b)
  BY ComponentSelf DEF Connected
<1> QED
  BY <1>1, ConnectedSymmetric DEF Joins

\* An edge of F joins two vertices of one tree.
LEMMA JoinsOwn ==
  ASSUME NEW F \in SUBSET Edge, NEW e \in F
  PROVE  Joins(F, e)
<1>1. SUFFICES ASSUME NEW u \in e, NEW v \in e
               PROVE  v \in Component(F, u)
  BY DEF Joins, Connected
<1>2. e \subseteq Vertex
  BY EdgeInVertex
<1> QED
  BY <1>2, ComponentMember DEF Closed

\* When e is not joined, a closed set tells its ends apart.
LEMMA Separation ==
  ASSUME NEW F \in SUBSET Edge, NEW a \in Vertex, NEW b \in Vertex,
         ~Joins(F, {a, b})
  PROVE  \E S \in SUBSET Vertex : Closed(S, F) /\ a \in S /\ b \notin S
BY JoinsPair, ComponentMember DEF Connected

\* When e is joined, none does.
LEMMA NoSeparation ==
  ASSUME NEW F, NEW S \in SUBSET Vertex, Closed(S, F), NEW a \in S,
         NEW b \in Vertex, Joins(F, {a, b})
  PROVE  b \in S
BY ComponentMember DEF Joins, Connected

-----------------------------------------------------------------------------
(* Forests.                                                                *)

\* A part of a forest is a forest.
LEMMA AcyclicSubset ==
  ASSUME NEW G, NEW F \in SUBSET G, Acyclic(G)
  PROVE  Acyclic(F)
<1>1. \A e : F \ {e} \subseteq G \ {e}
  OBVIOUS
<1> QED
  BY <1>1, JoinsMonotone DEF Acyclic

\* The edge that split two trees does not join its ends once it is cut.
LEMMA CutSeparates ==
  ASSUME NEW F, Acyclic(F), NEW e \in F
  PROVE  ~Joins(F \ {e}, e)
BY DEF Acyclic

\* An edge between two trees of a forest closes no cycle.  For another edge f,
\* a set S that told its ends apart without e can be changed outside or inside
\* the tree A of e's end a so that it keeps both ends of e together.
LEMMA AcyclicLink ==
  ASSUME NEW F \in SUBSET Edge, Acyclic(F), NEW e \in Edge, ~Joins(F, e)
  PROVE  Acyclic(F \cup {e})
<1>1. SUFFICES ASSUME NEW f \in F \cup {e}
               PROVE  ~Joins((F \cup {e}) \ {f}, f)
  BY DEF Acyclic
<1>2. CASE f = e
  <2>1. (F \cup {e}) \ {f} \in SUBSET F
    BY <1>2
  <2> QED
    BY <2>1, <1>2, JoinsMonotone
<1>3. CASE f # e
  <2> DEFINE H == F \ {f}
             G == (F \cup {e}) \ {f}
  <2>1. f \in F /\ H \in SUBSET Edge /\ G = H \cup {e} /\ f \in Edge
    BY <1>1, <1>3
  <2>2. PICK u \in Vertex, v \in Vertex : f = {u, v}
    BY <2>1, EdgeEnds
  <2>3. PICK S \in SUBSET Vertex : Closed(S, H) /\ u \in S /\ v \notin S
    BY <2>1, <2>2, CutSeparates, Separation
  <2>4. PICK a \in Vertex, b \in Vertex : e = {a, b}
    BY EdgeEnds
  <2> DEFINE A == Component(F, a)
  <2>5. /\ A \in SUBSET Vertex
        /\ a \in A
        /\ b \notin A
        /\ Closed(A, F)
    BY <2>4, ComponentInVertex, ComponentSelf, ComponentClosed, JoinsPair
       DEF Connected
  <2> SUFFICES \E T \in SUBSET Vertex :
                 Closed(T, G) /\ ((u \in T /\ v \notin T) \/ (v \in T /\ u \notin T))
    <3>1. Joins(G, f) => Joins(G, {u, v}) /\ Joins(G, {v, u})
      BY <2>2
    <3> QED
      BY <3>1, <2>1, <2>2, NoSeparation
  <2>6. CASE f \subseteq A
    <3>1. CASE a \in S
      <4> WITNESS (S \cap A) \cup (Vertex \ A) \in SUBSET Vertex
      <4> HIDE DEF A, H, G
      <4>1. Closed((S \cap A) \cup (Vertex \ A), H)
        BY <2>1, <2>3, <2>5, EdgeInVertex DEF Closed, H
      <4> QED
        BY <4>1, <3>1, <2>1, <2>2, <2>3, <2>4, <2>5, <2>6 DEF Closed
    <3>2. CASE a \notin S
      <4> WITNESS S \cap A \in SUBSET Vertex
      <4> HIDE DEF A, H, G
      <4>1. Closed(S \cap A, H)
        BY <2>1, <2>3, <2>5 DEF Closed, H
      <4> QED
        BY <4>1, <3>2, <2>1, <2>2, <2>3, <2>4, <2>5, <2>6 DEF Closed
    <3> QED
      BY <3>1, <3>2
  <2>7. CASE f \cap A = {}
    <3>1. CASE b \in S
      <4> A \in SUBSET Vertex
        BY <2>5
      <4> WITNESS S \cup A \in SUBSET Vertex
      <4> HIDE DEF A, H, G
      <4>1. Closed(S \cup A, H)
        BY <2>1, <2>3, <2>5 DEF Closed, H
      <4> QED
        BY <4>1, <3>1, <2>1, <2>2, <2>3, <2>4, <2>5, <2>7 DEF Closed
    <3>2. CASE b \notin S
      <4> WITNESS S \ A \in SUBSET Vertex
      <4> HIDE DEF A, H, G
      <4>1. Closed(S \ A, H)
        BY <2>1, <2>3, <2>5 DEF Closed, H
      <4> QED
        BY <4>1, <3>2, <2>1, <2>2, <2>3, <2>4, <2>5, <2>7 DEF Closed
    <3> QED
      BY <3>1, <3>2
  <2> QED
    BY <2>1, <2>5, <2>6, <2>7 DEF Closed
<1> QED
  BY <1>2, <1>3

-----------------------------------------------------------------------------
(* Paths.                                                                  *)

\* The path between the ends of an edge is made of edges of the forest.
LEMMA PathInForest ==
  ASSUME NEW F, NEW e
  PROVE  PathEdges(F, e) \subseteq F
BY DEF PathEdges

\* In a forest the edges of the path between the ends of e connect them by
\* themselves.  Otherwise the tree of a in the path alone, with whatever
\* hangs on it by other edges c of the forest, would be closed and without b.
LEMMA PathJoins ==
  ASSUME NEW F \in SUBSET Edge, Acyclic(F), NEW e \in Edge, Joins(F, e)
  PROVE  Joins(PathEdges(F, e), e)
<1> DEFINE P == PathEdges(F, e)
<1>1. PICK a \in Vertex, b \in Vertex : e = {a, b}
  BY EdgeEnds
<1>2. P \in SUBSET Edge /\ P \in SUBSET F
  BY PathInForest
<1> DEFINE A == Component(P, a)
<1>3. /\ A \in SUBSET Vertex
      /\ a \in A
      /\ Closed(A, P)
  BY <1>2, ComponentInVertex, ComponentSelf, ComponentClosed
<1>4. SUFFICES ASSUME b \notin A
               PROVE  FALSE
  BY <1>1, <1>2, JoinsPair DEF Connected
<1> DEFINE Leaving == {c \in F : ~(c \subseteq A) /\ c \cap A # {}}
           Z == {z \in Vertex :
                  z \in A \/ \E c \in Leaving : \E y \in c \ A :
                               z \in Component(F \ {c}, y)}
<1>5. ASSUME NEW c \in Leaving, NEW y \in c \ A
      PROVE  /\ Component(F \ {c}, y) \in SUBSET Vertex
             /\ Closed(Component(F \ {c}, y), F \ {c})
             /\ y \in Component(F \ {c}, y)
             /\ b \notin Component(F \ {c}, y)
  <2> DEFINE C == Component(F \ {c}, y)
  <2>1. c \in F /\ c \in Edge /\ c \notin P
    BY <1>3, <1>5 DEF Closed
  <2>2. F \ {c} \in SUBSET Edge /\ P \in SUBSET (F \ {c})
    BY <1>2, <2>1
  <2>3. y \in Vertex
    BY <1>5, <2>1, EdgeInVertex
  <2>4. C \in SUBSET Vertex /\ Closed(C, F \ {c}) /\ y \in C
    BY <2>2, <2>3, ComponentInVertex, ComponentClosed, ComponentSelf
  <2>5. PICK x \in c : x \in A
    BY <1>5
  <2>6. c = {x, y} /\ x \in Vertex
    BY <1>5, <2>1, <2>5, EdgeEnds, EdgeInVertex
  <2>7. x \notin C
    <3>1. ~Joins(F \ {c}, {y, x})
      BY <2>1, <2>6, CutSeparates
    <3> QED
      BY <3>1, <2>2, <2>3, <2>6, JoinsPair DEF Connected
  <2>8. x \in Component(F \ {c}, a)
    BY <2>2, <2>5, ComponentMonotone
  <2>9. a \notin C
    <3>1. ASSUME a \in C
          PROVE  x \in C
      BY <3>1, <2>8, ConnectedTransitive DEF Connected
    <3> QED
      BY <3>1, <2>7
  <2>10. Joins(F \ {c}, e)
    BY <2>1 DEF PathEdges
  <2>11. b \notin C
    <3>1. ASSUME b \in C
          PROVE  a \in C
      BY <3>1, <2>10, <1>1, ConnectedTransitive DEF Connected, Joins
    <3> QED
      BY <3>1, <2>9
  <2> QED
    BY <2>4, <2>11
<1>6. Z \in SUBSET Vertex /\ a \in Z /\ b \notin Z
  <2> HIDE DEF A, Leaving
  <2> QED
    BY <1>3, <1>4, <1>5
<1>7. Closed(Z, F)
  <2>1. SUFFICES ASSUME NEW f \in F, NEW w \in f, w \in Z
                 PROVE  f \subseteq Z
    BY DEF Closed
  <2> HIDE DEF A
  <2>2. f \subseteq Vertex
    BY <2>1, EdgeInVertex
  <2>3. CASE f \in Leaving
    <3> HIDE DEF Leaving
    <3>1. \A y \in f \ A : y \in Component(F \ {f}, y)
      BY <2>3, <1>5
    <3> QED
      BY <3>1, <2>3, <2>2
  <2>4. CASE f \subseteq A
    BY <2>4, <2>2
  <2>5. CASE f \cap A = {}
    <3>1. PICK c \in Leaving : \E y \in c \ A : w \in Component(F \ {c}, y)
      BY <2>1, <2>5
    <3>2. PICK y \in c \ A : w \in Component(F \ {c}, y)
      BY <3>1
    <3>3. f \in F \ {c}
      BY <2>5
    <3>4. f \subseteq Component(F \ {c}, y)
      BY <3>1, <3>2, <3>3, <2>1, <1>5 DEF Closed
    <3> HIDE DEF Leaving
    <3> QED
      BY <3>1, <3>2, <3>4, <2>2
  <2> QED
    BY <2>1, <2>3, <2>4, <2>5
<1> QED
  <2> HIDE DEF Z
  <2> QED
    BY <1>1, <1>6, <1>7, NoSeparation

\* When the edge e closes a cycle with c on it, exchanging c for e disconnects
\* nothing.  A set S closed after the exchange and split by c, and a set T that
\* tells the ends of e apart without c, would differ in a set closed in F.
LEMMA ExchangeConnects ==
  ASSUME NEW F \in SUBSET Edge, NEW e \in Edge, Joins(F, e),
         NEW c \in PathEdges(F, e), NEW v \in Vertex
  PROVE  Component(F, v) \subseteq Component((F \ {c}) \cup {e}, v)
<1> DEFINE G == (F \ {c}) \cup {e}
<1>1. PICK a \in Vertex, b \in Vertex : e = {a, b}
  BY EdgeEnds
<1>2. c \in F /\ c \in Edge /\ ~Joins(F \ {c}, {a, b}) /\ F \ {c} \in SUBSET Edge
  BY <1>1 DEF PathEdges
<1>3. PICK x \in Vertex, y \in Vertex : c = {x, y}
  BY <1>2, EdgeEnds
<1>4. PICK T \in SUBSET Vertex : Closed(T, F \ {c}) /\ a \in T /\ b \notin T
  BY <1>2, Separation
<1>5. ASSUME NEW S \in SUBSET Vertex, Closed(S, G)
      PROVE  Closed(S, F)
  <2>1. Closed(S, F \ {c}) /\ (a \in S <=> b \in S)
    BY <1>1, <1>5 DEF Closed
  <2>2. SUFFICES ASSUME ~(x \in S <=> y \in S)
                 PROVE  FALSE
    BY <1>3, <2>1 DEF Closed
  <2> DEFINE Z == (S \ T) \cup (T \ S)
  <2>3. Z \in SUBSET Vertex /\ ~(a \in Z <=> b \in Z)
    BY <1>4, <2>1
  <2>4. Closed(Z, F \ {c})
    BY <1>4, <2>1 DEF Closed
  <2>5. x \in T <=> y \notin T
    <3>1. ASSUME x \in T <=> y \in T
          PROVE  Closed(T, F)
      BY <3>1, <1>3, <1>4 DEF Closed
    <3> QED
      BY <3>1, <1>1, <1>4, NoSeparation
  <2>6. Closed(Z, F)
    BY <1>3, <2>2, <2>4, <2>5 DEF Closed
  <2> HIDE DEF Z
  <2>7. Joins(F, {a, b}) /\ Joins(F, {b, a})
    BY <1>1
  <2> QED
    BY <2>3, <2>6, <2>7, NoSeparation
<1> QED
  BY <1>5, ComponentMember

-----------------------------------------------------------------------------
(* Trees that grow from forest to forest.                                  *)

\* An edge of the graph G leaves v's tree in F.
Incomplete(G, F, v) == Boundary(G, Component(F, v)) # {}

\* f[0] .. f[top] are parts of G, each a part of the next, in which every tree
\* that an edge of G leaves has grown.
Growing(f, top, G) ==
  /\ \A t \in 0 .. top : f[t] \subseteq G
  /\ \A t \in 0 .. top - 1 :
       /\ f[t] \subseteq f[t + 1]
       /\ \A v \in Vertex :
            Incomplete(G, f[t], v) => Component(f[t], v) # Component(f[t + 1], v)

\* A set that no edge leaves is closed.
LEMMA NoBoundary ==
  ASSUME NEW G \in SUBSET Edge, NEW C
  PROVE  Boundary(G, C) = {} <=> Closed(C, G)
BY DEF Boundary, Closed

\* What a tree that an edge leaves is made of in a smaller forest: trees that an
\* edge leaves.  A tree that none leaves would be all that is connected.
LEMMA IncompleteBelow ==
  ASSUME NEW G \in SUBSET Edge, NEW F \in SUBSET G, NEW E \in SUBSET F,
         NEW v \in Vertex, Incomplete(G, F, v), NEW u \in Component(F, v)
  PROVE  /\ u \in Vertex
         /\ Incomplete(G, E, u)
         /\ Component(E, u) \subseteq Component(F, v)
<1> DEFINE D == Component(E, u)
           C == Component(F, v)
<1>1. E \in SUBSET Edge /\ F \in SUBSET Edge
  OBVIOUS
<1>2. u \in Vertex
  BY ComponentInVertex
<1>3. Component(F, u) = C
  BY <1>1, ComponentEqual
<1>4. D \subseteq C
  BY <1>1, <1>3, ComponentMonotone
<1>5. ASSUME Boundary(G, D) = {}
      PROVE  FALSE
  <2>1. Closed(D, G)
    BY <1>1, <1>5, NoBoundary
  <2>2. Closed(D, F)
    BY <1>1, <2>1 DEF Closed
  <2>3. u \in D /\ D \in SUBSET Vertex
    BY <1>2, ComponentSelf, ComponentInVertex
  <2>4. C \subseteq D
    BY <1>3, <2>2, <2>3, ComponentLeast
  <2>5. D = C
    BY <1>4, <2>4
  <2> QED
    BY <1>5, <2>5, Zenon DEF Incomplete
<1> QED
  BY <1>2, <1>4, <1>5 DEF Incomplete

\* Two trees of a forest that are not one have no vertex in common.
LEMMA TreesApart ==
  ASSUME NEW F \in SUBSET Edge, NEW u \in Vertex, NEW w \in Vertex,
         w \notin Component(F, u)
  PROVE  Component(F, u) \cap Component(F, w) = {}
<1> SUFFICES ASSUME NEW x \in Component(F, u), x \in Component(F, w)
             PROVE  FALSE
  OBVIOUS
<1>1. Component(F, x) = Component(F, u) /\ Component(F, x) = Component(F, w)
  BY ComponentEqual
<1> QED
  BY <1>1, ComponentSelf

\* A set that holds two trees that are apart is at least as large as both.
LEMMA TwoTrees ==
  ASSUME NEW C \in SUBSET Vertex, NEW D \in SUBSET C, NEW E \in SUBSET C,
         D \cap E = {}, NEW m \in Nat, m <= Cardinality(D), m <= Cardinality(E)
  PROVE  2 * m <= Cardinality(C)
<1>1. IsFiniteSet(C) /\ Cardinality(C) \in Nat
  BY VertexAssumption, FS_Subset, FS_CardinalityType
<1>2. /\ IsFiniteSet(D) /\ Cardinality(D) \in Nat
      /\ IsFiniteSet(E) /\ Cardinality(E) \in Nat
  BY <1>1, FS_Subset, FS_CardinalityType
<1>3. Cardinality(D \cup E) = Cardinality(D) + Cardinality(E)
  <2>1. Cardinality(D \cap E) = 0
    BY FS_EmptySet
  <2> QED
    BY <1>2, <2>1, FS_Union
<1>4. D \cup E \in SUBSET C
  OBVIOUS
<1>5. Cardinality(D \cup E) <= Cardinality(C)
  BY <1>1, <1>4, FS_Subset
<1> QED
  BY <1>1, <1>2, <1>3, <1>5

\* A tree that an edge leaves and that has grown is more than one tree of the
\* smaller forest, and an edge leaves each of those.
LEMMA Doubling ==
  ASSUME NEW G \in SUBSET Edge, NEW F \in SUBSET G, NEW E \in SUBSET F, NEW m \in Nat,
         \A u \in Vertex : Incomplete(G, E, u) => m <= Cardinality(Component(E, u)),
         \A u \in Vertex : Incomplete(G, E, u) => Component(E, u) # Component(F, u),
         NEW v \in Vertex, Incomplete(G, F, v)
  PROVE  2 * m <= Cardinality(Component(F, v))
<1> DEFINE D == Component(E, v)
           C == Component(F, v)
<1>1. v \in C /\ C \in SUBSET Vertex
  BY ComponentSelf, ComponentInVertex
<1>2. Incomplete(G, E, v) /\ D \subseteq C
  BY <1>1, IncompleteBelow
<1>3. D # C
  BY <1>2
<1>4. PICK w \in C : w \notin D
  BY <1>2, <1>3
<1>5. w \in Vertex /\ Incomplete(G, E, w) /\ Component(E, w) \subseteq C
  BY <1>4, IncompleteBelow
<1>6. D \cap Component(E, w) = {}
  <2>1. E \in SUBSET Edge
    OBVIOUS
  <2> QED
    BY <1>4, <1>5, <2>1, TreesApart
<1>7. m <= Cardinality(D) /\ m <= Cardinality(Component(E, w))
  BY <1>2, <1>5
<1> QED
  BY <1>1, <1>2, <1>5, <1>6, <1>7, TwoTrees

\* In f[t] a tree that an edge leaves has at least 2^t vertices.
LEMMA TreesGrow ==
  ASSUME NEW f, NEW top \in Nat, NEW G \in SUBSET Edge, Growing(f, top, G)
  PROVE  \A t \in 0 .. top : \A v \in Vertex :
           Incomplete(G, f[t], v) => 2^t <= Cardinality(Component(f[t], v))
<1> DEFINE Large(t) == \A v \in Vertex :
                         Incomplete(G, f[t], v) => 2^t <= Cardinality(Component(f[t], v))
           T == {t \in Nat : t \in 0 .. top => Large(t)}
<1>1. 0 \in T
  <2>1. ASSUME NEW v \in Vertex PROVE 1 <= Cardinality(Component(f[0], v))
    <3>1. v \in Component(f[0], v) /\ IsFiniteSet(Component(f[0], v))
      BY ComponentSelf, ComponentInVertex, VertexAssumption, FS_Subset
    <3>2. Cardinality(Component(f[0], v)) \in Nat \ {0}
      BY <3>1, FS_CardinalityType, FS_EmptySet
    <3> QED
      BY <3>2
  <2>2. 2^0 = 1
    BY PowerOfTwo
  <2> QED
    BY <2>1, <2>2, Zenon
<1>2. ASSUME NEW t \in Nat, t \in T
      PROVE  t + 1 \in T
  <2> SUFFICES ASSUME t + 1 \in 0 .. top
               PROVE  Large(t + 1)
    OBVIOUS
  <2>1. t \in 0 .. top /\ t \in 0 .. top - 1
    OBVIOUS
  <2>2. PICK m \in Nat : m = 2^t /\ 2^(t + 1) = 2 * m
    BY PowerOfTwo, Zenon
  <2>3. PICK E, F : E = f[t] /\ F = f[t + 1]
    OBVIOUS
  <2>4. /\ F \in SUBSET G /\ E \in SUBSET F
        /\ \A u \in Vertex : Incomplete(G, E, u) => Component(E, u) # Component(F, u)
    BY <2>1, <2>3 DEF Growing
  <2>5. \A u \in Vertex : Incomplete(G, E, u) => m <= Cardinality(Component(E, u))
    BY <1>2, <2>1, <2>2, <2>3, Zenon
  <2>6. \A v \in Vertex : Incomplete(G, F, v) => 2 * m <= Cardinality(Component(F, v))
    BY <2>4, <2>5, Doubling
  <2> QED
    BY <2>2, <2>3, <2>6, Zenon
<1> HIDE DEF T
<1>3. \A t \in Nat : t \in T
  BY <1>1, <1>2, Induction, Zenon
<1> QED
  <2>1. \A t \in 0 .. top : t \in Nat
    OBVIOUS
  <2> QED
    BY <1>3, <2>1, Zenon DEF T

\* The last forest connects what the graph connects: a tree that an edge leaves,
\* and the tree that the edge goes to, would be 2^(top + 1) vertices.
LEMMA GrownConnect ==
  ASSUME NEW f, NEW top \in Nat, NEW G \in SUBSET Edge, Growing(f, top, G),
         Cardinality(Vertex) < 2^(top + 1), NEW v \in Vertex
  PROVE  Component(f[top], v) = Component(G, v)
<1> DEFINE F == f[top]
           C == Component(F, v)
<1>0. /\ top \in 0 .. top /\ F \subseteq G /\ F \in SUBSET Edge
  BY DEF Growing
<1>1. ASSUME Incomplete(G, F, v) PROVE FALSE
  <2>1. PICK e \in G : ~(e \subseteq C) /\ e \cap C # {}
    BY <1>1 DEF Incomplete, Boundary
  <2>2. PICK w \in e : w \notin C
    BY <2>1
  <2>3. w \in Vertex
    BY EdgeInVertex
  <2> DEFINE D == Component(F, w)
  <2>4. C \cap D = {} /\ C \in SUBSET Vertex /\ D \in SUBSET Vertex
    BY <1>0, <2>2, <2>3, TreesApart, ComponentInVertex
  <2>5. Incomplete(G, F, w)
    <3>1. w \in D
      BY <2>3, ComponentSelf
    <3> QED
      BY <2>1, <2>2, <2>4, <3>1 DEF Incomplete, Boundary
  <2>6. PICK m \in Nat : m = 2^top /\ 2^(top + 1) = 2 * m
    BY PowerOfTwo, Zenon
  <2>7. m <= Cardinality(C) /\ m <= Cardinality(D)
    BY <1>0, <1>1, <2>3, <2>5, <2>6, TreesGrow, Zenon
  <2>8. 2 * m <= Cardinality(Vertex)
    BY <2>4, <2>6, <2>7, TwoTrees
  <2>9. Cardinality(Vertex) < 2 * m
    BY <2>6, Zenon
  <2>10. Cardinality(Vertex) \in Nat
    BY VertexAssumption, FS_CardinalityType
  <2> QED
    BY <2>8, <2>9, <2>10
<1>2. Closed(C, G)
  BY <1>1, NoBoundary DEF Incomplete
<1>3. Component(G, v) \subseteq C
  BY <1>2, ComponentSelf, ComponentInVertex, ComponentLeast
<1>4. C \subseteq Component(G, v)
  BY <1>0, ComponentMonotone
<1> QED
  BY <1>3, <1>4

-----------------------------------------------------------------------------
(* Answers.                                                                *)

\* The vertices asked about are those that the answer divides.
LEMMA BlocksCover ==
  ASSUME NEW F, NEW Q \in SUBSET Vertex
  PROVE  UNION Blocks(F, Q) = Q
BY ComponentSelf DEF Blocks

\* Forests that connect the same vertices answer alike.
LEMMA BlocksSame ==
  ASSUME NEW F, NEW G, \A v \in Vertex : Component(F, v) = Component(G, v),
         NEW Q \in SUBSET Vertex
  PROVE  Blocks(F, Q) = Blocks(G, Q)
BY DEF Blocks

=============================================================================
