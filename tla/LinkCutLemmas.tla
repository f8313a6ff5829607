--------------------------- MODULE LinkCutLemmas ---------------------------
(***************************************************************************)
(* The splay trees of the link-cut tree, for every set of vertices.  A     *)
(* layout says which vertices are on which path, in which order, and which *)
(* interval of its path each subtree holds; the reversals that lie above a *)
(* node are a flag of it.  Rotations and reversals keep the paths of a     *)
(* layout and change its intervals and flags alone, so that splay is       *)
(* followed without induction over trees: subtrees are intervals of        *)
(* numbers.  The lemmas say what every method of a node does to the        *)
(* pointers, to the maxima, to the ends of a path and to its preferred     *)
(* edges, up to the split of a path.                                       *)
(***************************************************************************)
EXTENDS LinkCutTrees, ForestLemmas

-----------------------------------------------------------------------------
(* Layouts.                                                                *)

\* What the array nodes may hold.
Nodes == [Vertex -> Node]
\* What a pointer may hold.
Some == Vertex \cup {NoVertex}

\* For each vertex the head of its path, its position on the path, the
\* positions lo to hi of its subtree in the splay tree, and whether the
\* reversals from the root down to it turn it round.
Layouts ==
  [hd : [Vertex -> Vertex], pos : [Vertex -> Int],
   lo : [Vertex -> Int], hi : [Vertex -> Int], flip : [Vertex -> BOOLEAN]]

\* u is in the subtree of v.
Within(L, u, v) == L.hd[u] = L.hd[v] /\ L.lo[v] <= L.pos[u] /\ L.pos[u] <= L.hi[v]

\* Subtrees are disjoint, or one is in the other and does not hold its root.
Apart(L, u, v) == L.hd[u] # L.hd[v] \/ L.hi[u] < L.lo[v] \/ L.hi[v] < L.lo[u]
Inside(L, u, v) ==
  /\ L.hd[u] = L.hd[v] /\ L.lo[v] <= L.lo[u] /\ L.hi[u] <= L.hi[v]
  /\ ~Within(L, v, u)

\* The child on the side of the head, and the one on the side of the tail.
Early(n, L, v) == IF L.flip[v] THEN n[v].right ELSE n[v].left
Late(n, L, v) == IF L.flip[v] THEN n[v].left ELSE n[v].right

\* c is the child of v whose subtree holds the positions lo to hi, if there are any.
ChildOf(n, L, v, c, lo, hi) ==
  IF c = NoVertex THEN lo = hi + 1
  ELSE /\ n[c].parent = v /\ L.hd[c] = L.hd[v]
       /\ L.lo[c] = lo /\ L.hi[c] = hi
       /\ L.flip[c] = (L.flip[v] # n[c].reversed)

\* A path takes positions next to one another, one for each vertex, and subtrees are
\* intervals of them that are disjoint or nested.
Spans(L) ==
  /\ \A v \in Vertex : L.lo[v] <= L.pos[v] /\ L.pos[v] <= L.hi[v]
  /\ \A u, v \in Vertex : L.hd[u] = L.hd[v] /\ L.pos[u] = L.pos[v] => u = v
  /\ \A u, v \in Vertex : u # v => Apart(L, u, v) \/ Inside(L, u, v) \/ Inside(L, v, u)
  /\ \A v \in Vertex, i \in Int : L.lo[v] <= i /\ i <= L.hi[v] =>
       \E u \in Vertex : L.hd[u] = L.hd[v] /\ L.pos[u] = i
  /\ \A v \in Vertex : L.hd[L.hd[v]] = L.hd[v]

\* Each node has the children that its interval asks for.
Children(n, L) ==
  \A v \in Vertex : /\ ChildOf(n, L, v, Early(n, L, v), L.lo[v], L.pos[v] - 1)
                    /\ ChildOf(n, L, v, Late(n, L, v), L.pos[v] + 1, L.hi[v])

\* A node without a parent holds its whole path and starts it; any other is a child
\* of its parent.
Parents(n, L) ==
  \A v \in Vertex :
    IF n[v].parent = NoVertex
    THEN /\ L.flip[v] = n[v].reversed
         /\ \A u \in Vertex : L.hd[u] = L.hd[v] => Within(L, u, v)
         /\ L.pos[L.hd[v]] = L.lo[v]
    ELSE v = n[n[v].parent].left \/ v = n[n[v].parent].right

\* The pointers left, right, parent and the flags reversed are splay trees over the
\* paths of the layout L.
Shape(n, L) == n \in Nodes /\ L \in Layouts /\ Spans(L) /\ Children(n, L) /\ Parents(n, L)

-----------------------------------------------------------------------------
(* What the methods of a node do to it.                                    *)

\* The heavier of two pairs is a pair.
LEMMA HeavierType ==
  ASSUME NEW a \in (Weight \cup {0}) \X (Edge \cup {NoEdge}),
         NEW b \in (Weight \cup {0}) \X (Edge \cup {NoEdge})
  PROVE  Heavier(a, b) \in (Weight \cup {0}) \X (Edge \cup {NoEdge})
BY DEF Heavier

\* The fields of a node have their types.
LEMMA NodeFields ==
  ASSUME NEW n \in Nodes, NEW v \in Vertex
  PROVE  /\ n[v] \in Node
         /\ n[v].left \in Some /\ n[v].right \in Some /\ n[v].parent \in Some
         /\ n[v].dparent \in Some /\ n[v].head \in Vertex /\ n[v].tail \in Vertex
         /\ n[v].reversed \in BOOLEAN
         /\ n[v].preferred \in [1 .. 2 -> Edge \cup {NoEdge}]
         /\ n[v].preferred[1] \in Edge \cup {NoEdge} /\ n[v].preferred[2] \in Edge \cup {NoEdge}
         /\ n[v].max \in (Weight \cup {0}) \X (Edge \cup {NoEdge})
         /\ DOMAIN n[v].edges \subseteq Edge
         /\ \A e \in DOMAIN n[v].edges : n[v].edges[e] \in Weight
<1>1. n[v] \in Node
  BY DEF Nodes
<1>2. /\ n[v].left \in Some /\ n[v].right \in Some /\ n[v].parent \in Some
      /\ n[v].dparent \in Some /\ n[v].head \in Vertex /\ n[v].tail \in Vertex
      /\ n[v].reversed \in BOOLEAN
      /\ n[v].preferred \in [1 .. 2 -> Edge \cup {NoEdge}]
      /\ n[v].max \in (Weight \cup {0}) \X (Edge \cup {NoEdge})
      /\ n[v].edges \in UNION {[F -> Weight] : F \in SUBSET Edge}
  BY <1>1 DEF Node, Some
<1>3. 1 \in 1 .. 2 /\ 2 \in 1 .. 2
  OBVIOUS
<1>4. n[v].preferred[1] \in Edge \cup {NoEdge} /\ n[v].preferred[2] \in Edge \cup {NoEdge}
  BY <1>2, <1>3
<1>5. PICK F \in SUBSET Edge : n[v].edges \in [F -> Weight]
  BY <1>2
<1>6. DOMAIN n[v].edges = F /\ \A e \in F : n[v].edges[e] \in Weight
  BY <1>5
<1> QED
  BY <1>1, <1>2, <1>4, <1>6

\* What rebuild_max finds is a pair.
LEMMA MaxOfType ==
  ASSUME NEW n \in Nodes, NEW v \in Vertex
  PROVE  MaxOf(n, v) \in (Weight \cup {0}) \X (Edge \cup {NoEdge})
<1> DEFINE M == (Weight \cup {0}) \X (Edge \cup {NoEdge})
           own(e) == IF e \in DOMAIN n[v].edges THEN <<n[v].edges[e], e>> ELSE None
           below(c) == IF c = NoVertex THEN None ELSE n[c].max
<1>1. None \in M
  BY DEF None
<1>2. \A e : own(e) \in M
  BY <1>1, NodeFields
<1>3. \A c \in Some : below(c) \in M
  BY <1>1, NodeFields DEF Some
<1>4. n[v].left \in Some /\ n[v].right \in Some
  BY NodeFields
<1> HIDE DEF own, below
<1>5. Heavier(None, own(n[v].preferred[1])) \in M
  BY <1>1, <1>2, HeavierType
<1>6. Heavier(Heavier(None, own(n[v].preferred[1])), own(n[v].preferred[2])) \in M
  BY <1>5, <1>2, HeavierType
<1>7. Heavier(Heavier(Heavier(None, own(n[v].preferred[1])), own(n[v].preferred[2])),
              below(n[v].left)) \in M
  BY <1>6, <1>3, <1>4, HeavierType
<1>8. Heavier(Heavier(Heavier(Heavier(None, own(n[v].preferred[1])), own(n[v].preferred[2])),
              below(n[v].left)), below(n[v].right)) \in M
  BY <1>7, <1>3, <1>4, HeavierType
<1> QED
  BY <1>8 DEF MaxOf, own, below

\* What one field of one node is set to.
LEMMA RebuildMaxIs ==
  ASSUME NEW n \in Nodes, NEW v \in Vertex
  PROVE  /\ RebuildMax(n, v) \in Nodes
         /\ \A x \in Vertex \ {v} : RebuildMax(n, v)[x] = n[x]
         /\ RebuildMax(n, v)[v] = [n[v] EXCEPT !.max = MaxOf(n, v)]
<1>1. n[v] \in Node /\ MaxOf(n, v) \in (Weight \cup {0}) \X (Edge \cup {NoEdge})
  BY NodeFields, MaxOfType
<1>2. [n[v] EXCEPT !.max = MaxOf(n, v)] \in Node
  BY <1>1 DEF Node
<1>3. RebuildMax(n, v) = [n EXCEPT ![v] = [n[v] EXCEPT !.max = MaxOf(n, v)]]
  BY DEF RebuildMax
<1> QED
  BY <1>2, <1>3 DEF Nodes

\* The maximum depends on the node and on its children's.
LEMMA MaxOfSame ==
  ASSUME NEW n, NEW m, NEW v,
         m[v].left = n[v].left, m[v].right = n[v].right,
         m[v].preferred = n[v].preferred, m[v].edges = n[v].edges,
         n[v].left # NoVertex => m[n[v].left].max = n[n[v].left].max,
         n[v].right # NoVertex => m[n[v].right].max = n[n[v].right].max
  PROVE  MaxOf(m, v) = MaxOf(n, v)
<1> DEFINE ownN(e) == IF e \in DOMAIN n[v].edges THEN <<n[v].edges[e], e>> ELSE None
           ownM(e) == IF e \in DOMAIN m[v].edges THEN <<m[v].edges[e], e>> ELSE None
           belowN(c) == IF c = NoVertex THEN None ELSE n[c].max
           belowM(c) == IF c = NoVertex THEN None ELSE m[c].max
<1>1. \A e : ownN(e) = ownM(e)
  OBVIOUS
<1>2. belowM(m[v].left) = belowN(n[v].left) /\ belowM(m[v].right) = belowN(n[v].right)
  OBVIOUS
<1>3. MaxOf(n, v) = Heavier(Heavier(Heavier(Heavier(None, ownN(n[v].preferred[1])),
         ownN(n[v].preferred[2])), belowN(n[v].left)), belowN(n[v].right))
  BY DEF MaxOf
<1>4. MaxOf(m, v) = Heavier(Heavier(Heavier(Heavier(None, ownM(m[v].preferred[1])),
         ownM(m[v].preferred[2])), belowM(m[v].left)), belowM(m[v].right))
  BY DEF MaxOf
<1> HIDE DEF ownN, ownM, belowN, belowM
<1> QED
  BY <1>1, <1>2, <1>3, <1>4

\* What no splaying changes.
Kept(n, m) ==
  \A x \in Vertex : /\ m[x].dparent = n[x].dparent
                    /\ m[x].preferred = n[x].preferred /\ m[x].edges = n[x].edges

\* What is changed only where a splay tree gets a new root.
SameEnds(n, m) == \A x \in Vertex : m[x].head = n[x].head /\ m[x].tail = n[x].tail

\* m is n after v took c for its child on a side.
Linking(n, v, side, c, m) ==
  /\ m \in Nodes
  /\ Kept(n, m) /\ SameEnds(n, m)
  /\ \A x \in Vertex :
       /\ m[x].left = IF x = v /\ side = "left" THEN c ELSE n[x].left
       /\ m[x].right = IF x = v /\ side = "right" THEN c ELSE n[x].right
       /\ m[x].parent = IF x = c THEN v ELSE n[x].parent
       /\ m[x].reversed = n[x].reversed
       /\ x # v => m[x].max = n[x].max
       /\ x \notin {v, c} => m[x] = n[x]
  /\ m[v].left # v /\ m[v].right # v => m[v].max = MaxOf(m, v)

\* link_left and link_right set a child, and rebuild the maximum.
LEMMA LinkChildIs ==
  ASSUME NEW n \in Nodes, NEW v \in Vertex, NEW side \in {"left", "right"}, NEW c \in Some
  PROVE  Linking(n, v, side, c, LinkChild(n, v, side, c))
<1> DEFINE a == IF c = NoVertex THEN n ELSE [n EXCEPT ![c].parent = v]
           b == [a EXCEPT ![v][side] = c]
           m == LinkChild(n, v, side, c)
<1>0. m = RebuildMax(b, v) /\ NoVertex \notin Vertex
  BY LctAssumption DEF LinkChild
<1>1. /\ a \in Nodes
      /\ \A x \in Vertex : a[x] = IF x = c THEN [n[x] EXCEPT !.parent = v] ELSE n[x]
  <2>1. CASE c = NoVertex
    BY <2>1, <1>0
  <2>2. CASE c # NoVertex
    <3>1. c \in Vertex /\ n[c] \in Node
      BY <2>2, NodeFields DEF Some
    <3>2. [n[c] EXCEPT !.parent = v] \in Node
      BY <3>1 DEF Node
    <3>3. a = [n EXCEPT ![c] = [n[c] EXCEPT !.parent = v]]
      BY <2>2
    <3> QED
      BY <3>1, <3>2, <3>3 DEF Nodes
  <2> QED
    BY <2>1, <2>2
<1>2. /\ b \in Nodes
      /\ \A x \in Vertex \ {v} : b[x] = a[x]
      /\ side = "left" => b[v] = [a[v] EXCEPT !.left = c]
      /\ side = "right" => b[v] = [a[v] EXCEPT !.right = c]
  <2> HIDE DEF a
  <2>1. a[v] \in Node
    BY <1>1, NodeFields
  <2>2. [a[v] EXCEPT !.left = c] \in Node /\ [a[v] EXCEPT !.right = c] \in Node
    BY <2>1 DEF Node, Some
  <2>3. CASE side = "left"
    <3>1. b = [a EXCEPT ![v] = [a[v] EXCEPT !.left = c]]
      BY <2>3
    <3> QED
      BY <3>1, <2>2, <2>3, <1>1 DEF Nodes
  <2>4. CASE side = "right"
    <3>1. b = [a EXCEPT ![v] = [a[v] EXCEPT !.right = c]]
      BY <2>4
    <3> QED
      BY <3>1, <2>2, <2>4, <1>1 DEF Nodes
  <2> QED
    BY <2>3, <2>4
<1> HIDE DEF a, b, m
<1>3. /\ m \in Nodes
      /\ \A x \in Vertex \ {v} : m[x] = b[x]
      /\ m[v] = [b[v] EXCEPT !.max = MaxOf(b, v)]
  BY <1>0, <1>2, RebuildMaxIs
<1>4. \A x \in Vertex : n[x] \in Node /\ a[x] \in Node /\ b[x] \in Node
  BY <1>1, <1>2, NodeFields
<1>5. ASSUME NEW x \in Vertex
      PROVE  /\ b[x].left = IF x = v /\ side = "left" THEN c ELSE n[x].left
             /\ b[x].right = IF x = v /\ side = "right" THEN c ELSE n[x].right
             /\ b[x].parent = IF x = c THEN v ELSE n[x].parent
             /\ b[x].reversed = n[x].reversed
             /\ b[x].max = n[x].max
             /\ b[x].dparent = n[x].dparent
             /\ b[x].preferred = n[x].preferred /\ b[x].edges = n[x].edges
             /\ b[x].head = n[x].head /\ b[x].tail = n[x].tail
             /\ x \notin {v, c} => b[x] = n[x]
  <2>1. /\ a[x].left = n[x].left /\ a[x].right = n[x].right
        /\ a[x].parent = IF x = c THEN v ELSE n[x].parent
        /\ a[x].reversed = n[x].reversed /\ a[x].max = n[x].max
        /\ a[x].dparent = n[x].dparent
        /\ a[x].preferred = n[x].preferred /\ a[x].edges = n[x].edges
        /\ a[x].head = n[x].head /\ a[x].tail = n[x].tail
    <3>1. n[x] \in Node /\ (IF x = c THEN a[x] = [n[x] EXCEPT !.parent = v] ELSE a[x] = n[x])
      BY <1>1, <1>4
    <3>2. CASE x = c
      BY <3>1, <3>2 DEF Node
    <3>3. CASE x # c
      BY <3>1, <3>3
    <3> QED
      BY <3>2, <3>3
  <2>2. CASE x # v
    BY <2>1, <2>2, <1>1, <1>2
  <2>3. CASE x = v /\ side = "left"
    BY <2>1, <2>3, <1>2, <1>4 DEF Node
  <2>4. CASE x = v /\ side = "right"
    BY <2>1, <2>4, <1>2, <1>4 DEF Node
  <2> QED
    BY <2>2, <2>3, <2>4
<1>6. /\ m[v].left = b[v].left /\ m[v].right = b[v].right /\ m[v].parent = b[v].parent
      /\ m[v].reversed = b[v].reversed /\ m[v].dparent = b[v].dparent
      /\ m[v].preferred = b[v].preferred /\ m[v].edges = b[v].edges
      /\ m[v].head = b[v].head /\ m[v].tail = b[v].tail
      /\ m[v].max = MaxOf(b, v)
  BY <1>3, <1>4 DEF Node
<1>7. ASSUME NEW x \in Vertex
      PROVE  /\ m[x].left = IF x = v /\ side = "left" THEN c ELSE n[x].left
             /\ m[x].right = IF x = v /\ side = "right" THEN c ELSE n[x].right
             /\ m[x].parent = IF x = c THEN v ELSE n[x].parent
             /\ m[x].reversed = n[x].reversed
             /\ m[x].dparent = n[x].dparent
             /\ m[x].preferred = n[x].preferred /\ m[x].edges = n[x].edges
             /\ m[x].head = n[x].head /\ m[x].tail = n[x].tail
             /\ x # v => m[x].max = n[x].max
             /\ x \notin {v, c} => m[x] = n[x]
  <2>1. CASE x = v
    BY <2>1, <1>5, <1>6
  <2>2. CASE x # v
    <3>1. m[x] = b[x]
      BY <2>2, <1>3
    <3> QED
      BY <3>1, <2>2, <1>5
  <2> QED
    BY <2>1, <2>2
<1>8. ASSUME m[v].left # v, m[v].right # v
      PROVE  m[v].max = MaxOf(m, v)
  <2>1. m[v].left \in Some /\ m[v].right \in Some
    BY <1>3, NodeFields
  <2>2. /\ b[v].left # NoVertex => m[b[v].left].max = b[b[v].left].max
        /\ b[v].right # NoVertex => m[b[v].right].max = b[b[v].right].max
    BY <2>1, <1>3, <1>6, <1>8 DEF Some
  <2>3. MaxOf(m, v) = MaxOf(b, v)
    BY <2>2, <1>6, MaxOfSame
  <2> QED
    BY <2>3, <1>6
<1> QED
  BY <1>3, <1>7, <1>8 DEF Linking, Kept, SameEnds, m

-----------------------------------------------------------------------------
(* Rotations.                                                              *)

\* Children know their parent, and their subtrees are smaller.
LEMMA ChildIs ==
  ASSUME NEW n, NEW L, Shape(n, L), NEW v \in Vertex, NEW c,
         c = n[v].left \/ c = n[v].right, c # NoVertex
  PROVE  /\ c \in Vertex /\ n[c].parent = v /\ L.hd[c] = L.hd[v]
         /\ L.flip[c] = (L.flip[v] # n[c].reversed)
         /\ \/ c = Early(n, L, v) /\ L.lo[c] = L.lo[v] /\ L.hi[c] = L.pos[v] - 1
            \/ c = Late(n, L, v) /\ L.lo[c] = L.pos[v] + 1 /\ L.hi[c] = L.hi[v]
         /\ L.hi[c] - L.lo[c] < L.hi[v] - L.lo[v]
         /\ c # v
<1>1. n[v].left \in Some /\ n[v].right \in Some
  BY NodeFields DEF Shape
<1>2. c \in Vertex
  BY <1>1 DEF Some
<1>3. /\ L.lo[v] \in Int /\ L.pos[v] \in Int /\ L.hi[v] \in Int
      /\ L.lo[v] <= L.pos[v] /\ L.pos[v] <= L.hi[v]
  BY DEF Shape, Layouts, Spans
<1>4. c = Early(n, L, v) \/ c = Late(n, L, v)
  BY DEF Early, Late
<1>5. CASE c = Early(n, L, v)
  <2>1. ChildOf(n, L, v, c, L.lo[v], L.pos[v] - 1)
    BY <1>5 DEF Shape, Children
  <2> QED
    BY <2>1, <1>2, <1>3, <1>5 DEF ChildOf
<1>6. CASE c = Late(n, L, v)
  <2>1. ChildOf(n, L, v, c, L.pos[v] + 1, L.hi[v])
    BY <1>6 DEF Shape, Children
  <2> QED
    BY <2>1, <1>2, <1>3, <1>6 DEF ChildOf
<1> QED
  BY <1>4, <1>5, <1>6

\* A node that has a parent is one of its children.
LEMMA ParentIs ==
  ASSUME NEW n, NEW L, Shape(n, L), NEW v \in Vertex, n[v].parent # NoVertex
  PROVE  /\ n[v].parent \in Vertex
         /\ v = n[n[v].parent].left \/ v = n[n[v].parent].right
         /\ v # NoVertex
<1>1. n[v].parent \in Some
  BY NodeFields DEF Shape
<1> QED
  BY <1>1, LctAssumption DEF Some, Shape, Parents

\* m is n after v was turned above its parent p, whose parent was g.
Rotating(n, v, p, g, m) ==
  /\ m \in Nodes /\ Kept(n, m) /\ SameEnds(n, m)
  /\ \A x \in Vertex :
       /\ m[x].reversed = n[x].reversed
       /\ IF n[p].left = v
          THEN /\ m[x].left = IF x = p THEN n[v].right
                              ELSE IF x = g /\ n[g].left = p THEN v ELSE n[x].left
               /\ m[x].right = IF x = v THEN p
                               ELSE IF x = g /\ n[g].left # p THEN v ELSE n[x].right
               /\ m[x].parent = IF x = v THEN g ELSE IF x = p THEN v
                                ELSE IF x = n[v].right THEN p ELSE n[x].parent
          ELSE /\ m[x].right = IF x = p THEN n[v].left
                               ELSE IF x = g /\ n[g].left # p THEN v ELSE n[x].right
               /\ m[x].left = IF x = v THEN p
                              ELSE IF x = g /\ n[g].left = p THEN v ELSE n[x].left
               /\ m[x].parent = IF x = v THEN g ELSE IF x = p THEN v
                                ELSE IF x = n[v].left THEN p ELSE n[x].parent
       /\ x \notin {v, p, g} => m[x].max = n[x].max
       /\ x \in {v, p, g} => m[x].max = MaxOf(m, x)
       /\ x \notin {v, p, g, n[v].left, n[v].right} => m[x] = n[x]

\* The nodes that a rotation moves are all different.
LEMMA Different ==
  ASSUME NEW n, NEW L, Shape(n, L), NEW v \in Vertex, NEW p, p = n[v].parent, p # NoVertex,
         NEW g, g = n[p].parent
  PROVE  /\ p \in Vertex /\ g \in Some /\ v # p /\ g # p /\ g # v
         /\ v = n[p].left \/ v = n[p].right
         /\ g # NoVertex => g \in Vertex /\ (p = n[g].left \/ p = n[g].right)
         /\ n[p].left = v => n[p].right # v
         /\ g # NoVertex /\ n[g].left = p => n[g].right # p
         /\ \A c \in {n[v].left, n[v].right} : c \in Some /\ c \notin {v, p} /\ (c = g => c = NoVertex)
         /\ \A c \in {n[p].left, n[p].right} : c \in Some /\ c # p /\ (c = g => c = NoVertex)
<1>1. p \in Vertex /\ (v = n[p].left \/ v = n[p].right) /\ v # NoVertex
  BY ParentIs
<1>2. g \in Some /\ (g # NoVertex => g \in Vertex /\ (p = n[g].left \/ p = n[g].right))
  BY <1>1, ParentIs, NodeFields DEF Shape
<1>3. /\ v # p /\ L.hi[v] - L.lo[v] < L.hi[p] - L.lo[p]
  BY <1>1, ChildIs
<1>4. g # NoVertex => g # p /\ L.hi[p] - L.lo[p] < L.hi[g] - L.lo[g] /\ n[p].parent = g
  BY <1>1, <1>2, ChildIs, LctAssumption
<1>5. \A x \in Vertex : L.hi[x] \in Int /\ L.lo[x] \in Int /\ L.pos[x] \in Int
  BY DEF Shape, Layouts
<1>6. \A c \in {n[v].left, n[v].right} : c # NoVertex =>
        c \in Vertex /\ L.hi[c] - L.lo[c] < L.hi[v] - L.lo[v] /\ c # v
  BY ChildIs
<1>7. \A c \in {n[v].left, n[v].right} : c \in Some
  BY NodeFields DEF Shape
<1>8. g # v
  BY <1>1, <1>2, <1>3, <1>4, <1>5
<1>9. \A c \in {n[v].left, n[v].right} : c \notin {v, p} /\ (c = g => c = NoVertex)
  <2> SUFFICES ASSUME NEW c \in {n[v].left, n[v].right}
               PROVE  c \notin {v, p} /\ (c = g => c = NoVertex)
    OBVIOUS
  <2>1. CASE c = NoVertex
    BY <2>1, <1>1, LctAssumption
  <2>2. CASE c # NoVertex
    BY <2>2, <1>6, <1>5, <1>3, <1>4, <1>1, <1>2
  <2> QED
    BY <2>1, <2>2
<1>10. ASSUME NEW x \in Vertex, NEW c \in Vertex, n[x].left = c
       PROVE  n[x].right # c
  <2>1. c # NoVertex
    BY LctAssumption
  <2>2. SUFFICES ASSUME n[x].right = c PROVE FALSE
    OBVIOUS
  <2>3. Early(n, L, x) = c /\ Late(n, L, x) = c
    BY <1>10, <2>2 DEF Early, Late
  <2>4. ChildOf(n, L, x, c, L.lo[x], L.pos[x] - 1) /\ ChildOf(n, L, x, c, L.pos[x] + 1, L.hi[x])
    BY <2>3 DEF Shape, Children
  <2>5. L.lo[x] <= L.pos[x] /\ L.lo[c] = L.lo[x] /\ L.lo[c] = L.pos[x] + 1
    BY <2>1, <2>4 DEF ChildOf, Shape, Spans
  <2> QED
    BY <2>5, <1>5
<1>11. n[p].left = v => n[p].right # v
  BY <1>10, <1>1
<1>12. g # NoVertex /\ n[g].left = p => n[g].right # p
  BY <1>10, <1>1, <1>2
<1>13. \A c \in {n[p].left, n[p].right} : c \in Some /\ c # p /\ (c = g => c = NoVertex)
  <2> SUFFICES ASSUME NEW c \in {n[p].left, n[p].right}
               PROVE  c \in Some /\ c # p /\ (c = g => c = NoVertex)
    OBVIOUS
  <2>1. c \in Some
    BY <1>1, NodeFields DEF Shape
  <2>2. CASE c = NoVertex
    BY <2>1, <2>2, <1>1, LctAssumption
  <2>3. CASE c # NoVertex
    <3>1. c # p /\ c \in Vertex /\ L.hi[c] - L.lo[c] < L.hi[p] - L.lo[p]
      BY <2>3, <1>1, ChildIs
    <3> QED
      BY <3>1, <2>1, <1>1, <1>2, <1>4, <1>5
  <2> QED
    BY <2>2, <2>3
<1> QED
  BY <1>1, <1>2, <1>3, <1>4, <1>7, <1>8, <1>9, <1>11, <1>12, <1>13

\* rotate_up turns a node above its parent.
LEMMA RotateUpIs ==
  ASSUME NEW n, NEW L, Shape(n, L), NEW v \in Vertex, n[v].parent # NoVertex
  PROVE  Rotating(n, v, n[v].parent, n[n[v].parent].parent, RotateUp(n, v))
<1> DEFINE p == n[v].parent
           g == n[p].parent
           side == SideOf(n, p, v)
           b == n[v][Other(side)]
           k1 == LinkChild(n, p, side, b)
           k2 == LinkChild(k1, v, Other(side), p)
           m == RotateUp(n, v)
<1>1. /\ p \in Vertex /\ g \in Some /\ v # p /\ g # p /\ g # v
      /\ v = n[p].left \/ v = n[p].right
      /\ g # NoVertex => g \in Vertex /\ (p = n[g].left \/ p = n[g].right)
      /\ n[p].left = v => n[p].right # v
      /\ g # NoVertex /\ n[g].left = p => n[g].right # p
      /\ \A c \in {n[v].left, n[v].right} : c \in Some /\ c \notin {v, p} /\ (c = g => c = NoVertex)
      /\ \A c \in {n[p].left, n[p].right} : c \in Some /\ c # p /\ (c = g => c = NoVertex)
  BY Different
<1>2. /\ side \in {"left", "right"} /\ Other(side) \in {"left", "right"}
      /\ side = "left" <=> n[p].left = v
      /\ Other(side) = "left" <=> side = "right"
      /\ b = IF side = "left" THEN n[v].right ELSE n[v].left
  BY DEF SideOf, Other
<1>3. n \in Nodes /\ NoVertex \notin Vertex /\ \A x \in Vertex : n[x].left # x /\ n[x].right # x
  BY ChildIs, LctAssumption DEF Shape
<1>4. m = IF g = NoVertex THEN [k2 EXCEPT ![v].parent = NoVertex]
          ELSE LinkChild(k2, g, SideOf(n, g, p), v)
  BY DEF RotateUp
<1> HIDE DEF m, k2, k1, b, side, p, g
<1>5. b \in Some /\ b \notin {v, p} /\ (b = g => b = NoVertex) /\ b \in {n[v].left, n[v].right}
  BY <1>1, <1>2
<1>6. Linking(n, p, side, b, k1)
  BY <1>1, <1>2, <1>3, <1>5, LinkChildIs DEF k1
<1>7. Linking(k1, v, Other(side), p, k2)
  <2>1. k1 \in Nodes /\ p \in Some /\ v \in Vertex /\ Other(side) \in {"left", "right"}
    BY <1>6, <1>1, <1>2 DEF Linking, Some
  <2> QED
    BY <2>1, LinkChildIs DEF k2
<1>8. /\ m \in Nodes /\ Kept(k2, m) /\ SameEnds(k2, m)
      /\ \A x \in Vertex :
           /\ m[x].left = IF x = g /\ n[g].left = p THEN v ELSE k2[x].left
           /\ m[x].right = IF x = g /\ n[g].left # p THEN v ELSE k2[x].right
           /\ m[x].parent = IF x = v THEN g ELSE k2[x].parent
           /\ m[x].reversed = k2[x].reversed
           /\ x # g => m[x].max = k2[x].max
           /\ x \notin {g, v} => m[x] = k2[x]
      /\ g # NoVertex /\ m[g].left # g /\ m[g].right # g => m[g].max = MaxOf(m, g)
  <2>1. CASE g = NoVertex
    <3>1. m = [k2 EXCEPT ![v].parent = NoVertex] /\ k2 \in Nodes
      BY <2>1, <1>4, <1>7 DEF Linking
    <3>2. k2[v] \in Node /\ m = [k2 EXCEPT ![v] = [k2[v] EXCEPT !.parent = NoVertex]]
      BY <3>1, NodeFields
    <3>3. [k2[v] EXCEPT !.parent = NoVertex] \in Node
      BY <3>2 DEF Node
    <3>4. /\ m \in Nodes /\ m[v] = [k2[v] EXCEPT !.parent = NoVertex]
          /\ \A x \in Vertex \ {v} : m[x] = k2[x]
      BY <3>1, <3>2, <3>3 DEF Nodes
    <3>5. /\ m[v].left = k2[v].left /\ m[v].right = k2[v].right /\ m[v].parent = NoVertex
          /\ m[v].reversed = k2[v].reversed /\ m[v].max = k2[v].max
          /\ m[v].dparent = k2[v].dparent /\ m[v].preferred = k2[v].preferred
          /\ m[v].edges = k2[v].edges /\ m[v].head = k2[v].head /\ m[v].tail = k2[v].tail
      BY <3>2, <3>4 DEF Node
    <3> QED
      BY <3>4, <3>5, <2>1, <1>3 DEF Kept, SameEnds
  <2>2. CASE g # NoVertex
    <3>1. /\ g \in Vertex /\ v \in Some /\ SideOf(n, g, p) \in {"left", "right"}
          /\ SideOf(n, g, p) = "left" <=> n[g].left = p
          /\ SideOf(n, g, p) = "right" <=> n[g].left # p
      BY <2>2, <1>1 DEF SideOf, Some
    <3>2. Linking(k2, g, SideOf(n, g, p), v, m)
      <4>1. k2 \in Nodes /\ m = LinkChild(k2, g, SideOf(n, g, p), v)
        BY <2>2, <1>4, <1>7 DEF Linking
      <4> QED
        BY <3>1, <4>1, LinkChildIs
    <3>3. /\ m \in Nodes /\ Kept(k2, m) /\ SameEnds(k2, m)
          /\ g # NoVertex /\ m[g].left # g /\ m[g].right # g => m[g].max = MaxOf(m, g)
      BY <3>2 DEF Linking
    <3>4. ASSUME NEW x \in Vertex
          PROVE  /\ m[x].left = IF x = g /\ n[g].left = p THEN v ELSE k2[x].left
                 /\ m[x].right = IF x = g /\ n[g].left # p THEN v ELSE k2[x].right
                 /\ m[x].parent = IF x = v THEN g ELSE k2[x].parent
                 /\ m[x].reversed = k2[x].reversed
                 /\ x # g => m[x].max = k2[x].max
                 /\ x \notin {g, v} => m[x] = k2[x]
      BY <3>1, <3>2 DEF Linking
    <3> QED
      BY <3>3, <3>4
  <2> QED
    BY <2>1, <2>2
<1>9. Kept(n, m) /\ SameEnds(n, m)
  BY <1>6, <1>7, <1>8 DEF Linking, Kept, SameEnds
<1>10. ASSUME NEW x \in Vertex
       PROVE  /\ m[x].reversed = n[x].reversed
              /\ m[x].left = IF x = g /\ n[g].left = p THEN v
                             ELSE IF x = v /\ side = "right" THEN p
                             ELSE IF x = p /\ side = "left" THEN b ELSE n[x].left
              /\ m[x].right = IF x = g /\ n[g].left # p THEN v
                             ELSE IF x = v /\ side = "left" THEN p
                             ELSE IF x = p /\ side = "right" THEN b ELSE n[x].right
              /\ m[x].parent = IF x = v THEN g ELSE IF x = p THEN v
                               ELSE IF x = b THEN p ELSE n[x].parent
              /\ x \notin {v, p, g} => m[x].max = n[x].max
              /\ x \notin {v, p, g, b} => m[x] = n[x]
  <2>1. /\ m[x].left = IF x = g /\ n[g].left = p THEN v ELSE k2[x].left
        /\ m[x].right = IF x = g /\ n[g].left # p THEN v ELSE k2[x].right
        /\ m[x].parent = IF x = v THEN g ELSE k2[x].parent
        /\ m[x].reversed = k2[x].reversed
        /\ x # g => m[x].max = k2[x].max
        /\ x \notin {g, v} => m[x] = k2[x]
    BY <1>8
  <2>2. /\ k2[x].left = IF x = v /\ side = "right" THEN p ELSE k1[x].left
        /\ k2[x].right = IF x = v /\ side = "left" THEN p ELSE k1[x].right
        /\ k2[x].parent = IF x = p THEN v ELSE k1[x].parent
        /\ k2[x].reversed = k1[x].reversed
        /\ x # v => k2[x].max = k1[x].max
        /\ x \notin {v, p} => k2[x] = k1[x]
    BY <1>7, <1>2 DEF Linking
  <2>3. /\ k1[x].left = IF x = p /\ side = "left" THEN b ELSE n[x].left
        /\ k1[x].right = IF x = p /\ side = "right" THEN b ELSE n[x].right
        /\ k1[x].parent = IF x = b THEN p ELSE n[x].parent
        /\ k1[x].reversed = n[x].reversed
        /\ x # p => k1[x].max = n[x].max
        /\ x \notin {p, b} => k1[x] = n[x]
    BY <1>6, <1>2 DEF Linking
  <2> QED
    BY <2>1, <2>2, <2>3, <1>2, <1>1, <1>5
<1>11. m[p].max = MaxOf(m, p)
  <2>1. /\ k1[p].left = IF side = "left" THEN b ELSE n[p].left
        /\ k1[p].right = IF side = "right" THEN b ELSE n[p].right
    BY <1>6, <1>1 DEF Linking
  <2>2. /\ k1[p].left \in Some /\ k1[p].left # p /\ k1[p].left # v /\ (k1[p].left = g => g = NoVertex)
        /\ k1[p].right \in Some /\ k1[p].right # p /\ k1[p].right # v /\ (k1[p].right = g => g = NoVertex)
    BY <2>1, <1>1, <1>2, <1>5
  <2>3. k1[p].max = MaxOf(k1, p)
    BY <2>2, <1>6 DEF Linking
  <2>4. m[p].max = k2[p].max /\ k2[p].max = k1[p].max
    BY <1>1, <1>7, <1>8 DEF Linking
  <2>5. \A x \in Vertex : x # g /\ x # v => m[x].max = k1[x].max
    BY <1>7, <1>8 DEF Linking
  <2>6. /\ k1[p].left # NoVertex => m[k1[p].left].max = k1[k1[p].left].max
        /\ k1[p].right # NoVertex => m[k1[p].right].max = k1[k1[p].right].max
    BY <2>2, <2>5 DEF Some
  <2>7. m[p].left = k1[p].left /\ m[p].right = k1[p].right
    BY <1>1, <1>2, <1>10, <2>1
  <2>8. m[p].preferred = k1[p].preferred /\ m[p].edges = k1[p].edges
    BY <1>1, <1>7, <1>8 DEF Linking, Kept
  <2>9. MaxOf(m, p) = MaxOf(k1, p)
    BY <2>6, <2>7, <2>8, MaxOfSame
  <2> QED
    BY <2>3, <2>4, <2>9
<1>12. m[v].max = MaxOf(m, v)
  <2>1. /\ k2[v].left = IF side = "right" THEN p ELSE n[v].left
        /\ k2[v].right = IF side = "left" THEN p ELSE n[v].right
    BY <1>1, <1>2, <1>6, <1>7 DEF Linking
  <2>2. /\ k2[v].left \in Some /\ k2[v].left # v /\ (k2[v].left = g => g = NoVertex)
        /\ k2[v].right \in Some /\ k2[v].right # v /\ (k2[v].right = g => g = NoVertex)
    BY <2>1, <1>1, <1>2 DEF Some
  <2>3. k2[v].max = MaxOf(k2, v)
    BY <2>2, <1>7 DEF Linking
  <2>4. m[v].max = k2[v].max
    BY <1>1, <1>8
  <2>5. \A x \in Vertex : x # g => m[x].max = k2[x].max
    BY <1>8
  <2>6. /\ k2[v].left # NoVertex => m[k2[v].left].max = k2[k2[v].left].max
        /\ k2[v].right # NoVertex => m[k2[v].right].max = k2[k2[v].right].max
    BY <2>2, <2>5 DEF Some
  <2>7. m[v].left = k2[v].left /\ m[v].right = k2[v].right
    BY <1>1, <1>8
  <2>8. m[v].preferred = k2[v].preferred /\ m[v].edges = k2[v].edges
    BY <1>8 DEF Kept
  <2>9. MaxOf(m, v) = MaxOf(k2, v)
    BY <2>6, <2>7, <2>8, MaxOfSame
  <2> QED
    BY <2>3, <2>4, <2>9
<1>13. g # NoVertex => m[g].max = MaxOf(m, g)
  <2>1. g # NoVertex => g \in Vertex /\ n[g].left # g /\ n[g].right # g
    BY <1>1, <1>3
  <2>2. g # NoVertex => m[g].left # g /\ m[g].right # g
    BY <2>1, <1>1, <1>10
  <2> QED
    BY <2>2, <1>8
<1>14. ASSUME NEW x \in Vertex
       PROVE  /\ m[x].reversed = n[x].reversed
              /\ IF n[p].left = v
                 THEN /\ m[x].left = IF x = p THEN n[v].right
                                     ELSE IF x = g /\ n[g].left = p THEN v ELSE n[x].left
                      /\ m[x].right = IF x = v THEN p
                                      ELSE IF x = g /\ n[g].left # p THEN v ELSE n[x].right
                      /\ m[x].parent = IF x = v THEN g ELSE IF x = p THEN v
                                       ELSE IF x = n[v].right THEN p ELSE n[x].parent
                 ELSE /\ m[x].right = IF x = p THEN n[v].left
                                      ELSE IF x = g /\ n[g].left # p THEN v ELSE n[x].right
                      /\ m[x].left = IF x = v THEN p
                                     ELSE IF x = g /\ n[g].left = p THEN v ELSE n[x].left
                      /\ m[x].parent = IF x = v THEN g ELSE IF x = p THEN v
                                       ELSE IF x = n[v].left THEN p ELSE n[x].parent
              /\ x \notin {v, p, g} => m[x].max = n[x].max
              /\ x \in {v, p, g} => m[x].max = MaxOf(m, x)
              /\ x \notin {v, p, g, n[v].left, n[v].right} => m[x] = n[x]
  <2>1. x \in {v, p, g} => m[x].max = MaxOf(m, x)
    BY <1>11, <1>12, <1>13, <1>3
  <2>2. CASE n[p].left = v
    BY <2>1, <2>2, <1>1, <1>2, <1>5, <1>10
  <2>3. CASE n[p].left # v
    BY <2>1, <2>3, <1>1, <1>2, <1>5, <1>10
  <2> QED
    BY <2>2, <2>3
<1> QED
  BY <1>8, <1>9, <1>14 DEF Rotating, m, p, g

\* The layout after v has taken the place of its parent p.
Rotated(n, L, v, p) ==
  [hd |-> L.hd, pos |-> L.pos, flip |-> L.flip,
   lo |-> [x \in Vertex |-> IF x = v THEN L.lo[p]
                            ELSE IF x = p /\ n[p].left = v THEN L.pos[v] + 1 ELSE L.lo[x]],
   hi |-> [x \in Vertex |-> IF x = v THEN L.hi[p]
                            ELSE IF x = p /\ n[p].left # v THEN L.pos[v] - 1 ELSE L.hi[x]]]

\* What a layout says of one vertex.
LEMMA LayoutFields ==
  ASSUME NEW L \in Layouts, NEW v \in Vertex
  PROVE  /\ L.hd[v] \in Vertex /\ L.pos[v] \in Int /\ L.lo[v] \in Int /\ L.hi[v] \in Int
         /\ L.flip[v] \in BOOLEAN
BY DEF Layouts

\* The nodes that a rotation moves, and their subtrees.
LEMMA BeforeRotation ==
  ASSUME NEW n, NEW L, Shape(n, L), NEW v \in Vertex, NEW p, p = n[v].parent, p # NoVertex,
         ~L.flip[v], ~L.flip[p]
  PROVE  /\ p \in Vertex /\ v # p /\ L.hd[v] = L.hd[p] /\ ~n[v].reversed
         /\ n[p].left = v => L.lo[v] = L.lo[p] /\ L.hi[v] = L.pos[p] - 1 /\ v = Early(n, L, p)
         /\ n[p].left # v => /\ n[p].right = v /\ v = Late(n, L, p)
                             /\ L.lo[v] = L.pos[p] + 1 /\ L.hi[v] = L.hi[p]
         /\ ChildOf(n, L, v, n[v].left, L.lo[v], L.pos[v] - 1)
         /\ ChildOf(n, L, v, n[v].right, L.pos[v] + 1, L.hi[v])
         /\ ChildOf(n, L, p, n[p].left, L.lo[p], L.pos[p] - 1)
         /\ ChildOf(n, L, p, n[p].right, L.pos[p] + 1, L.hi[p])
<1>1. p \in Vertex /\ (v = n[p].left \/ v = n[p].right) /\ v # NoVertex
  BY ParentIs
<1>2. v # p /\ L.hd[v] = L.hd[p] /\ L.flip[v] = (L.flip[p] # n[v].reversed)
  BY <1>1, ChildIs
<1>3. /\ Early(n, L, v) = n[v].left /\ Late(n, L, v) = n[v].right
      /\ Early(n, L, p) = n[p].left /\ Late(n, L, p) = n[p].right
  BY DEF Early, Late
<1>4. /\ ChildOf(n, L, v, n[v].left, L.lo[v], L.pos[v] - 1)
      /\ ChildOf(n, L, v, n[v].right, L.pos[v] + 1, L.hi[v])
      /\ ChildOf(n, L, p, n[p].left, L.lo[p], L.pos[p] - 1)
      /\ ChildOf(n, L, p, n[p].right, L.pos[p] + 1, L.hi[p])
  BY <1>1, <1>3 DEF Shape, Children
<1>5. n[v].reversed \in BOOLEAN
  BY NodeFields DEF Shape
<1>6. ~n[v].reversed
  BY <1>2, <1>5
<1>7. n[p].left = v => L.lo[v] = L.lo[p] /\ L.hi[v] = L.pos[p] - 1
  BY <1>1, <1>4 DEF ChildOf
<1>8. n[p].left # v => n[p].right = v /\ L.lo[v] = L.pos[p] + 1 /\ L.hi[v] = L.hi[p]
  BY <1>1, <1>4 DEF ChildOf
<1> QED
  BY <1>1, <1>2, <1>3, <1>4, <1>6, <1>7, <1>8

\* A rotation swaps the intervals of the two nodes, and nothing else.
LEMMA RotatedFields ==
  ASSUME NEW n, NEW L, Shape(n, L), NEW v \in Vertex, NEW p, p = n[v].parent, p # NoVertex,
         ~L.flip[v], ~L.flip[p], NEW K, K = Rotated(n, L, v, p)
  PROVE  /\ K \in Layouts /\ K.hd = L.hd /\ K.pos = L.pos /\ K.flip = L.flip
         /\ K.lo[v] = L.lo[p] /\ K.hi[v] = L.hi[p]
         /\ n[p].left = v => K.lo[p] = L.pos[v] + 1 /\ K.hi[p] = L.hi[p]
         /\ n[p].left # v => K.lo[p] = L.lo[p] /\ K.hi[p] = L.pos[v] - 1
         /\ \A x \in Vertex \ {v, p} : K.lo[x] = L.lo[x] /\ K.hi[x] = L.hi[x]
<1>1. p \in Vertex /\ v # p
  BY BeforeRotation
<1>2. \A x \in Vertex : L.pos[x] \in Int /\ L.lo[x] \in Int /\ L.hi[x] \in Int
  BY LayoutFields DEF Shape
<1>3. /\ K.hd = L.hd /\ K.pos = L.pos /\ K.flip = L.flip
      /\ K.lo = [x \in Vertex |-> IF x = v THEN L.lo[p]
                            ELSE IF x = p /\ n[p].left = v THEN L.pos[v] + 1 ELSE L.lo[x]]
      /\ K.hi = [x \in Vertex |-> IF x = v THEN L.hi[p]
                            ELSE IF x = p /\ n[p].left # v THEN L.pos[v] - 1 ELSE L.hi[x]]
  BY DEF Rotated
<1>4. K.lo \in [Vertex -> Int] /\ K.hi \in [Vertex -> Int]
  BY <1>1, <1>2, <1>3
<1>5. K \in Layouts
  BY <1>3, <1>4 DEF Rotated, Shape, Layouts
<1> QED
  BY <1>1, <1>3, <1>5

\* Behind a rotation subtrees are still disjoint or nested.
LEMMA RotatedSpans ==
  ASSUME NEW n, NEW L, Shape(n, L), NEW v \in Vertex, NEW p, p = n[v].parent, p # NoVertex,
         ~L.flip[v], ~L.flip[p], NEW K, K = Rotated(n, L, v, p)
  PROVE  Spans(K)
<1>1. /\ p \in Vertex /\ v # p /\ L.hd[v] = L.hd[p]
      /\ n[p].left = v => L.lo[v] = L.lo[p] /\ L.hi[v] = L.pos[p] - 1
      /\ n[p].left # v => L.lo[v] = L.pos[p] + 1 /\ L.hi[v] = L.hi[p]
  BY BeforeRotation
<1>2. /\ K \in Layouts /\ K.hd = L.hd /\ K.pos = L.pos /\ K.flip = L.flip
      /\ K.lo[v] = L.lo[p] /\ K.hi[v] = L.hi[p]
      /\ n[p].left = v => K.lo[p] = L.pos[v] + 1 /\ K.hi[p] = L.hi[p]
      /\ n[p].left # v => K.lo[p] = L.lo[p] /\ K.hi[p] = L.pos[v] - 1
      /\ \A x \in Vertex \ {v, p} : K.lo[x] = L.lo[x] /\ K.hi[x] = L.hi[x]
  BY RotatedFields
<1>3. \A x \in Vertex : /\ L.pos[x] \in Int /\ L.lo[x] \in Int /\ L.hi[x] \in Int
                        /\ L.lo[x] <= L.pos[x] /\ L.pos[x] <= L.hi[x]
  BY LayoutFields DEF Shape, Spans
<1>4. \A x \in Vertex : /\ K.lo[x] \in Int /\ K.hi[x] \in Int
                        /\ K.lo[x] <= L.pos[x] /\ L.pos[x] <= K.hi[x]
  BY <1>1, <1>2, <1>3
<1>5. \A x, y \in Vertex : x # y => Apart(L, x, y) \/ Inside(L, x, y) \/ Inside(L, y, x)
  BY DEF Shape, Spans
<1>6. \A x \in Vertex \ {v, p}, y \in {v, p} : Apart(K, x, y) \/ Inside(K, x, y) \/ Inside(K, y, x)
  <2> SUFFICES ASSUME NEW x \in Vertex \ {v, p}, NEW y \in {v, p}
               PROVE  Apart(K, x, y) \/ Inside(K, x, y) \/ Inside(K, y, x)
    OBVIOUS
  <2>1. /\ Apart(L, x, v) \/ Inside(L, x, v) \/ Inside(L, v, x)
        /\ Apart(L, x, p) \/ Inside(L, x, p) \/ Inside(L, p, x)
    BY <1>1, <1>5
  <2>2. L.pos[x] # L.pos[v] \/ L.hd[x] # L.hd[v]
    BY DEF Shape, Spans
  <2>3. L.pos[x] # L.pos[p] \/ L.hd[x] # L.hd[p]
    BY <1>1 DEF Shape, Spans
  <2>4. K.lo[x] = L.lo[x] /\ K.hi[x] = L.hi[x] /\ x \in Vertex
    BY Zenon, <1>2
  <2>5. CASE n[p].left = v
    BY <2>1, <2>2, <2>3, <2>4, <2>5, <1>1, <1>2, <1>3 DEF Apart, Inside, Within
  <2>6. CASE n[p].left # v
    BY <2>1, <2>2, <2>3, <2>4, <2>6, <1>1, <1>2, <1>3 DEF Apart, Inside, Within
  <2> QED
    BY <2>5, <2>6
<1>7. Inside(K, p, v)
  BY <1>1, <1>2, <1>3 DEF Inside, Within
<1>8. ASSUME NEW x \in Vertex, NEW y \in Vertex, x # y
      PROVE  Apart(K, x, y) \/ Inside(K, x, y) \/ Inside(K, y, x)
  <2>1. CASE x \notin {v, p} /\ y \notin {v, p}
    BY <2>1, <1>2, <1>5, <1>8 DEF Apart, Inside, Within
  <2>2. CASE x \notin {v, p} /\ y \in {v, p}
    BY <2>2, <1>6
  <2>3. CASE x \in {v, p} /\ y \notin {v, p}
    BY <2>3, <1>6, <1>4, <1>2 DEF Apart
  <2>4. CASE x \in {v, p} /\ y \in {v, p}
    BY <2>4, <1>7, <1>8
  <2> QED
    BY <2>1, <2>2, <2>3, <2>4
<1>9. ASSUME NEW x \in Vertex, NEW i \in Int, K.lo[x] <= i, i <= K.hi[x]
      PROVE  \E u \in Vertex : K.hd[u] = K.hd[x] /\ K.pos[u] = i
  <2>1. \E y \in Vertex : L.hd[y] = L.hd[x] /\ L.lo[y] <= i /\ i <= L.hi[y]
    <3>1. CASE x \in {v, p}
      <4>1. L.lo[p] <= i /\ i <= L.hi[p]
        BY <3>1, <1>1, <1>2, <1>3, <1>9
      <4> QED
        BY <3>1, <4>1, <1>1
    <3>2. CASE x \notin {v, p}
      BY <3>2, <1>2, <1>9
    <3> QED
      BY <3>1, <3>2
  <2>2. PICK y \in Vertex : L.hd[y] = L.hd[x] /\ L.lo[y] <= i /\ i <= L.hi[y]
    BY <2>1
  <2>3. \E u \in Vertex : L.hd[u] = L.hd[y] /\ L.pos[u] = i
    BY <2>2 DEF Shape, Spans
  <2> QED
    BY <2>2, <2>3, <1>2
<1>10. /\ \A x, y \in Vertex : L.hd[x] = L.hd[y] /\ L.pos[x] = L.pos[y] => x = y
       /\ \A x \in Vertex : L.hd[L.hd[x]] = L.hd[x]
  BY DEF Shape, Spans
<1> QED
  BY <1>2, <1>4, <1>8, <1>9, <1>10 DEF Spans

\* A child whose subtree stays is a child where it is hung.
LEMMA ChildStays ==
  ASSUME NEW n, NEW L, NEW m, NEW K, NEW x, NEW y, NEW c, NEW lo, NEW hi, ChildOf(n, L, x, c, lo, hi),
         c # NoVertex => /\ m[c].parent = y /\ m[c].reversed = n[c].reversed
                         /\ K.lo[c] = L.lo[c] /\ K.hi[c] = L.hi[c],
         K.hd = L.hd, K.flip = L.flip, L.hd[y] = L.hd[x], L.flip[y] = L.flip[x]
  PROVE  ChildOf(m, K, y, c, lo, hi)
BY DEF ChildOf

\* Behind a rotation each node has the children that its interval asks for.
LEMMA RotatedChildren ==
  ASSUME NEW n, NEW L, Shape(n, L), NEW v \in Vertex, NEW p, p = n[v].parent, p # NoVertex,
         NEW g, g = n[p].parent, g # NoVertex => ~L.flip[g],
         ~L.flip[v], ~L.flip[p], NEW K, K = Rotated(n, L, v, p),
         NEW m, Rotating(n, v, p, g, m)
  PROVE  Children(m, K)
<1>1. /\ p \in Vertex /\ v # p /\ L.hd[v] = L.hd[p] /\ ~n[v].reversed
      /\ n[p].left = v => L.lo[v] = L.lo[p] /\ L.hi[v] = L.pos[p] - 1 /\ v = Early(n, L, p)
      /\ n[p].left # v => /\ n[p].right = v /\ v = Late(n, L, p)
                          /\ L.lo[v] = L.pos[p] + 1 /\ L.hi[v] = L.hi[p]
      /\ ChildOf(n, L, v, n[v].left, L.lo[v], L.pos[v] - 1)
      /\ ChildOf(n, L, v, n[v].right, L.pos[v] + 1, L.hi[v])
      /\ ChildOf(n, L, p, n[p].left, L.lo[p], L.pos[p] - 1)
      /\ ChildOf(n, L, p, n[p].right, L.pos[p] + 1, L.hi[p])
  BY BeforeRotation
<1>2. /\ K \in Layouts /\ K.hd = L.hd /\ K.pos = L.pos /\ K.flip = L.flip
      /\ K.lo[v] = L.lo[p] /\ K.hi[v] = L.hi[p]
      /\ n[p].left = v => K.lo[p] = L.pos[v] + 1 /\ K.hi[p] = L.hi[p]
      /\ n[p].left # v => K.lo[p] = L.lo[p] /\ K.hi[p] = L.pos[v] - 1
      /\ \A x \in Vertex \ {v, p} : K.lo[x] = L.lo[x] /\ K.hi[x] = L.hi[x]
  BY RotatedFields
<1>3. /\ g \in Some /\ v # p /\ g # p /\ g # v
      /\ g # NoVertex => g \in Vertex /\ (p = n[g].left \/ p = n[g].right)
      /\ n[p].left = v => n[p].right # v
      /\ g # NoVertex /\ n[g].left = p => n[g].right # p
      /\ \A c \in {n[v].left, n[v].right} : c \in Some /\ c \notin {v, p} /\ (c = g => c = NoVertex)
      /\ \A c \in {n[p].left, n[p].right} : c \in Some /\ c # p /\ (c = g => c = NoVertex)
  BY Different
<1>4. \A x \in Vertex : /\ L.pos[x] \in Int /\ L.lo[x] \in Int /\ L.hi[x] \in Int
                        /\ L.flip[x] \in BOOLEAN /\ n[x].reversed \in BOOLEAN
                        /\ n[x].left \in Some /\ n[x].right \in Some
  BY LayoutFields, NodeFields DEF Shape
<1>15. /\ L.flip[v] = FALSE /\ L.flip[p] = FALSE /\ n[v].reversed = FALSE
       /\ g # NoVertex => L.flip[g] = FALSE
  BY Zenon, <1>1, <1>3, <1>4
<1>5. n[p].reversed = FALSE
  <2>1. CASE g = NoVertex
    <3>1. L.flip[p] = n[p].reversed
      BY Zenon, <2>1, <1>1 DEF Shape, Parents
    <3> QED
      BY <3>1, <1>15
  <2>2. CASE g # NoVertex
    <3>1. g \in Vertex /\ (p = n[g].left \/ p = n[g].right) /\ p # NoVertex
      BY <2>2, <1>3
    <3>2. L.flip[p] = (L.flip[g] # n[p].reversed)
      BY <3>1, ChildIs
    <3> QED
      BY Zenon, <3>2, <2>2, <1>15, <1>1, <1>4
  <2> QED
    BY <2>1, <2>2
<1>6. NoVertex \notin Vertex
  BY LctAssumption
\* A child that keeps its parent, and is not moved, is in its place.
<1>7. ASSUME NEW x \in Vertex, NEW c, NEW lo, NEW hi, ChildOf(n, L, x, c, lo, hi),
             c \in Some, c \notin {v, p}, x # v, x # p
      PROVE  ChildOf(m, K, x, c, lo, hi)
  <2>1. CASE c = NoVertex
    BY <2>1, <1>7, <1>2 DEF ChildOf
  <2>2. CASE c # NoVertex
    <3>1. c \in Vertex /\ n[c].parent = x
      BY Zenon, <2>2, <1>7 DEF Some, ChildOf
    <3>2. c # n[v].left /\ c # n[v].right
      BY <3>1, <2>2, <1>1, <1>7 DEF ChildOf
    <3>3. m[c].parent = x /\ m[c].reversed = n[c].reversed
      BY <3>1, <3>2, <1>7 DEF Rotating
    <3> QED
      BY <3>1, <3>3, <2>2, <1>7, <1>2 DEF ChildOf
  <2> QED
    BY <2>1, <2>2
<1>8. ASSUME NEW x \in Vertex, x \notin {v, p, g}
      PROVE  /\ ChildOf(m, K, x, Early(m, K, x), K.lo[x], K.pos[x] - 1)
             /\ ChildOf(m, K, x, Late(m, K, x), K.pos[x] + 1, K.hi[x])
  <2>1. m[x].left = n[x].left /\ m[x].right = n[x].right
    BY <1>8 DEF Rotating
  <2>2. Early(m, K, x) = Early(n, L, x) /\ Late(m, K, x) = Late(n, L, x)
    BY <2>1, <1>2 DEF Early, Late
  <2>3. /\ ChildOf(n, L, x, Early(n, L, x), L.lo[x], L.pos[x] - 1)
        /\ ChildOf(n, L, x, Late(n, L, x), L.pos[x] + 1, L.hi[x])
    BY DEF Shape, Children
  <2>4. \A c \in {Early(n, L, x), Late(n, L, x)} : c \in Some /\ c \notin {v, p}
    <3> SUFFICES ASSUME NEW c \in {Early(n, L, x), Late(n, L, x)}
                 PROVE  c \in Some /\ c \notin {v, p}
      OBVIOUS
    <3>1. c \in Some
      BY <1>4 DEF Early, Late
    <3>2. c # NoVertex => n[c].parent = x
      BY <2>3 DEF ChildOf
    <3> QED
      BY <3>1, <3>2, <1>8, <1>1, <1>6
  <2>5. /\ ChildOf(m, K, x, Early(n, L, x), L.lo[x], L.pos[x] - 1)
        /\ ChildOf(m, K, x, Late(n, L, x), L.pos[x] + 1, L.hi[x])
    BY Zenon, <2>3, <2>4, <1>7, <1>8
  <2> QED
    BY <2>2, <2>5, <1>2, <1>8
<1>16. \A x \in Vertex : IF n[p].left = v
         THEN /\ m[x].left = IF x = p THEN n[v].right
                             ELSE IF x = g /\ n[g].left = p THEN v ELSE n[x].left
              /\ m[x].right = IF x = v THEN p
                              ELSE IF x = g /\ n[g].left # p THEN v ELSE n[x].right
         ELSE /\ m[x].right = IF x = p THEN n[v].left
                              ELSE IF x = g /\ n[g].left # p THEN v ELSE n[x].right
              /\ m[x].left = IF x = v THEN p
                             ELSE IF x = g /\ n[g].left = p THEN v ELSE n[x].left
  BY Zenon DEF Rotating
<1>9. ASSUME g # NoVertex
      PROVE  /\ ChildOf(m, K, g, Early(m, K, g), K.lo[g], K.pos[g] - 1)
             /\ ChildOf(m, K, g, Late(m, K, g), K.pos[g] + 1, K.hi[g])
  <2>0. g \in Vertex /\ ~L.flip[g]
    BY Zenon, <1>9, <1>3
  <2>1. /\ ChildOf(n, L, g, n[g].left, L.lo[g], L.pos[g] - 1)
        /\ ChildOf(n, L, g, n[g].right, L.pos[g] + 1, L.hi[g])
    BY <2>0 DEF Shape, Children, Early, Late
  <2>2. Early(m, K, g) = m[g].left /\ Late(m, K, g) = m[g].right
    BY <2>0, <1>2 DEF Early, Late
  <2>3. m[v].parent = g /\ m[v].reversed = n[v].reversed
    BY <1>3 DEF Rotating
  <2>4. ASSUME NEW lo, NEW hi, ChildOf(n, L, g, p, lo, hi)
        PROVE  ChildOf(m, K, g, v, lo, hi)
    <3>1. L.lo[p] = lo /\ L.hi[p] = hi /\ L.hd[p] = L.hd[g] /\ p # NoVertex
      <4>1. p # NoVertex
        BY <1>1, <1>6
      <4> QED
        BY Zenon, <2>4, <4>1 DEF ChildOf
    <3>2. K.lo[v] = lo /\ K.hi[v] = hi /\ K.hd[v] = K.hd[g] /\ v # NoVertex
      BY <3>1, <1>1, <1>2, <1>6
    <3>3. K.flip[v] = (K.flip[g] # m[v].reversed)
      BY Zenon, <2>3, <1>15, <1>9, <1>2
    <3> QED
      BY <3>2, <3>3, <2>3 DEF ChildOf
  <2>5. n[g].left \notin {v} /\ n[g].right \notin {v}
    <3>1. v # NoVertex /\ p # g
      BY Zenon, <1>6, <1>3
    <3>2. v = n[g].left \/ v = n[g].right => n[v].parent = g
      BY <3>1, <2>0, ChildIs
    <3> QED
      BY <3>1, <3>2
  <2>6. CASE n[g].left = p
    <3>1. m[g].left = v /\ m[g].right = n[g].right /\ n[g].right # p
      <4>1. n[g].right # p /\ g # p /\ g # v
        BY Zenon, <2>6, <1>9, <1>3
      <4>2. CASE n[p].left = v
        BY Zenon, <4>1, <4>2, <2>6, <2>0, <1>16
      <4>3. CASE n[p].left # v
        BY Zenon, <4>1, <4>3, <2>6, <2>0, <1>16
      <4> QED
        BY <4>1, <4>2, <4>3
    <3>2. ChildOf(m, K, g, n[g].right, L.pos[g] + 1, L.hi[g])
      BY Zenon, <3>1, <2>1, <2>0, <2>5, <1>3, <1>4, <1>7
    <3>3. ChildOf(m, K, g, v, L.lo[g], L.pos[g] - 1)
      BY Zenon, <2>1, <2>4, <2>6
    <3> QED
      BY <3>1, <3>2, <3>3, <2>0, <2>2, <1>2, <1>3
  <2>7. CASE n[g].left # p
    <3>1. m[g].right = v /\ m[g].left = n[g].left /\ n[g].right = p
      BY <2>7, <2>0, <1>3, <1>9, <1>16
    <3>2. ChildOf(m, K, g, n[g].left, L.lo[g], L.pos[g] - 1)
      BY Zenon, <3>1, <2>1, <2>0, <2>5, <2>7, <1>3, <1>4, <1>7
    <3>3. ChildOf(m, K, g, v, L.pos[g] + 1, L.hi[g])
      BY Zenon, <3>1, <2>1, <2>4
    <3> QED
      BY <3>1, <3>2, <3>3, <2>0, <2>2, <1>2, <1>3
  <2> QED
    BY Zenon, <2>6, <2>7
<1>10. \A x \in {v, p} : Early(m, K, x) = m[x].left /\ Late(m, K, x) = m[x].right
  BY <1>2 DEF Early, Late
<1>11. \A c \in Vertex : m[c].reversed = n[c].reversed
  BY DEF Rotating
<1>12. CASE n[p].left = v
  <2>1. /\ m[p].left = n[v].right /\ m[p].right = n[p].right
        /\ m[v].left = n[v].left /\ m[v].right = p
    BY Zenon, <1>12, <1>1, <1>3 DEF Rotating
  <2>2. /\ m[p].parent = v
        /\ n[v].right # NoVertex => m[n[v].right].parent = p
        /\ n[v].left # NoVertex => m[n[v].left].parent = v
        /\ n[p].right # NoVertex => m[n[p].right].parent = p
    <3>1. m[p].parent = v
      BY Zenon, <1>12, <1>1, <1>3 DEF Rotating
    <3>2. n[v].right # NoVertex => m[n[v].right].parent = p
      BY Zenon, <1>12, <1>1, <1>3 DEF Rotating, Some
    <3>3. n[v].left # NoVertex => m[n[v].left].parent = v
      <4>1. n[v].left # NoVertex => n[v].left \in Vertex /\ n[n[v].left].parent = v
        BY Zenon, <1>1, <1>3 DEF Some, ChildOf
      <4>2. n[v].left # NoVertex => n[v].left # n[v].right
        BY <1>1, <1>4, <4>1 DEF ChildOf, Shape, Spans
      <4> QED
        BY Zenon, <1>12, <4>1, <4>2, <1>3 DEF Rotating
    <3>4. n[p].right # NoVertex => m[n[p].right].parent = p
      <4>1. n[p].right # NoVertex => n[p].right \in Vertex /\ n[n[p].right].parent = p
        BY Zenon, <1>1, <1>3 DEF Some, ChildOf
      <4>2. n[p].right # NoVertex => n[p].right # n[v].right
        BY <1>1, <4>1 DEF ChildOf
      <4> QED
        BY Zenon, <1>12, <4>1, <4>2, <1>3 DEF Rotating
    <3> QED
      BY <3>1, <3>2, <3>3, <3>4
  <2>3. /\ n[v].right # NoVertex => n[v].right \in Vertex \ {v, p}
        /\ n[v].left # NoVertex => n[v].left \in Vertex \ {v, p}
        /\ n[p].right # NoVertex => n[p].right \in Vertex \ {v, p}
    BY Zenon, <1>12, <1>3 DEF Some
  <2>8. /\ L.pos[p] \in Int /\ L.pos[v] \in Int /\ L.lo[p] \in Int /\ L.hi[p] \in Int
        /\ L.lo[v] \in Int /\ L.hi[v] \in Int
    BY <1>1, <1>4
  <2>4. ChildOf(m, K, p, n[v].right, K.lo[p], K.pos[p] - 1)
    <3>1. ChildOf(n, L, v, n[v].right, L.pos[v] + 1, L.hi[v])
      BY <1>1
    <3>2. n[v].right # NoVertex => /\ m[n[v].right].parent = p /\ m[n[v].right].reversed = n[n[v].right].reversed
                            /\ K.lo[n[v].right] = L.lo[n[v].right] /\ K.hi[n[v].right] = L.hi[n[v].right]
      BY Zenon, <2>2, <2>3, <1>2, <1>11
    <3>3. K.hd = L.hd /\ K.flip = L.flip /\ L.hd[p] = L.hd[v] /\ L.flip[p] = L.flip[v]
      BY <1>1, <1>2, <1>15
    <3>4. ChildOf(m, K, p, n[v].right, L.pos[v] + 1, L.hi[v])
      BY <3>1, <3>2, <3>3, ChildStays
    <3>5. L.pos[v] + 1 = K.lo[p] /\ L.hi[v] = K.pos[p] - 1
      BY Zenon, <1>12, <1>1, <1>2, <2>8
    <3> QED
      BY Zenon, <3>4, <3>5
  <2>5. ChildOf(m, K, p, n[p].right, K.pos[p] + 1, K.hi[p])
    <3>1. ChildOf(n, L, p, n[p].right, L.pos[p] + 1, L.hi[p])
      BY Zenon, <1>1
    <3>2. n[p].right # NoVertex => /\ m[n[p].right].parent = p /\ m[n[p].right].reversed = n[n[p].right].reversed
                            /\ K.lo[n[p].right] = L.lo[n[p].right] /\ K.hi[n[p].right] = L.hi[n[p].right]
      BY Zenon, <2>2, <2>3, <1>2, <1>11
    <3>3. K.hd = L.hd /\ K.flip = L.flip /\ L.hd[p] = L.hd[p] /\ L.flip[p] = L.flip[p]
      BY Zenon, <1>1, <1>2, <1>15
    <3>4. ChildOf(m, K, p, n[p].right, L.pos[p] + 1, L.hi[p])
      BY <3>1, <3>2, <3>3, ChildStays
    <3>5. L.pos[p] + 1 = K.pos[p] + 1 /\ L.hi[p] = K.hi[p]
      BY <1>12, <1>1, <1>2, <2>8
    <3> QED
      BY Zenon, <3>4, <3>5
  <2>6. ChildOf(m, K, v, n[v].left, K.lo[v], K.pos[v] - 1)
    <3>1. ChildOf(n, L, v, n[v].left, L.lo[v], L.pos[v] - 1)
      BY <1>1
    <3>2. n[v].left # NoVertex => /\ m[n[v].left].parent = v /\ m[n[v].left].reversed = n[n[v].left].reversed
                            /\ K.lo[n[v].left] = L.lo[n[v].left] /\ K.hi[n[v].left] = L.hi[n[v].left]
      BY Zenon, <2>2, <2>3, <1>2, <1>11
    <3>3. K.hd = L.hd /\ K.flip = L.flip /\ L.hd[v] = L.hd[v] /\ L.flip[v] = L.flip[v]
      BY <1>1, <1>2, <1>15
    <3>4. ChildOf(m, K, v, n[v].left, L.lo[v], L.pos[v] - 1)
      BY <3>1, <3>2, <3>3, ChildStays
    <3>5. L.lo[v] = K.lo[v] /\ L.pos[v] - 1 = K.pos[v] - 1
      BY <1>12, <1>1, <1>2, <2>8
    <3> QED
      BY Zenon, <3>4, <3>5
  <2>7. ChildOf(m, K, v, p, K.pos[v] + 1, K.hi[v])
    <3>1. K.lo[p] = K.pos[v] + 1 /\ K.hi[p] = K.hi[v] /\ K.hd[p] = K.hd[v] /\ p # NoVertex
      BY Zenon, <1>12, <1>1, <1>2, <2>8
    <3>2. K.flip[p] = (K.flip[v] # m[p].reversed)
      BY <1>1, <1>2, <1>5, <1>11, <1>15
    <3> QED
      BY Zenon, <2>2, <3>1, <3>2 DEF ChildOf
  <2> QED
    <3>1. /\ ChildOf(m, K, v, Early(m, K, v), K.lo[v], K.pos[v] - 1)
          /\ ChildOf(m, K, v, Late(m, K, v), K.pos[v] + 1, K.hi[v])
      BY Zenon, <2>1, <2>6, <2>7, <1>10
    <3>2. /\ ChildOf(m, K, p, Early(m, K, p), K.lo[p], K.pos[p] - 1)
          /\ ChildOf(m, K, p, Late(m, K, p), K.pos[p] + 1, K.hi[p])
      BY <2>1, <2>4, <2>5, <1>10
    <3> QED
      BY <3>1, <3>2, <1>8, <1>9, <1>6 DEF Children
<1>13. CASE n[p].left # v
  <2>1. /\ m[p].right = n[v].left /\ m[p].left = n[p].left
        /\ m[v].right = n[v].right /\ m[v].left = p
    BY Zenon, <1>13, <1>1, <1>3 DEF Rotating
  <2>2. /\ m[p].parent = v
        /\ n[v].left # NoVertex => m[n[v].left].parent = p
        /\ n[v].right # NoVertex => m[n[v].right].parent = v
        /\ n[p].left # NoVertex => m[n[p].left].parent = p
    <3>1. m[p].parent = v
      BY Zenon, <1>13, <1>1, <1>3 DEF Rotating
    <3>2. n[v].left # NoVertex => m[n[v].left].parent = p
      BY Zenon, <1>13, <1>1, <1>3 DEF Rotating, Some
    <3>3. n[v].right # NoVertex => m[n[v].right].parent = v
      <4>1. n[v].right # NoVertex => n[v].right \in Vertex /\ n[n[v].right].parent = v
        BY Zenon, <1>1, <1>3 DEF Some, ChildOf
      <4>2. n[v].right # NoVertex => n[v].left # n[v].right
        BY <1>1, <1>4, <4>1 DEF ChildOf, Shape, Spans
      <4> QED
        BY Zenon, <1>13, <4>1, <4>2, <1>3 DEF Rotating
    <3>4. n[p].left # NoVertex => m[n[p].left].parent = p
      <4>1. n[p].left # NoVertex => n[p].left \in Vertex /\ n[n[p].left].parent = p
        BY Zenon, <1>1, <1>3 DEF Some, ChildOf
      <4>2. n[p].left # NoVertex => n[p].left # n[v].left
        BY <1>1, <4>1 DEF ChildOf
      <4> QED
        BY Zenon, <1>13, <4>1, <4>2, <1>3 DEF Rotating
    <3> QED
      BY <3>1, <3>2, <3>3, <3>4
  <2>3. /\ n[v].left # NoVertex => n[v].left \in Vertex \ {v, p}
        /\ n[v].right # NoVertex => n[v].right \in Vertex \ {v, p}
        /\ n[p].left # NoVertex => n[p].left \in Vertex \ {v, p}
    BY Zenon, <1>13, <1>1, <1>3, <1>6 DEF Some
  <2>8. /\ L.pos[p] \in Int /\ L.pos[v] \in Int /\ L.lo[p] \in Int /\ L.hi[p] \in Int
        /\ L.lo[v] \in Int /\ L.hi[v] \in Int
    BY <1>1, <1>4
  <2>4. ChildOf(m, K, p, n[v].left, K.pos[p] + 1, K.hi[p])
    <3>1. ChildOf(n, L, v, n[v].left, L.lo[v], L.pos[v] - 1)
      BY <1>1
    <3>2. n[v].left # NoVertex => /\ m[n[v].left].parent = p /\ m[n[v].left].reversed = n[n[v].left].reversed
                            /\ K.lo[n[v].left] = L.lo[n[v].left] /\ K.hi[n[v].left] = L.hi[n[v].left]
      BY <2>2, <2>3, <1>2, <1>11
    <3>3. K.hd = L.hd /\ K.flip = L.flip /\ L.hd[p] = L.hd[v] /\ L.flip[p] = L.flip[v]
      BY <1>1, <1>2, <1>15
    <3>4. ChildOf(m, K, p, n[v].left, L.lo[v], L.pos[v] - 1)
      BY <3>1, <3>2, <3>3, ChildStays
    <3>5. L.lo[v] = K.pos[p] + 1 /\ L.pos[v] - 1 = K.hi[p]
      BY <1>13, <1>1, <1>2, <2>8
    <3> QED
      BY <3>4, <3>5
  <2>5. ChildOf(m, K, p, n[p].left, K.lo[p], K.pos[p] - 1)
    <3>1. ChildOf(n, L, p, n[p].left, L.lo[p], L.pos[p] - 1)
      BY Zenon, <1>1
    <3>2. n[p].left # NoVertex => /\ m[n[p].left].parent = p /\ m[n[p].left].reversed = n[n[p].left].reversed
                            /\ K.lo[n[p].left] = L.lo[n[p].left] /\ K.hi[n[p].left] = L.hi[n[p].left]
      BY Zenon, <2>2, <2>3, <1>2, <1>11
    <3>3. K.hd = L.hd /\ K.flip = L.flip /\ L.hd[p] = L.hd[p] /\ L.flip[p] = L.flip[p]
      BY <1>1, <1>2, <1>15
    <3>4. ChildOf(m, K, p, n[p].left, L.lo[p], L.pos[p] - 1)
      BY <3>1, <3>2, <3>3, ChildStays
    <3>5. L.lo[p] = K.lo[p] /\ L.pos[p] - 1 = K.pos[p] - 1
      BY <1>13, <1>1, <1>2, <2>8
    <3> QED
      BY Zenon, <3>4, <3>5
  <2>6. ChildOf(m, K, v, n[v].right, K.pos[v] + 1, K.hi[v])
    <3>1. ChildOf(n, L, v, n[v].right, L.pos[v] + 1, L.hi[v])
      BY <1>1
    <3>2. n[v].right # NoVertex => /\ m[n[v].right].parent = v /\ m[n[v].right].reversed = n[n[v].right].reversed
                            /\ K.lo[n[v].right] = L.lo[n[v].right] /\ K.hi[n[v].right] = L.hi[n[v].right]
      BY <2>2, <2>3, <1>2, <1>11
    <3>3. K.hd = L.hd /\ K.flip = L.flip /\ L.hd[v] = L.hd[v] /\ L.flip[v] = L.flip[v]
      BY <1>1, <1>2, <1>15
    <3>4. ChildOf(m, K, v, n[v].right, L.pos[v] + 1, L.hi[v])
      BY <3>1, <3>2, <3>3, ChildStays
    <3>5. L.pos[v] + 1 = K.pos[v] + 1 /\ L.hi[v] = K.hi[v]
      BY <1>13, <1>1, <1>2, <2>8
    <3> QED
      BY <3>4, <3>5
  <2>7. ChildOf(m, K, v, p, K.lo[v], K.pos[v] - 1)
    <3>1. K.lo[p] = K.lo[v] /\ K.hi[p] = K.pos[v] - 1 /\ K.hd[p] = K.hd[v] /\ p # NoVertex
      BY <1>13, <1>1, <1>2, <2>8
    <3>2. K.flip[p] = (K.flip[v] # m[p].reversed)
      BY <1>1, <1>2, <1>5, <1>11, <1>15
    <3> QED
      BY Zenon, <2>2, <3>1, <3>2 DEF ChildOf
  <2> QED
    <3>1. /\ ChildOf(m, K, v, Early(m, K, v), K.lo[v], K.pos[v] - 1)
          /\ ChildOf(m, K, v, Late(m, K, v), K.pos[v] + 1, K.hi[v])
      BY Zenon, <2>1, <2>6, <2>7, <1>10
    <3>2. /\ ChildOf(m, K, p, Early(m, K, p), K.lo[p], K.pos[p] - 1)
          /\ ChildOf(m, K, p, Late(m, K, p), K.pos[p] + 1, K.hi[p])
      BY <2>1, <2>4, <2>5, <1>10
    <3> QED
      BY <3>1, <3>2, <1>8, <1>9, <1>6 DEF Children
<1> QED
  BY <1>12, <1>13

\* Behind a rotation every node is a child of its parent.
LEMMA RotatedParents ==
  ASSUME NEW n, NEW L, Shape(n, L), NEW v \in Vertex, NEW p, p = n[v].parent, p # NoVertex,
         NEW g, g = n[p].parent, g # NoVertex => ~L.flip[g],
         ~L.flip[v], ~L.flip[p], NEW K, K = Rotated(n, L, v, p),
         NEW m, Rotating(n, v, p, g, m)
  PROVE  Parents(m, K)
<1>1. /\ p \in Vertex /\ v # p /\ L.hd[v] = L.hd[p] /\ ~n[v].reversed
  BY BeforeRotation
<1>2. /\ K.hd = L.hd /\ K.pos = L.pos /\ K.flip = L.flip
      /\ K.lo[v] = L.lo[p] /\ K.hi[v] = L.hi[p]
      /\ \A x \in Vertex \ {v, p} : K.lo[x] = L.lo[x] /\ K.hi[x] = L.hi[x]
  BY RotatedFields
<1>3. /\ g \in Some /\ v # p /\ g # p /\ g # v
      /\ v = n[p].left \/ v = n[p].right
      /\ g # NoVertex => g \in Vertex /\ (p = n[g].left \/ p = n[g].right)
      /\ n[p].left = v => n[p].right # v
      /\ g # NoVertex /\ n[g].left = p => n[g].right # p
      /\ \A c \in {n[v].left, n[v].right} : c \in Some /\ c \notin {v, p} /\ (c = g => c = NoVertex)
      /\ \A c \in {n[p].left, n[p].right} : c \in Some /\ c # p /\ (c = g => c = NoVertex)
  BY Different
<1>4. \A x \in Vertex : m[x].reversed = n[x].reversed
  BY DEF Rotating
<1>5. NoVertex \notin Vertex
  BY LctAssumption
<1>6. \A x \in Vertex : IF n[p].left = v
         THEN /\ m[x].left = IF x = p THEN n[v].right
                             ELSE IF x = g /\ n[g].left = p THEN v ELSE n[x].left
              /\ m[x].right = IF x = v THEN p
                              ELSE IF x = g /\ n[g].left # p THEN v ELSE n[x].right
              /\ m[x].parent = IF x = v THEN g ELSE IF x = p THEN v
                               ELSE IF x = n[v].right THEN p ELSE n[x].parent
         ELSE /\ m[x].right = IF x = p THEN n[v].left
                              ELSE IF x = g /\ n[g].left # p THEN v ELSE n[x].right
              /\ m[x].left = IF x = v THEN p
                             ELSE IF x = g /\ n[g].left = p THEN v ELSE n[x].left
              /\ m[x].parent = IF x = v THEN g ELSE IF x = p THEN v
                               ELSE IF x = n[v].left THEN p ELSE n[x].parent
  BY DEF Rotating
<1>7. CASE n[p].left = v
  <2>1. \A x \in Vertex :
           /\ m[x].left = IF x = p THEN n[v].right
                          ELSE IF x = g /\ n[g].left = p THEN v ELSE n[x].left
           /\ m[x].right = IF x = v THEN p
                           ELSE IF x = g /\ n[g].left # p THEN v ELSE n[x].right
           /\ m[x].parent = IF x = v THEN g ELSE IF x = p THEN v
                            ELSE IF x = n[v].right THEN p ELSE n[x].parent
    BY <1>6, <1>7
  <2>2. ASSUME NEW x \in Vertex, m[x].parent = NoVertex
        PROVE  /\ K.flip[x] = m[x].reversed
               /\ \A u \in Vertex : K.hd[u] = K.hd[x] => Within(K, u, x)
               /\ K.pos[K.hd[x]] = K.lo[x]
    <3>1. CASE x = v
      <4>1. g = NoVertex
        BY <2>1, <2>2, <3>1
      <4>2. /\ L.flip[p] = n[p].reversed
            /\ \A u \in Vertex : L.hd[u] = L.hd[p] => Within(L, u, p)
            /\ L.pos[L.hd[p]] = L.lo[p]
        BY <4>1, <1>1 DEF Shape, Parents
      <4>3. \A u \in Vertex : L.hd[u] = L.hd[v] => Within(K, u, v)
        BY <4>2, <1>1, <1>2 DEF Within
      <4>4. n[v].reversed = FALSE /\ L.flip[v] = FALSE
        BY <1>1, NodeFields, LayoutFields DEF Shape
      <4> QED
        BY <4>2, <4>3, <4>4, <1>1, <1>2, <1>4, <3>1
    <3>2. CASE x # v
      <4>1. x # p /\ n[x].parent = NoVertex
        BY <2>1, <2>2, <3>2, <1>1, <1>5
      <4>2. /\ L.flip[x] = n[x].reversed
            /\ \A u \in Vertex : L.hd[u] = L.hd[x] => Within(L, u, x)
            /\ L.pos[L.hd[x]] = L.lo[x]
        BY <4>1 DEF Shape, Parents
      <4> QED
        BY <4>1, <4>2, <3>2, <1>2, <1>4 DEF Within
    <3> QED
      BY Zenon, <3>1, <3>2
  <2>3. ASSUME NEW x \in Vertex, m[x].parent # NoVertex
        PROVE  x = m[m[x].parent].left \/ x = m[m[x].parent].right
    <3>1. CASE x = v
      BY <3>1, <2>3, <2>1, <1>3, <1>1
    <3>2. CASE x = p
      BY <3>2, <2>3, <2>1, <1>3, <1>1
    <3>3. CASE x \notin {v, p} /\ x = n[v].right
      BY <3>3, <2>3, <2>1, <1>3, <1>1
    <3>4. CASE x \notin {v, p} /\ x # n[v].right
      <4>1. m[x].parent = n[x].parent
        BY <2>1, <3>4
      <4> DEFINE y == n[x].parent
      <4>2. y \in Vertex /\ (x = n[y].left \/ x = n[y].right)
        BY Zenon, <4>1, <2>3, ParentIs
      <4> HIDE DEF y
      <4>3. CASE y \notin {v, p, g}
        BY <4>2, <4>3, <2>1, <4>1 DEF y
      <4>4. CASE y = v
        BY <4>2, <4>4, <2>1, <4>1, <3>4, <1>3 DEF y
      <4>5. CASE y = p
        BY <4>2, <4>5, <2>1, <4>1, <3>4, <1>3, <1>7 DEF y
      <4>6. CASE y = g
        <5>1. n[g].left = p => x = n[g].right /\ m[g].right = n[g].right
          BY Zenon, <4>6, <4>2, <3>4, <2>1, <1>3
        <5>2. n[g].left # p => x = n[g].left /\ m[g].left = n[g].left
          BY <4>6, <4>2, <3>4, <2>1, <1>3, <1>5
        <5> QED
          BY Zenon, <5>1, <5>2, <4>6, <4>1 DEF y
      <4> QED
        BY <4>3, <4>4, <4>5, <4>6
    <3> QED
      BY Zenon, <3>1, <3>2, <3>3, <3>4
  <2> QED
    BY <2>2, <2>3 DEF Parents
<1>8. CASE n[p].left # v
  <2>1. \A x \in Vertex :
           /\ m[x].right = IF x = p THEN n[v].left
                           ELSE IF x = g /\ n[g].left # p THEN v ELSE n[x].right
           /\ m[x].left = IF x = v THEN p
                          ELSE IF x = g /\ n[g].left = p THEN v ELSE n[x].left
           /\ m[x].parent = IF x = v THEN g ELSE IF x = p THEN v
                            ELSE IF x = n[v].left THEN p ELSE n[x].parent
    BY <1>6, <1>8
  <2>2. ASSUME NEW x \in Vertex, m[x].parent = NoVertex
        PROVE  /\ K.flip[x] = m[x].reversed
               /\ \A u \in Vertex : K.hd[u] = K.hd[x] => Within(K, u, x)
               /\ K.pos[K.hd[x]] = K.lo[x]
    <3>1. CASE x = v
      <4>1. g = NoVertex
        BY <2>1, <2>2, <3>1
      <4>2. /\ L.flip[p] = n[p].reversed
            /\ \A u \in Vertex : L.hd[u] = L.hd[p] => Within(L, u, p)
            /\ L.pos[L.hd[p]] = L.lo[p]
        BY <4>1, <1>1 DEF Shape, Parents
      <4>3. \A u \in Vertex : L.hd[u] = L.hd[v] => Within(K, u, v)
        BY <4>2, <1>1, <1>2 DEF Within
      <4>4. n[v].reversed = FALSE /\ L.flip[v] = FALSE
        BY <1>1, NodeFields, LayoutFields DEF Shape
      <4> QED
        BY <4>2, <4>3, <4>4, <1>1, <1>2, <1>4, <3>1
    <3>2. CASE x # v
      <4>1. x # p /\ n[x].parent = NoVertex
        BY <2>1, <2>2, <3>2, <1>1, <1>5
      <4>2. /\ L.flip[x] = n[x].reversed
            /\ \A u \in Vertex : L.hd[u] = L.hd[x] => Within(L, u, x)
            /\ L.pos[L.hd[x]] = L.lo[x]
        BY <4>1 DEF Shape, Parents
      <4> QED
        BY <4>1, <4>2, <3>2, <1>2, <1>4 DEF Within
    <3> QED
      BY <3>1, <3>2
  <2>3. ASSUME NEW x \in Vertex, m[x].parent # NoVertex
        PROVE  x = m[m[x].parent].left \/ x = m[m[x].parent].right
    <3>1. CASE x = v
      BY <3>1, <2>3, <2>1, <1>3, <1>1
    <3>2. CASE x = p
      BY <3>2, <2>3, <2>1, <1>3, <1>1
    <3>3. CASE x \notin {v, p} /\ x = n[v].left
      BY <3>3, <2>3, <2>1, <1>3, <1>1
    <3>4. CASE x \notin {v, p} /\ x # n[v].left
      <4>1. m[x].parent = n[x].parent
        BY Zenon, <2>1, <3>4
      <4> DEFINE y == n[x].parent
      <4>2. y \in Vertex /\ (x = n[y].left \/ x = n[y].right)
        BY <4>1, <2>3, ParentIs
      <4> HIDE DEF y
      <4>3. CASE y \notin {v, p, g}
        BY <4>2, <4>3, <2>1, <4>1 DEF y
      <4>4. CASE y = v
        BY <4>2, <4>4, <2>1, <4>1, <3>4, <1>3 DEF y
      <4>5. CASE y = p
        BY <4>2, <4>5, <2>1, <4>1, <3>4, <1>3, <1>8 DEF y
      <4>6. CASE y = g
        <5>1. n[g].left = p => x = n[g].right /\ m[g].right = n[g].right
          BY Zenon, <4>6, <4>2, <3>4, <2>1, <1>3
        <5>2. n[g].left # p => x = n[g].left /\ m[g].left = n[g].left
          BY <4>6, <4>2, <3>4, <2>1, <1>3, <1>5
        <5> QED
          BY <5>1, <5>2, <4>6, <4>1 DEF y
      <4> QED
        BY <4>3, <4>4, <4>5, <4>6
    <3> QED
      BY Zenon, <3>1, <3>2, <3>3, <3>4
  <2> QED
    BY <2>2, <2>3 DEF Parents
<1> QED
  BY <1>7, <1>8

-----------------------------------------------------------------------------
(* Maxima.                                                                 *)

\* A weight and its edge, as max holds them.
Pair == (Weight \cup {0}) \X (Edge \cup {NoEdge})

\* The preferred edges that the node has, with their weights.
Own(n, u) ==
  {<<n[u].edges[e], e>> : e \in {n[u].preferred[1], n[u].preferred[2]} \cap DOMAIN n[u].edges}

\* What a node caches is a heaviest edge of its subtree.
Heaviest(n, L, x) ==
  /\ n[x].max = None \/ \E u \in Vertex : Within(L, u, x) /\ n[x].max \in Own(n, u)
  /\ \A u \in Vertex : Within(L, u, x) => \A q \in Own(n, u) : q[1] <= n[x].max[1]

\* All caches are right but those of the nodes above S.
Caches(n, L, S) ==
  \A x \in Vertex : (\A s \in S : ~Within(L, s, x)) => Heaviest(n, L, x)

\* Weights are natural numbers.
LEMMA PairIs ==
  ASSUME NEW q \in Pair
  PROVE  q[1] \in Nat
<1>1. \A A, B : \A x \in A \X B : x[1] \in A
  OBVIOUS
<1> DEFINE A == Weight \cup {0}
           B == Edge \cup {NoEdge}
<1>2. q \in A \X B
  BY DEF Pair
<1>3. A \subseteq Nat
  BY LctAssumption
<1> HIDE DEF A, B
<1> QED
  BY <1>1, <1>2, <1>3

\* The heavier of two is one of them and at least as heavy as both.
LEMMA HeavierIs ==
  ASSUME NEW a \in Pair, NEW b \in Pair
  PROVE  /\ Heavier(a, b) \in {a, b} /\ Heavier(a, b) \in Pair
         /\ a[1] <= Heavier(a, b)[1] /\ b[1] <= Heavier(a, b)[1]
<1>1. a[1] \in Nat /\ b[1] \in Nat
  BY PairIs
<1> QED
  BY <1>1 DEF Heavier

\* The maximum of a node is the heaviest of its own and its children's.
LEMMA MaxOfIs ==
  ASSUME NEW n \in Nodes, NEW v \in Vertex
  PROVE  /\ MaxOf(n, v) \in Pair
         /\ \/ MaxOf(n, v) = None \/ MaxOf(n, v) \in Own(n, v)
            \/ n[v].left # NoVertex /\ MaxOf(n, v) = n[n[v].left].max
            \/ n[v].right # NoVertex /\ MaxOf(n, v) = n[n[v].right].max
         /\ \A q \in Own(n, v) : q[1] <= MaxOf(n, v)[1]
         /\ n[v].left # NoVertex => n[n[v].left].max[1] <= MaxOf(n, v)[1]
         /\ n[v].right # NoVertex => n[n[v].right].max[1] <= MaxOf(n, v)[1]
<1> DEFINE own(e) == IF e \in DOMAIN n[v].edges THEN <<n[v].edges[e], e>> ELSE None
           below(c) == IF c = NoVertex THEN None ELSE n[c].max
           a == own(n[v].preferred[1])
           b == own(n[v].preferred[2])
           c == below(n[v].left)
           d == below(n[v].right)
           h1 == Heavier(None, a)
           h2 == Heavier(h1, b)
           h3 == Heavier(h2, c)
           h4 == Heavier(h3, d)
<1>1. None \in Pair
  BY DEF None, Pair
<1>2. \A e : own(e) \in Pair
  BY <1>1, NodeFields DEF Pair
<1>3. \A x \in Some : below(x) \in Pair
  BY <1>1, NodeFields DEF Some, Pair
<1>4. n[v].left \in Some /\ n[v].right \in Some
  BY NodeFields
<1>5. a \in Pair /\ b \in Pair /\ c \in Pair /\ d \in Pair
  BY <1>2, <1>3, <1>4
<1>6. a \in Own(n, v) \cup {None} /\ b \in Own(n, v) \cup {None}
  BY DEF Own
<1>7. \A q \in Own(n, v) : q \in {a, b}
  BY DEF Own
<1>8. /\ n[v].left # NoVertex => c = n[n[v].left].max
      /\ n[v].right # NoVertex => d = n[n[v].right].max
      /\ n[v].left = NoVertex => c = None
      /\ n[v].right = NoVertex => d = None
  OBVIOUS
<1>9. MaxOf(n, v) = h4
  BY DEF MaxOf
<1> HIDE DEF own, below, a, b, c, d
<1>10. h1 \in {None, a} /\ h1 \in Pair /\ a[1] <= h1[1]
  BY <1>1, <1>5, HeavierIs
<1> HIDE DEF h1
<1>11. h2 \in {h1, b} /\ h2 \in Pair /\ h1[1] <= h2[1] /\ b[1] <= h2[1]
  BY <1>10, <1>5, HeavierIs
<1> HIDE DEF h2
<1>12. h3 \in {h2, c} /\ h3 \in Pair /\ h2[1] <= h3[1] /\ c[1] <= h3[1]
  BY <1>11, <1>5, HeavierIs
<1> HIDE DEF h3
<1>13. h4 \in {h3, d} /\ h4 \in Pair /\ h3[1] <= h4[1] /\ d[1] <= h4[1]
  BY <1>12, <1>5, HeavierIs
<1> HIDE DEF h4
<1>14. \A q \in Pair : q[1] \in Nat
  BY PairIs
<1>15. a[1] <= h4[1] /\ b[1] <= h4[1] /\ c[1] <= h4[1] /\ d[1] <= h4[1]
  <2>1. /\ a[1] \in Nat /\ b[1] \in Nat /\ c[1] \in Nat /\ d[1] \in Nat
        /\ h1[1] \in Nat /\ h2[1] \in Nat /\ h3[1] \in Nat /\ h4[1] \in Nat
    BY <1>14, <1>5, <1>10, <1>11, <1>12, <1>13
  <2> QED
    BY <2>1, <1>10, <1>11, <1>12, <1>13
<1>16. h4 \in {None, a, b, c, d}
  BY <1>10, <1>11, <1>12, <1>13
<1> QED
  BY <1>6, <1>7, <1>8, <1>9, <1>13, <1>15, <1>16

\* The subtree of a node is the node and the subtrees of its children.
LEMMA SubtreeIs ==
  ASSUME NEW n, NEW L, Shape(n, L), NEW v \in Vertex, NEW u \in Vertex
  PROVE  Within(L, u, v) <=> \/ u = v
                             \/ n[v].left # NoVertex /\ Within(L, u, n[v].left)
                             \/ n[v].right # NoVertex /\ Within(L, u, n[v].right)
<1> DEFINE a == Early(n, L, v)
           b == Late(n, L, v)
<1>1. /\ ChildOf(n, L, v, a, L.lo[v], L.pos[v] - 1)
      /\ ChildOf(n, L, v, b, L.pos[v] + 1, L.hi[v])
  BY DEF Shape, Children
<1>2. {a, b} = {n[v].left, n[v].right}
  BY DEF Early, Late
<1> HIDE DEF a, b
<1>3. /\ L.lo[v] \in Int /\ L.hi[v] \in Int /\ L.pos[v] \in Int /\ L.pos[u] \in Int
      /\ L.lo[v] <= L.pos[v] /\ L.pos[v] <= L.hi[v]
  BY LayoutFields DEF Shape, Spans
<1>4. L.hd[u] = L.hd[v] /\ L.pos[u] = L.pos[v] => u = v
  BY DEF Shape, Spans
<1>5. Within(L, u, v) <=> \/ u = v
                          \/ L.hd[u] = L.hd[v] /\ L.lo[v] <= L.pos[u] /\ L.pos[u] <= L.pos[v] - 1
                          \/ L.hd[u] = L.hd[v] /\ L.pos[v] + 1 <= L.pos[u] /\ L.pos[u] <= L.hi[v]
  BY <1>3, <1>4 DEF Within
<1>6. /\ a # NoVertex => L.hd[a] = L.hd[v] /\ L.lo[a] = L.lo[v] /\ L.hi[a] = L.pos[v] - 1
      /\ a = NoVertex => L.lo[v] = L.pos[v]
      /\ b # NoVertex => L.hd[b] = L.hd[v] /\ L.lo[b] = L.pos[v] + 1 /\ L.hi[b] = L.hi[v]
      /\ b = NoVertex => L.hi[v] = L.pos[v]
  BY <1>1, <1>3 DEF ChildOf
<1>7. (L.hd[u] = L.hd[v] /\ L.lo[v] <= L.pos[u] /\ L.pos[u] <= L.pos[v] - 1)
        <=> a # NoVertex /\ Within(L, u, a)
  BY <1>3, <1>6 DEF Within
<1>8. (L.hd[u] = L.hd[v] /\ L.pos[v] + 1 <= L.pos[u] /\ L.pos[u] <= L.hi[v])
        <=> b # NoVertex /\ Within(L, u, b)
  BY <1>3, <1>6 DEF Within
<1> QED
  BY <1>2, <1>5, <1>7, <1>8

\* With the right maxima at the children, what is rebuilt is right.
LEMMA HeaviestLocal ==
  ASSUME NEW n, NEW L, Shape(n, L), NEW v \in Vertex, n[v].max = MaxOf(n, v),
         n[v].left # NoVertex => Heaviest(n, L, n[v].left),
         n[v].right # NoVertex => Heaviest(n, L, n[v].right)
  PROVE  Heaviest(n, L, v)
<1> DEFINE a == n[v].left
           b == n[v].right
<1>1. /\ n[v].max \in Pair
      /\ \/ n[v].max = None \/ n[v].max \in Own(n, v)
         \/ a # NoVertex /\ n[v].max = n[a].max
         \/ b # NoVertex /\ n[v].max = n[b].max
      /\ \A q \in Own(n, v) : q[1] <= n[v].max[1]
      /\ a # NoVertex => n[a].max[1] <= n[v].max[1]
      /\ b # NoVertex => n[b].max[1] <= n[v].max[1]
  BY MaxOfIs DEF Shape
<1>2. \A u \in Vertex : Within(L, u, v) <=> \/ u = v
                                            \/ a # NoVertex /\ Within(L, u, a)
                                            \/ b # NoVertex /\ Within(L, u, b)
  <2> SUFFICES ASSUME NEW u \in Vertex
               PROVE  Within(L, u, v) <=> \/ u = v
                                          \/ a # NoVertex /\ Within(L, u, a)
                                          \/ b # NoVertex /\ Within(L, u, b)
    OBVIOUS
  <2> QED
    BY SubtreeIs
<1>3. n[v].max[1] \in Nat
  BY <1>1, PairIs
<1>4. /\ a # NoVertex => a \in Vertex /\ n[a].max[1] \in Nat
      /\ b # NoVertex => b \in Vertex /\ n[b].max[1] \in Nat
  <2>1. a \in Some /\ b \in Some
    BY NodeFields DEF Shape
  <2>2. \A x \in Vertex : n[x].max \in Pair
    BY NodeFields DEF Shape, Pair
  <2> QED
    BY <2>1, <2>2, PairIs DEF Some
<1>5. \A u \in Vertex : \A q \in Own(n, u) : q[1] \in Nat
  <2> SUFFICES ASSUME NEW u \in Vertex, NEW q \in Own(n, u) PROVE q[1] \in Nat
    OBVIOUS
  <2>1. \A e \in DOMAIN n[u].edges : n[u].edges[e] \in Weight
    BY NodeFields DEF Shape
  <2>2. PICK e \in DOMAIN n[u].edges : q = <<n[u].edges[e], e>>
    BY DEF Own
  <2>3. q[1] = n[u].edges[e]
    BY <2>2
  <2> QED
    BY <2>1, <2>3, LctAssumption
<1>9. (a # NoVertex => Heaviest(n, L, a)) /\ (b # NoVertex => Heaviest(n, L, b))
  OBVIOUS
<1> HIDE DEF a, b
<1>6. /\ a # NoVertex => /\ n[a].max = None \/ \E u \in Vertex : Within(L, u, a) /\ n[a].max \in Own(n, u)
                         /\ \A u \in Vertex : Within(L, u, a) => \A q \in Own(n, u) : q[1] <= n[a].max[1]
      /\ b # NoVertex => /\ n[b].max = None \/ \E u \in Vertex : Within(L, u, b) /\ n[b].max \in Own(n, u)
                         /\ \A u \in Vertex : Within(L, u, b) => \A q \in Own(n, u) : q[1] <= n[b].max[1]
  BY <1>9 DEF Heaviest
<1>7. n[v].max = None \/ \E u \in Vertex : Within(L, u, v) /\ n[v].max \in Own(n, u)
  BY <1>1, <1>2, <1>6
<1>8. ASSUME NEW u \in Vertex, Within(L, u, v), NEW q \in Own(n, u)
      PROVE  q[1] <= n[v].max[1]
  <2>1. q[1] \in Nat
    BY <1>5
  <2>2. CASE u = v
    BY <2>2, <1>1, <1>8
  <2>3. CASE a # NoVertex /\ Within(L, u, a)
    <3>1. q[1] <= n[a].max[1]
      BY <2>3, <1>6, <1>8
    <3> QED
      BY <3>1, <2>1, <2>3, <1>1, <1>3, <1>4
  <2>4. CASE b # NoVertex /\ Within(L, u, b)
    <3>1. q[1] <= n[b].max[1]
      BY <2>4, <1>6, <1>8
    <3> QED
      BY <3>1, <2>1, <2>4, <1>1, <1>3, <1>4
  <2> QED
    BY <2>2, <2>3, <2>4, <1>2, <1>8
<1> QED
  BY <1>7, <1>8 DEF Heaviest

\* A subtree that stays keeps its maximum right.
LEMMA HeaviestStays ==
  ASSUME NEW n, NEW L, NEW m, NEW K, Kept(n, m), NEW x \in Vertex, Heaviest(n, L, x),
         m[x].max = n[x].max, \A u \in Vertex : Within(K, u, x) <=> Within(L, u, x)
  PROVE  Heaviest(m, K, x)
<1>1. \A u \in Vertex : Own(m, u) = Own(n, u)
  BY DEF Own, Kept
<1> QED
  BY <1>1 DEF Heaviest

\* The subtree of v.
Sub(L, v) == {u \in Vertex : Within(L, u, v)}

\* What turning splay nodes does to the pointers: other paths and the fields
\* that do not serve the splaying stay, the maxima stay right.
Turning(n, L, m, K, v) ==
  /\ Shape(m, K) /\ Kept(n, m) /\ SameEnds(n, m)
  /\ K.hd = L.hd /\ K.pos = L.pos
  /\ \A x \in Vertex : L.hd[x] # L.hd[v] =>
       m[x] = n[x] /\ K.lo[x] = L.lo[x] /\ K.hi[x] = L.hi[x] /\ K.flip[x] = L.flip[x]
  /\ \A S \in SUBSET Vertex : Caches(n, L, S) => Caches(m, K, S)

\* No reversal is left between the root and v.
Unflipped(L, v) == \A a \in Vertex : Within(L, v, a) => ~L.flip[a]

\* Turning twice is turning.
LEMMA TurningTwice ==
  ASSUME NEW n, NEW L, NEW m, NEW K, NEW q, NEW M, NEW v,
         Turning(n, L, m, K, v), Turning(m, K, q, M, v)
  PROVE  Turning(n, L, q, M, v)
<1>1. Kept(n, q) /\ SameEnds(n, q)
  BY DEF Turning, Kept, SameEnds
<1>2. Shape(q, M) /\ M.hd = L.hd /\ M.pos = L.pos
  BY DEF Turning
<1>3. \A S \in SUBSET Vertex : Caches(n, L, S) => Caches(q, M, S)
  BY DEF Turning
<1>4. ASSUME NEW x \in Vertex, L.hd[x] # L.hd[v]
      PROVE  q[x] = n[x] /\ M.lo[x] = L.lo[x] /\ M.hi[x] = L.hi[x] /\ M.flip[x] = L.flip[x]
  <2>1. m[x] = n[x] /\ K.lo[x] = L.lo[x] /\ K.hi[x] = L.hi[x] /\ K.flip[x] = L.flip[x]
    BY <1>4 DEF Turning
  <2>2. K.hd[x] # K.hd[v]
    BY <1>4 DEF Turning
  <2>3. q[x] = m[x] /\ M.lo[x] = K.lo[x] /\ M.hi[x] = K.hi[x] /\ M.flip[x] = K.flip[x]
    BY <2>2 DEF Turning
  <2> QED
    BY <2>1, <2>3
<1> QED
  BY <1>1, <1>2, <1>3, <1>4 DEF Turning

\* Doing nothing is turning.
LEMMA TurningNot ==
  ASSUME NEW n, NEW L, NEW v, Shape(n, L)
  PROVE  Turning(n, L, n, L, v)
BY DEF Turning, Kept, SameEnds

\* The parent's subtree holds the child's.
LEMMA ParentHolds ==
  ASSUME NEW n, NEW L, Shape(n, L), NEW v \in Vertex, n[v].parent # NoVertex,
         NEW u \in Vertex, Within(L, u, v)
  PROVE  Within(L, u, n[v].parent) /\ u # n[v].parent
<1> DEFINE p == n[v].parent
<1>1. p \in Vertex /\ (v = n[p].left \/ v = n[p].right) /\ v # NoVertex
  BY ParentIs
<1> HIDE DEF p
<1>2. Within(L, u, p)
  BY <1>1, SubtreeIs
<1>3. u # p
  <2>1. \/ L.lo[v] = L.lo[p] /\ L.hi[v] = L.pos[p] - 1
        \/ L.lo[v] = L.pos[p] + 1 /\ L.hi[v] = L.hi[p]
    BY <1>1, ChildIs
  <2>2. L.pos[p] \in Int /\ L.pos[u] \in Int /\ L.lo[v] \in Int /\ L.hi[v] \in Int
    BY <1>1, LayoutFields DEF Shape
  <2> QED
    BY <2>1, <2>2 DEF Within
<1> QED
  BY <1>2, <1>3 DEF p

\* Within is between the ends, and whatever is within is in the path.
LEMMA WithinSelf ==
  ASSUME NEW n, NEW L, Shape(n, L), NEW v \in Vertex
  PROVE  Within(L, v, v)
BY DEF Within, Shape, Spans

\* One rotation.
LEMMA RotateKeeps ==
  ASSUME NEW n, NEW L, Shape(n, L), NEW x \in Vertex, NEW v \in Vertex, Within(L, v, x),
         Unflipped(L, v), n[x].parent # NoVertex, NEW m, m = RotateUp(n, x)
  PROVE  \E K : /\ Turning(n, L, m, K, v) /\ Unflipped(K, v) /\ Within(K, v, x)
                /\ x = v => Sub(L, v) \subseteq Sub(K, v) /\ Sub(L, v) # Sub(K, v)
                /\ x # v /\ v # n[x].parent => Sub(L, v) = Sub(K, v)
<1> DEFINE p == n[x].parent
           g == n[p].parent
           K == Rotated(n, L, x, p)
<1>1. /\ p \in Vertex /\ g \in Some /\ x # p
      /\ g # NoVertex => g \in Vertex
  BY Different
<1>2. Within(L, v, p) /\ v # p /\ (g # NoVertex => Within(L, v, g))
  BY <1>1, ParentHolds
<1>3. ~L.flip[x] /\ ~L.flip[p] /\ (g # NoVertex => ~L.flip[g])
  BY <1>1, <1>2 DEF Unflipped
<1>4. Rotating(n, x, p, g, m)
  BY RotateUpIs
<1>5. Spans(K) /\ Children(m, K) /\ Parents(m, K)
  <2>1. Spans(K)
    BY <1>3, RotatedSpans
  <2>2. Children(m, K)
    BY <1>3, <1>4, RotatedChildren
  <2>3. Parents(m, K)
    BY <1>3, <1>4, RotatedParents
  <2> QED
    BY <2>1, <2>2, <2>3
<1>6. /\ K \in Layouts /\ K.hd = L.hd /\ K.pos = L.pos /\ K.flip = L.flip
      /\ K.lo[x] = L.lo[p] /\ K.hi[x] = L.hi[p]
      /\ n[p].left = x => K.lo[p] = L.pos[x] + 1 /\ K.hi[p] = L.hi[p]
      /\ n[p].left # x => K.lo[p] = L.lo[p] /\ K.hi[p] = L.pos[x] - 1
      /\ \A y \in Vertex \ {x, p} : K.lo[y] = L.lo[y] /\ K.hi[y] = L.hi[y]
  BY <1>3, RotatedFields
<1>7. /\ L.hd[x] = L.hd[p]
      /\ n[p].left = x => L.lo[x] = L.lo[p] /\ L.hi[x] = L.pos[p] - 1
      /\ n[p].left # x => L.lo[x] = L.pos[p] + 1 /\ L.hi[x] = L.hi[p]
  BY <1>3, BeforeRotation
<1>8. Shape(m, K)
  BY <1>4, <1>5, <1>6 DEF Shape, Rotating
<1>9. Kept(n, m) /\ SameEnds(n, m)
  BY <1>4 DEF Rotating
<1>10. \A y \in Vertex : L.lo[y] \in Int /\ L.hi[y] \in Int /\ L.pos[y] \in Int
  BY LayoutFields DEF Shape
<1>11. L.lo[x] <= L.pos[x] /\ L.pos[x] <= L.hi[x] /\ L.lo[p] <= L.pos[p] /\ L.pos[p] <= L.hi[p]
  BY <1>1 DEF Shape, Spans
<1>12. \A y \in Vertex \ {x, p}, u \in Vertex : Within(K, u, y) <=> Within(L, u, y)
  BY <1>6 DEF Within
<1>13. \A u \in Vertex : Within(K, u, x) <=> Within(L, u, p)
  BY <1>6, <1>7 DEF Within
<1>14. \A u \in Vertex : Within(K, u, p) => Within(L, u, p)
  <2> SUFFICES ASSUME NEW u \in Vertex, Within(K, u, p) PROVE Within(L, u, p)
    OBVIOUS
  <2>1. L.pos[u] \in Int /\ L.pos[x] \in Int /\ L.lo[p] \in Int /\ L.hi[p] \in Int /\ L.pos[p] \in Int
        /\ L.lo[x] \in Int /\ L.hi[x] \in Int
    BY <1>10, <1>1
  <2>2. CASE n[p].left = x
    BY <2>2, <2>1, <1>6, <1>7, <1>11 DEF Within
  <2>3. CASE n[p].left # x
    BY <2>3, <2>1, <1>6, <1>7, <1>11 DEF Within
  <2> QED
    BY <2>2, <2>3
<1>15. Unflipped(K, v)
  <2> SUFFICES ASSUME NEW a \in Vertex, Within(K, v, a) PROVE ~K.flip[a]
    BY DEF Unflipped
  <2>1. CASE a = x
    BY <2>1, <1>3, <1>6
  <2>2. CASE a = p
    BY <2>2, <1>3, <1>6
  <2>3. CASE a \notin {x, p}
    BY <2>3, <1>12, <1>6 DEF Unflipped
  <2> QED
    BY <2>1, <2>2, <2>3
<1>16. Within(K, v, x)
  BY <1>13, <1>2
<1>17. x = v => Sub(L, v) \subseteq Sub(K, v) /\ Sub(L, v) # Sub(K, v)
  <2> SUFFICES ASSUME x = v PROVE Sub(L, v) \subseteq Sub(K, v) /\ Sub(L, v) # Sub(K, v)
    OBVIOUS
  <2>1. \A u \in Vertex : Within(L, u, x) => Within(L, u, p) /\ u # p
    BY ParentHolds
  <2>2. Within(L, p, p)
    BY <1>1, WithinSelf
  <2> QED
    BY <2>1, <2>2, <1>13, <1>1 DEF Sub
<1>18. x # v /\ v # p => Sub(L, v) = Sub(K, v)
  BY Zenon, <1>12 DEF Sub
<1>19. \A y \in Vertex : L.hd[y] # L.hd[v] =>
         m[y] = n[y] /\ K.lo[y] = L.lo[y] /\ K.hi[y] = L.hi[y] /\ K.flip[y] = L.flip[y]
  <2> SUFFICES ASSUME NEW y \in Vertex, L.hd[y] # L.hd[v]
               PROVE  m[y] = n[y] /\ K.lo[y] = L.lo[y] /\ K.hi[y] = L.hi[y] /\ K.flip[y] = L.flip[y]
    OBVIOUS
  <2>1. L.hd[v] = L.hd[x] /\ L.hd[v] = L.hd[p] /\ (g # NoVertex => L.hd[v] = L.hd[g])
    BY <1>2 DEF Within
  <2>2. NoVertex \notin Vertex
    BY LctAssumption
  <2>3. y \notin {x, p, g}
    BY <2>1, <2>2
  <2>4. y \notin {n[x].left, n[x].right}
    <3>1. \A c \in {n[x].left, n[x].right} : c # NoVertex => L.hd[c] = L.hd[x]
      BY ChildIs
    <3> QED
      BY <3>1, <2>1, <2>2
  <2> QED
    BY <2>3, <2>4, <1>4, <1>6 DEF Rotating
<1>20. ASSUME NEW S \in SUBSET Vertex, Caches(n, L, S)
       PROVE  Caches(m, K, S)
  <2>1. ASSUME NEW y \in Vertex, y \notin {x, p, g}, \A s \in S : ~Within(K, s, y)
        PROVE  Heaviest(m, K, y)
    <3>1. Heaviest(n, L, y)
      BY <2>1, <1>20, <1>12 DEF Caches
    <3>2. m[y].max = n[y].max
      BY <2>1, <1>4 DEF Rotating
    <3>3. \A u \in Vertex : Within(K, u, y) <=> Within(L, u, y)
      BY <2>1, <1>12
    <3> QED
      BY <3>1, <3>2, <3>3, <1>9, HeaviestStays
  <2>2. ASSUME NEW y \in Vertex, y \in {x, p, g}, \A s \in S : ~Within(K, s, y),
               \A c \in {m[y].left, m[y].right} : c # NoVertex =>
                  \/ c \notin {x, p, g}
                  \/ Heaviest(m, K, c)
        PROVE  Heaviest(m, K, y)
    <3>1. ASSUME NEW c \in {m[y].left, m[y].right}, c # NoVertex
          PROVE  Heaviest(m, K, c)
      <4>1. c \in Vertex
        BY <3>1, <1>8, ChildIs
      <4>2. \A s \in S : ~Within(K, s, c)
        <5>1. \A s \in S : Within(K, s, c) => Within(K, s, y)
          <6> SUFFICES ASSUME NEW s \in S, Within(K, s, c) PROVE Within(K, s, y)
            OBVIOUS
          <6>1. s \in Vertex
            OBVIOUS
          <6> QED
            BY <6>1, <3>1, <1>8, SubtreeIs
        <5> QED
          BY <5>1, <2>2
      <4> QED
        BY <4>1, <4>2, <3>1, <2>1, <2>2
    <3>2. m[y].max = MaxOf(m, y)
      BY <2>2, <1>4 DEF Rotating
    <3>3. /\ m[y].left # NoVertex => Heaviest(m, K, m[y].left)
          /\ m[y].right # NoVertex => Heaviest(m, K, m[y].right)
      BY <3>1
    <3> QED
      BY <3>2, <3>3, <1>8, HeaviestLocal
  <2>3. p \in Vertex /\ m[p].parent = x /\ m[x].parent = g
    <3>1. m[x].parent = g /\ m[p].parent = x
      BY <1>4, <1>1 DEF Rotating
    <3> QED
      BY <3>1, <1>1
  <2>4. \A y \in Vertex : \A c \in {m[y].left, m[y].right} : c # NoVertex => m[c].parent = y
    BY <1>8, ChildIs
  <2>5. g # x /\ g # p /\ x # p
    BY Different
  <2>6. NoVertex \notin Vertex
    BY LctAssumption
  <2>7. \A c \in {m[p].left, m[p].right} : c # NoVertex => c \notin {x, p, g}
    <3> SUFFICES ASSUME NEW c \in {m[p].left, m[p].right}, c # NoVertex PROVE c \notin {x, p, g}
      OBVIOUS
    <3>1. m[c].parent = p /\ c \in Vertex /\ c # p
      BY <2>3, <1>8, ChildIs
    <3>2. c # x
      BY <3>1, <2>3, <2>5
    <3>3. c # g
      <4>1. SUFFICES ASSUME c = g PROVE FALSE
        OBVIOUS
      <4>2. g \in Vertex
        BY <4>1, <3>1
      <4>3. g # NoVertex
        BY <4>2, <2>6
      <4>4. m[x].parent # NoVertex /\ m[m[x].parent].parent = p
        BY <4>1, <4>3, <2>3, <3>1
      <4>5. Within(K, x, g)
        BY <4>4, <2>3, <1>8, ParentHolds, WithinSelf
      <4>6. Within(K, x, p) /\ x # p
        BY <4>2, <4>5, <3>1, <4>1, <1>8, ParentHolds, <2>3, <2>6, <1>1
      <4>7. Within(K, p, x)
        BY <2>3, <1>1, <1>13, WithinSelf
      <4>8. Within(K, x, x) /\ x # x
        BY <4>6, <2>3, <1>8, ParentHolds, <2>6
      <4> QED
        BY <4>8
    <3> QED
      BY <3>1, <3>2, <3>3
  <2>8. (\A s \in S : ~Within(K, s, p)) => Heaviest(m, K, p)
    BY <2>2, <2>3, <2>7
  <2>9. \A s \in S : Within(K, s, p) => Within(K, s, x)
    <3> SUFFICES ASSUME NEW s \in S, Within(K, s, p) PROVE Within(K, s, x)
      OBVIOUS
    <3>1. s \in Vertex
      OBVIOUS
    <3> QED
      BY <3>1, <1>13, <1>14
  <2>10. (\A s \in S : ~Within(K, s, x)) => Heaviest(m, K, x)
    <3> SUFFICES ASSUME \A s \in S : ~Within(K, s, x) PROVE Heaviest(m, K, x)
      OBVIOUS
    <3>1. Heaviest(m, K, p)
      BY <2>8, <2>9
    <3>2. \A c \in {m[x].left, m[x].right} : c # NoVertex => c \notin {x, p, g} \/ Heaviest(m, K, c)
      <4> SUFFICES ASSUME NEW c \in {m[x].left, m[x].right}, c # NoVertex, c \in {x, p, g}
                   PROVE Heaviest(m, K, c)
        OBVIOUS
      <4>1. m[c].parent = x /\ c # x /\ c \in Vertex
        BY <1>8, ChildIs
      <4>2. c # g
        <5>1. SUFFICES ASSUME c = g PROVE FALSE
          OBVIOUS
        <5>2. g # NoVertex /\ m[x].parent # NoVertex
          BY <5>1, <2>3
        <5>3. Within(K, x, g)
          BY <5>2, <2>3, <1>8, ParentHolds, WithinSelf
        <5>4. x # x
          BY <5>1, <5>3, <4>1, <1>8, ParentHolds, <2>6
        <5> QED
          BY <5>4
      <4> QED
        BY <4>1, <4>2, <3>1
    <3> QED
      BY <2>2, <3>2
  <2>11. g # NoVertex /\ (\A s \in S : ~Within(K, s, g)) => Heaviest(m, K, g)
    <3> SUFFICES ASSUME g # NoVertex, \A s \in S : ~Within(K, s, g) PROVE Heaviest(m, K, g)
      OBVIOUS
    <3>1. \A s \in S : ~Within(K, s, x)
      <4> SUFFICES ASSUME NEW s \in S, Within(K, s, x) PROVE FALSE
        OBVIOUS
      <4>1. s \in Vertex
        OBVIOUS
      <4>2. Within(K, s, g)
        BY <4>1, <2>3, <1>8, ParentHolds
      <4> QED
        BY <4>2
    <3>2. Heaviest(m, K, x)
      BY <3>1, <2>10
    <3>3. \A c \in {m[g].left, m[g].right} : c # NoVertex => c \notin {x, p, g} \/ Heaviest(m, K, c)
      <4> SUFFICES ASSUME NEW c \in {m[g].left, m[g].right}, c # NoVertex, c \in {x, p, g}
                   PROVE Heaviest(m, K, c)
        OBVIOUS
      <4>1. m[c].parent = g /\ c # g
        BY <1>1, <1>8, ChildIs
      <4> QED
        BY <4>1, <3>2, <2>3, <2>5
    <3> QED
      BY <2>2, <3>3, <1>1
  <2> QED
    BY <2>1, <2>8, <2>10, <2>11, <1>1, <2>6 DEF Caches
<1>21. Turning(n, L, m, K, v)
  BY <1>6, <1>8, <1>9, <1>19, <1>20 DEF Turning
<1> HIDE DEF K
<1> QED
  BY <1>15, <1>16, <1>17, <1>18, <1>21

-----------------------------------------------------------------------------
(* Splaying.                                                               *)

\* A rotation gives no node but the one turned up the parent that it had not.
LEMMA ParentStays ==
  ASSUME NEW n, NEW L, Shape(n, L), NEW x \in Vertex, n[x].parent # NoVertex,
         NEW m, m = RotateUp(n, x), NEW v \in Vertex, n[v].parent # NoVertex,
         v = x => n[n[x].parent].parent # NoVertex
  PROVE  m[v].parent # NoVertex
<1> DEFINE p == n[x].parent
           g == n[p].parent
<1>1. p \in Vertex /\ x # NoVertex
  BY ParentIs
<1>2. Rotating(n, x, p, g, m)
  BY RotateUpIs
<1> HIDE DEF p, g
<1>3. m[v].parent \in {n[v].parent, p, x} \/ (v = x /\ m[v].parent = g)
  BY <1>2 DEF Rotating
<1> QED
  BY <1>1, <1>3, LctAssumption DEF p, g

\* zig, zig-zig and zig-zag bring v up.
LEMMA ZigKeeps ==
  ASSUME NEW n, NEW L, Shape(n, L), NEW v \in Vertex, Unflipped(L, v), n[v].parent # NoVertex
  PROVE  \E K : /\ Turning(n, L, Zig(n, v), K, v) /\ Unflipped(K, v)
                /\ Sub(L, v) \subseteq Sub(K, v) /\ Sub(L, v) # Sub(K, v)
<1> DEFINE p == n[v].parent
           g == n[p].parent
<1>1. p \in Vertex /\ v # p /\ g # v /\ Within(L, v, v) /\ Within(L, v, p)
  BY Different, WithinSelf, ParentHolds
<1>2. CASE g = NoVertex
  <2>1. Zig(n, v) = RotateUp(n, v)
    BY <1>2 DEF Zig
  <2> QED
    BY <2>1, <1>1, RotateKeeps
<1>3. CASE g # NoVertex /\ SideOf(n, g, p) = SideOf(n, p, v)
  <2> DEFINE m == RotateUp(n, p)
  <2>1. Zig(n, v) = RotateUp(m, v)
    BY <1>3 DEF Zig
  <2>2. PICK M : /\ Turning(n, L, m, M, v) /\ Unflipped(M, v)
                 /\ Sub(L, v) = Sub(M, v)
    BY <1>1, <1>3, RotateKeeps
  <2>3. m[v].parent # NoVertex
    BY <1>1, <1>3, ParentStays
  <2>4. Shape(m, M)
    BY <2>2 DEF Turning
  <2> HIDE DEF m
  <2>5. PICK K : /\ Turning(m, M, RotateUp(m, v), K, v) /\ Unflipped(K, v)
                 /\ Sub(M, v) \subseteq Sub(K, v) /\ Sub(M, v) # Sub(K, v)
    BY <2>2, <2>3, <2>4, WithinSelf, RotateKeeps
  <2>6. Turning(n, L, RotateUp(m, v), K, v)
    BY <2>2, <2>5, TurningTwice
  <2> QED
    BY <2>1, <2>2, <2>5, <2>6
<1>4. CASE g # NoVertex /\ SideOf(n, g, p) # SideOf(n, p, v)
  <2> DEFINE m == RotateUp(n, v)
  <2>1. Zig(n, v) = RotateUp(m, v)
    BY <1>4 DEF Zig
  <2>2. PICK M : /\ Turning(n, L, m, M, v) /\ Unflipped(M, v)
                 /\ Sub(L, v) \subseteq Sub(M, v) /\ Sub(L, v) # Sub(M, v)
    BY <1>1, <1>4, RotateKeeps
  <2>3. m[v].parent # NoVertex
    BY <1>1, <1>4, ParentStays
  <2>4. Shape(m, M)
    BY <2>2 DEF Turning
  <2> HIDE DEF m
  <2>5. PICK K : /\ Turning(m, M, RotateUp(m, v), K, v) /\ Unflipped(K, v)
                 /\ Sub(M, v) \subseteq Sub(K, v) /\ Sub(M, v) # Sub(K, v)
    BY <2>2, <2>3, <2>4, WithinSelf, RotateKeeps
  <2>6. Turning(n, L, RotateUp(m, v), K, v)
    BY <2>2, <2>5, TurningTwice
  <2> QED
    BY <2>1, <2>2, <2>5, <2>6
<1> QED
  BY <1>2, <1>3, <1>4

\* The states that j rounds of splay's loop go through.
Rounds(n, v, j, f) == f = [i \in 0 .. j |-> IF i = 0 THEN n ELSE Zig(f[i - 1], v)]

\* The rounds of splay exist as a sequence.
LEMMA RaiseExists ==
  ASSUME NEW n, NEW v
  PROVE  \A j \in Nat : \E f : Rounds(n, v, j, f)
<1> DEFINE T == {j \in Nat : \E f : Rounds(n, v, j, f)}
<1>1. 0 \in T
  <2> DEFINE f == [i \in 0 .. 0 |-> n]
  <2>1. f = [i \in 0 .. 0 |-> IF i = 0 THEN n ELSE Zig(f[i - 1], v)]
    OBVIOUS
  <2> HIDE DEF f
  <2> QED
    BY <2>1 DEF Rounds
<1>2. ASSUME NEW j \in Nat, j \in T
      PROVE  j + 1 \in T
  <2>1. PICK f : f = [i \in 0 .. j |-> IF i = 0 THEN n ELSE Zig(f[i - 1], v)]
    BY <1>2 DEF Rounds
  <2> DEFINE g == [i \in 0 .. j + 1 |-> IF i = j + 1 THEN Zig(f[j], v) ELSE f[i]]
             h == [i \in 0 .. j + 1 |-> IF i = 0 THEN n ELSE Zig(g[i - 1], v)]
  <2>2. ASSUME NEW i \in 0 .. j + 1 PROVE g[i] = IF i = 0 THEN n ELSE Zig(g[i - 1], v)
    <3>1. CASE i = j + 1
      <4>1. i # 0 /\ i - 1 = j /\ j \in 0 .. j + 1 /\ j # j + 1
        BY <3>1
      <4>2. g[i - 1] = f[j]
        BY <4>1
      <4>3. g[i] = Zig(f[j], v)
        BY <3>1
      <4> QED
        BY <4>1, <4>2, <4>3
    <3>2. CASE i # j + 1
      <4>1. i \in 0 .. j
        BY <3>2
      <4>2. g[i] = f[i]
        BY <3>2
      <4>3. f[i] = IF i = 0 THEN n ELSE Zig(f[i - 1], v)
        BY <4>1, <2>1
      <4>4. i # 0 => g[i - 1] = f[i - 1]
        BY <4>1
      <4> QED
        BY <4>2, <4>3, <4>4
    <3> QED
      BY <3>1, <3>2
  <2>3. DOMAIN g = 0 .. j + 1
    OBVIOUS
  <2>4. g = h
    BY <2>2
  <2> HIDE DEF g
  <2>5. \E k : Rounds(n, v, j + 1, k)
    BY <2>4 DEF Rounds
  <2> QED
    BY <2>5
<1> HIDE DEF T
<1>3. \A j \in Nat : j \in T
  BY <1>1, <1>2, Induction
<1> QED
  BY <1>3 DEF T

\* After as many rounds as there are vertices, v is the root of its splay tree.
LEMMA RaiseKeeps ==
  ASSUME NEW n, NEW L, Shape(n, L), NEW v \in Vertex, Unflipped(L, v)
  PROVE  \E K : /\ Turning(n, L, Raise(n, v), K, v) /\ Unflipped(K, v)
                /\ Raise(n, v)[v].parent = NoVertex
<1> DEFINE N == Cardinality(Vertex)
           raised == CHOOSE f : Rounds(n, v, N, f)
<1>1. N \in Nat
  BY VertexAssumption, FS_CardinalityType
<1>2. raised = [i \in 0 .. N |-> IF i = 0 THEN n ELSE Zig(raised[i - 1], v)]
  <2>1. \E f : Rounds(n, v, N, f)
    BY <1>1, RaiseExists
  <2>2. Rounds(n, v, N, raised)
    BY <2>1
  <2> HIDE DEF raised
  <2> QED
    BY <2>2 DEF Rounds
<1>3. Raise(n, v) = raised[N]
  BY DEF Raise, Rounds
<1> HIDE DEF raised
<1> DEFINE Up1(i) == \E K : /\ Turning(n, L, raised[i], K, v) /\ Unflipped(K, v)
                            /\ raised[i][v].parent = NoVertex \/ Cardinality(Sub(K, v)) > i
           T == {i \in Nat : i <= N => Up1(i)}
<1>4. \A K : IsFiniteSet(Sub(K, v)) /\ Cardinality(Sub(K, v)) \in Nat /\ Cardinality(Sub(K, v)) <= N
  <2> SUFFICES ASSUME NEW K
               PROVE  IsFiniteSet(Sub(K, v)) /\ Cardinality(Sub(K, v)) \in Nat /\ Cardinality(Sub(K, v)) <= N
    OBVIOUS
  <2>1. Sub(K, v) \subseteq Vertex
    BY DEF Sub
  <2> QED
    BY <2>1, VertexAssumption, FS_Subset, FS_CardinalityType
<1>5. 0 \in T
  <2>1. raised[0] = n
    BY <1>1, <1>2
  <2>2. Turning(n, L, raised[0], L, v)
    BY <2>1, TurningNot
  <2>3. v \in Sub(L, v)
    BY WithinSelf DEF Sub
  <2>4. Cardinality(Sub(L, v)) > 0
    BY <2>3, <1>4, FS_EmptySet
  <2> QED
    BY <2>2, <2>4
<1>6. ASSUME NEW i \in Nat, i \in T
      PROVE  i + 1 \in T
  <2> SUFFICES ASSUME i + 1 <= N PROVE Up1(i + 1)
    OBVIOUS
  <2>1. PICK M : /\ Turning(n, L, raised[i], M, v) /\ Unflipped(M, v)
                 /\ raised[i][v].parent = NoVertex \/ Cardinality(Sub(M, v)) > i
    BY <1>1, <1>6
  <2>2. raised[i + 1] = Zig(raised[i], v)
    <3>1. i + 1 \in 0 .. N /\ i + 1 # 0 /\ (i + 1) - 1 = i
      BY <1>1
    <3> QED
      BY <3>1, <1>2
  <2>3. CASE raised[i][v].parent = NoVertex
    <3>1. raised[i + 1] = raised[i]
      BY <2>2, <2>3 DEF Zig
    <3> QED
      BY <3>1, <2>1, <2>3
  <2>4. CASE raised[i][v].parent # NoVertex
    <3> DEFINE m == raised[i]
    <3>1. Shape(m, M)
      BY <2>1 DEF Turning
    <3>2. m[v].parent # NoVertex /\ Unflipped(M, v) /\ raised[i + 1] = Zig(m, v)
      BY <2>1, <2>2, <2>4
    <3>3. Cardinality(Sub(M, v)) > i /\ Turning(n, L, m, M, v)
      BY <2>1, <2>4
    <3> HIDE DEF m
    <3>4. PICK K : /\ Turning(m, M, Zig(m, v), K, v) /\ Unflipped(K, v)
                   /\ Sub(M, v) \subseteq Sub(K, v) /\ Sub(M, v) # Sub(K, v)
      BY <3>1, <3>2, ZigKeeps
    <3>5. Turning(n, L, raised[i + 1], K, v)
      BY <3>2, <3>3, <3>4, TurningTwice
    <3>6. Cardinality(Sub(M, v)) < Cardinality(Sub(K, v))
      <4>1. /\ Cardinality(Sub(M, v)) <= Cardinality(Sub(K, v))
            /\ Cardinality(Sub(M, v)) = Cardinality(Sub(K, v)) => Sub(M, v) = Sub(K, v)
        BY <1>4, <3>4, FS_Subset
      <4> QED
        BY <4>1, <1>4, <3>4
    <3>7. Cardinality(Sub(K, v)) > i + 1
      BY <3>3, <3>6, <1>4
    <3> QED
      BY <3>4, <3>5, <3>7
  <2> QED
    BY <2>3, <2>4
<1> HIDE DEF T
<1>7. \A i \in Nat : i \in T
  BY <1>5, <1>6, Induction
<1>8. PICK K : /\ Turning(n, L, raised[N], K, v) /\ Unflipped(K, v)
               /\ raised[N][v].parent = NoVertex \/ Cardinality(Sub(K, v)) > N
  BY <1>1, <1>7 DEF T
<1>9. raised[N][v].parent = NoVertex
  BY <1>1, <1>4, <1>8
<1> QED
  BY <1>3, <1>8, <1>9

-----------------------------------------------------------------------------
(* Reversals.                                                              *)

\* m is n after x pushed its reversal to its children.
Pushed(n, x, m) ==
  /\ m \in Nodes
  /\ \A y \in Vertex :
       /\ m[y].left = IF y = x /\ n[x].reversed THEN n[x].right ELSE n[y].left
       /\ m[y].right = IF y = x /\ n[x].reversed THEN n[x].left ELSE n[y].right
       /\ m[y].reversed = IF y = x THEN FALSE
                          ELSE IF y \in {n[x].left, n[x].right} /\ n[x].reversed THEN ~n[y].reversed
                          ELSE n[y].reversed
       /\ m[y].parent = n[y].parent /\ m[y].max = n[y].max
       /\ y \notin {x, n[x].left, n[x].right} => m[y] = n[y]
  /\ Kept(n, m) /\ SameEnds(n, m)

\* Turn sets one field of one node.
LEMMA TurnIs ==
  ASSUME NEW n \in Nodes, NEW c \in Some
  PROVE  /\ Turn(n, c) \in Nodes
         /\ \A y \in Vertex : Turn(n, c)[y] = IF y = c THEN [n[c] EXCEPT !.reversed = ~n[c].reversed]
                                              ELSE n[y]
<1>1. CASE c = NoVertex
  BY <1>1, LctAssumption DEF Turn
<1>2. CASE c # NoVertex
  <2>1. c \in Vertex
    BY <1>2 DEF Some
  <2>2. n[c] \in Node
    BY <2>1, NodeFields
  <2>3. [n[c] EXCEPT !.reversed = ~n[c].reversed] \in Node
    BY <2>2 DEF Node
  <2>4. Turn(n, c) = [n EXCEPT ![c] = [n[c] EXCEPT !.reversed = ~n[c].reversed]]
    BY <1>2 DEF Turn
  <2> QED
    BY <2>1, <2>3, <2>4 DEF Nodes
<1> QED
  BY <1>1, <1>2

\* What PushDown does to the pointers.
LEMMA PushDownIs ==
  ASSUME NEW n \in Nodes, NEW x \in Vertex, n[x].left # x, n[x].right # x,
         n[x].left = n[x].right => n[x].left = NoVertex
  PROVE  Pushed(n, x, PushDown(n, x))
<1> DEFINE a == n[x].left
           b == n[x].right
           n0 == [n EXCEPT ![x].left = b, ![x].right = a, ![x].reversed = FALSE]
           r == [n[x] EXCEPT !.left = b, !.right = a, !.reversed = FALSE]
           n1 == Turn(n0, a)
           m == Turn(n1, b)
<1>1. a \in Some /\ b \in Some /\ n[x] \in Node /\ n[x].reversed \in BOOLEAN
  BY NodeFields
<1>2. CASE ~n[x].reversed
  <2>1. PushDown(n, x) = n /\ n[x].reversed = FALSE
    BY <1>1, <1>2 DEF PushDown
  <2>2. Kept(n, n) /\ SameEnds(n, n)
    BY DEF Kept, SameEnds
  <2> QED
    BY <2>1, <2>2 DEF Pushed
<1>3. CASE n[x].reversed
  <2>1. PushDown(n, x) = m
    BY <1>3 DEF PushDown
  <2>2. r \in Node
    BY <1>1 DEF Node, Some
  <2>3. n0 = [n EXCEPT ![x] = r]
    BY DEF Nodes
  <2>4. n0 \in Nodes /\ n0[x] = r /\ \A y \in Vertex \ {x} : n0[y] = n[y]
    BY <2>2, <2>3 DEF Nodes
  <2>5. /\ r.left = b /\ r.right = a /\ r.reversed = FALSE /\ r.parent = n[x].parent
        /\ r.max = n[x].max /\ r.dparent = n[x].dparent /\ r.preferred = n[x].preferred
        /\ r.edges = n[x].edges /\ r.head = n[x].head /\ r.tail = n[x].tail
    BY <1>1 DEF Node
  <2> HIDE DEF n0, r
  <2>6. /\ n1 \in Nodes
        /\ \A y \in Vertex : n1[y] = IF y = a THEN [n0[a] EXCEPT !.reversed = ~n0[a].reversed]
                                     ELSE n0[y]
    BY <1>1, <2>4, TurnIs
  <2> HIDE DEF n1
  <2>7. /\ m \in Nodes
        /\ \A y \in Vertex : m[y] = IF y = b THEN [n1[b] EXCEPT !.reversed = ~n1[b].reversed]
                                    ELSE n1[y]
    BY <1>1, <2>6, TurnIs
  <2> HIDE DEF m
  <2>8. \A y \in Vertex : m[y] = IF y = x THEN r
                                 ELSE IF y \in {a, b} THEN [n[y] EXCEPT !.reversed = ~n[y].reversed]
                                 ELSE n[y]
    <3> SUFFICES ASSUME NEW y \in Vertex
                 PROVE m[y] = IF y = x THEN r
                                 ELSE IF y \in {a, b} THEN [n[y] EXCEPT !.reversed = ~n[y].reversed]
                                 ELSE n[y]
      OBVIOUS
    <3>1. NoVertex \notin Vertex
      BY LctAssumption
    <3>2. CASE y = x
      BY <3>2, <2>4, <2>6, <2>7
    <3>3. CASE y # x /\ y = a
      BY <3>1, <3>3, <2>4, <2>6, <2>7
    <3>4. CASE y # x /\ y = b
      BY <3>1, <3>4, <2>4, <2>6, <2>7
    <3>5. CASE y \notin {x, a, b}
      BY <3>5, <2>4, <2>6, <2>7
    <3> QED
      BY <3>2, <3>3, <3>4, <3>5
  <2>9. ASSUME NEW y \in Vertex
        PROVE  /\ m[y].left = IF y = x THEN b ELSE n[y].left
               /\ m[y].right = IF y = x THEN a ELSE n[y].right
               /\ m[y].reversed = IF y = x THEN FALSE
                          ELSE IF y \in {a, b} THEN ~n[y].reversed ELSE n[y].reversed
               /\ m[y].parent = n[y].parent /\ m[y].max = n[y].max
               /\ m[y].dparent = n[y].dparent /\ m[y].preferred = n[y].preferred
               /\ m[y].edges = n[y].edges /\ m[y].head = n[y].head /\ m[y].tail = n[y].tail
               /\ y \notin {x, a, b} => m[y] = n[y]
    <3>1. n[y] \in Node
      BY NodeFields
    <3>2. CASE y = x
      BY <3>2, <2>5, <2>8
    <3>3. CASE y # x /\ y \in {a, b}
      <4> DEFINE s == [n[y] EXCEPT !.reversed = ~n[y].reversed]
      <4>1. m[y] = s
        BY <3>3, <2>8
      <4>2. /\ s.left = n[y].left /\ s.right = n[y].right /\ s.reversed = ~n[y].reversed
            /\ s.parent = n[y].parent /\ s.max = n[y].max
            /\ s.dparent = n[y].dparent /\ s.preferred = n[y].preferred
            /\ s.edges = n[y].edges /\ s.head = n[y].head /\ s.tail = n[y].tail
        BY <3>1 DEF Node
      <4> HIDE DEF s
      <4> QED
        BY <4>1, <4>2, <3>3
    <3>4. CASE y \notin {x, a, b}
      BY <3>4, <2>8
    <3> QED
      BY <3>2, <3>3, <3>4
  <2>10. Kept(n, m) /\ SameEnds(n, m)
    BY <2>9 DEF Kept, SameEnds
  <2> QED
    BY <1>3, <2>1, <2>7, <2>9, <2>10 DEF Pushed
<1> QED
  BY <1>2, <1>3

\* The children of a node are different.
LEMMA ChildrenDiffer ==
  ASSUME NEW n, NEW L, Shape(n, L), NEW x \in Vertex
  PROVE  /\ n[x].left \in Some /\ n[x].right \in Some
         /\ n[x].left # x /\ n[x].right # x
         /\ n[x].left = n[x].right => n[x].left = NoVertex
<1>1. n[x].left \in Some /\ n[x].right \in Some
  BY NodeFields DEF Shape
<1>2. n[x].left # x /\ n[x].right # x
  BY ChildIs, LctAssumption
<1>3. ASSUME n[x].left = n[x].right, n[x].left # NoVertex PROVE FALSE
  <2> DEFINE c == n[x].left
  <2>1. /\ ChildOf(n, L, x, Early(n, L, x), L.lo[x], L.pos[x] - 1)
        /\ ChildOf(n, L, x, Late(n, L, x), L.pos[x] + 1, L.hi[x])
    BY DEF Shape, Children
  <2>2. Early(n, L, x) = c /\ Late(n, L, x) = c
    BY <1>3 DEF Early, Late
  <2>3. L.lo[x] <= L.pos[x] /\ L.lo[x] \in Int /\ L.pos[x] \in Int
    BY LayoutFields DEF Shape, Spans
  <2> HIDE DEF c
  <2>4. c # NoVertex
    BY <1>3 DEF c
  <2>5. L.lo[c] = L.lo[x] /\ L.lo[c] = L.pos[x] + 1
    BY <2>1, <2>2, <2>4 DEF ChildOf
  <2> QED
    BY <2>3, <2>5
<1> QED
  BY <1>1, <1>2, <1>3

\* Only x is no longer flipped behind its push, and no interval changes.
PushingDown(n, L, m, K, x) ==
  /\ Turning(n, L, m, K, x) /\ K.lo = L.lo /\ K.hi = L.hi
  /\ \A y \in Vertex : K.flip[y] = IF y = x THEN FALSE ELSE L.flip[y]
  /\ \A y \in Vertex : m[y].parent = n[y].parent

\* PushDown takes the reversal from a node below which none is.
LEMMA PushDownKeeps ==
  ASSUME NEW n, NEW L, Shape(n, L), NEW x \in Vertex, L.flip[x] = n[x].reversed
  PROVE  \E K : PushingDown(n, L, PushDown(n, x), K, x)
<1> DEFINE m == PushDown(n, x)
           K == [hd |-> L.hd, pos |-> L.pos, lo |-> L.lo, hi |-> L.hi,
                 flip |-> [L.flip EXCEPT ![x] = FALSE]]
           a == n[x].left
           b == n[x].right
<1>1. /\ a \in Some /\ b \in Some /\ a # x /\ b # x /\ (a = b => a = NoVertex)
  BY ChildrenDiffer
<1>2. Pushed(n, x, m)
  BY <1>1, PushDownIs DEF Shape
<1> HIDE DEF m
<1>3. /\ K.hd = L.hd /\ K.pos = L.pos /\ K.lo = L.lo /\ K.hi = L.hi
      /\ K.flip = [L.flip EXCEPT ![x] = FALSE]
  OBVIOUS
<1>4. K \in Layouts
  BY DEF Shape, Layouts
<1> HIDE DEF K
<1>5. Spans(K)
  BY <1>3 DEF Shape, Spans, Within, Apart, Inside
<1>6. \A y \in Vertex : /\ L.flip[y] \in BOOLEAN /\ n[y].reversed \in BOOLEAN
                        /\ K.flip[y] = IF y = x THEN FALSE ELSE L.flip[y]
  BY <1>3, LayoutFields, NodeFields DEF Shape, Layouts
<1>7. NoVertex \notin Vertex
  BY LctAssumption
<1>8. ASSUME NEW y \in Vertex, NEW c, NEW lo, NEW hi, ChildOf(n, L, y, c, lo, hi),
             c \in {n[y].left, n[y].right}
      PROVE  ChildOf(m, K, y, c, lo, hi)
  <2>1. CASE c = NoVertex
    BY <2>1, <1>8 DEF ChildOf
  <2>2. CASE c # NoVertex
    <3>1. c \in Vertex /\ n[c].parent = y /\ L.flip[c] = (L.flip[y] # n[c].reversed) /\ c # y
      BY <2>2, <1>8, ChildIs
    <3>2. m[c].parent = y
      BY <3>1, <1>2 DEF Pushed
    <3>3. K.flip[c] = (K.flip[y] # m[c].reversed)
      <4>1. m[c].reversed = IF c = x THEN FALSE
                          ELSE IF c \in {a, b} /\ n[x].reversed THEN ~n[c].reversed
                          ELSE n[c].reversed
        BY <3>1, <1>2 DEF Pushed
      <4>2. CASE y = x
        <5>1. c \in {a, b} /\ c # x
          BY <4>2, <1>8, <3>1
        <5>2. L.flip[c] = (n[x].reversed # n[c].reversed)
          BY <3>1, <4>2
        <5>3. K.flip[c] = L.flip[c] /\ K.flip[y] = FALSE
          BY <3>1, <4>2, <1>6
        <5>4. n[c].reversed \in BOOLEAN /\ n[x].reversed \in BOOLEAN
          BY <3>1, <1>6
        <5> QED
          BY <4>1, <5>1, <5>2, <5>3, <5>4
      <4>3. CASE c = x
        <5>1. K.flip[y] = L.flip[y] /\ K.flip[c] = FALSE /\ m[c].reversed = FALSE
          BY <4>1, <4>3, <3>1, <1>6
        <5>2. L.flip[c] = n[c].reversed /\ L.flip[y] \in BOOLEAN /\ n[c].reversed \in BOOLEAN
          BY <4>3, <3>1, <1>6
        <5> QED
          BY <5>1, <5>2, <3>1
      <4>4. CASE y # x /\ c # x
        <5>1. c \notin {a, b}
          BY <3>1, <4>4, <2>2, ChildIs
        <5> QED
          BY <4>1, <5>1, <4>4, <3>1, <1>6
      <4> QED
        BY <4>2, <4>3, <4>4
    <3> QED
      BY <3>1, <3>2, <3>3, <2>2, <1>3, <1>8 DEF ChildOf
  <2> QED
    BY <2>1, <2>2
<1>9. Children(m, K)
  <2> SUFFICES ASSUME NEW y \in Vertex
               PROVE  /\ ChildOf(m, K, y, Early(m, K, y), K.lo[y], K.pos[y] - 1)
                      /\ ChildOf(m, K, y, Late(m, K, y), K.pos[y] + 1, K.hi[y])
    BY DEF Children
  <2>1. Early(m, K, y) = Early(n, L, y) /\ Late(m, K, y) = Late(n, L, y)
    <3>1. /\ m[y].left = IF y = x /\ n[x].reversed THEN b ELSE n[y].left
          /\ m[y].right = IF y = x /\ n[x].reversed THEN a ELSE n[y].right
      BY <1>2 DEF Pushed
    <3> QED
      BY <3>1, <1>6 DEF Early, Late
  <2>2. /\ ChildOf(n, L, y, Early(n, L, y), L.lo[y], L.pos[y] - 1)
        /\ ChildOf(n, L, y, Late(n, L, y), L.pos[y] + 1, L.hi[y])
    BY DEF Shape, Children
  <2>3. Early(n, L, y) \in {n[y].left, n[y].right} /\ Late(n, L, y) \in {n[y].left, n[y].right}
    BY DEF Early, Late
  <2>4. /\ ChildOf(m, K, y, Early(n, L, y), L.lo[y], L.pos[y] - 1)
        /\ ChildOf(m, K, y, Late(n, L, y), L.pos[y] + 1, L.hi[y])
    BY <2>2, <2>3, <1>8
  <2> QED
    BY <2>1, <2>4, <1>3
<1>10. \A y \in Vertex : m[y].parent = n[y].parent /\ {m[y].left, m[y].right} = {n[y].left, n[y].right}
  <2> SUFFICES ASSUME NEW y \in Vertex
               PROVE  m[y].parent = n[y].parent /\ {m[y].left, m[y].right} = {n[y].left, n[y].right}
    OBVIOUS
  <2>1. /\ m[y].left = IF y = x /\ n[x].reversed THEN n[x].right ELSE n[y].left
        /\ m[y].right = IF y = x /\ n[x].reversed THEN n[x].left ELSE n[y].right
        /\ m[y].parent = n[y].parent
    BY <1>2 DEF Pushed
  <2>2. CASE y = x /\ n[x].reversed
    BY <2>1, <2>2
  <2>3. CASE ~(y = x /\ n[x].reversed)
    BY <2>1, <2>3
  <2> QED
    BY <2>1, <2>2, <2>3
<1>11. Parents(m, K)
  <2> SUFFICES ASSUME NEW y \in Vertex
               PROVE  IF m[y].parent = NoVertex
                      THEN /\ K.flip[y] = m[y].reversed
                           /\ \A u \in Vertex : K.hd[u] = K.hd[y] => Within(K, u, y)
                           /\ K.pos[K.hd[y]] = K.lo[y]
                      ELSE y = m[m[y].parent].left \/ y = m[m[y].parent].right
    BY DEF Parents
  <2>1. CASE n[y].parent = NoVertex
    <3>1. /\ L.flip[y] = n[y].reversed
          /\ \A u \in Vertex : L.hd[u] = L.hd[y] => Within(L, u, y)
          /\ L.pos[L.hd[y]] = L.lo[y]
      BY <2>1 DEF Shape, Parents
    <3>2. y \in {a, b} => FALSE
      <4> SUFFICES ASSUME y \in {a, b} PROVE FALSE
        OBVIOUS
      <4>1. y # NoVertex
        BY <1>7
      <4>2. n[y].parent = x
        BY <4>1, ChildIs
      <4> QED
        BY <4>2, <2>1, <1>7
    <3>3. m[y].reversed = IF y = x THEN FALSE ELSE n[y].reversed
      BY <3>2, <1>2 DEF Pushed
    <3>4. \A u \in Vertex : K.hd[u] = K.hd[y] => Within(K, u, y)
      BY <3>1, <1>3 DEF Within
    <3> QED
      BY <2>1, <3>1, <3>3, <3>4, <1>3, <1>6, <1>10
  <2>2. CASE n[y].parent # NoVertex
    <3>1. n[y].parent \in Vertex /\ (y = n[n[y].parent].left \/ y = n[n[y].parent].right)
      BY <2>2, ParentIs
    <3> QED
      BY <3>1, <2>2, <1>10
  <2> QED
    BY <2>1, <2>2
<1>12. Shape(m, K)
  BY <1>2, <1>4, <1>5, <1>9, <1>11 DEF Shape, Pushed
<1>13. Kept(n, m) /\ SameEnds(n, m)
  BY <1>2 DEF Pushed
<1>14. ASSUME NEW y \in Vertex, L.hd[y] # L.hd[x]
       PROVE  m[y] = n[y] /\ K.lo[y] = L.lo[y] /\ K.hi[y] = L.hi[y] /\ K.flip[y] = L.flip[y]
  <2>1. y \notin {x, a, b}
    <3>1. \A c \in {a, b} : c # NoVertex => L.hd[c] = L.hd[x]
      BY ChildIs
    <3> QED
      BY <3>1, <1>14, <1>7
  <2> QED
    BY <2>1, <1>2, <1>3, <1>6 DEF Pushed
<1>15. ASSUME NEW S \in SUBSET Vertex, Caches(n, L, S)
       PROVE  Caches(m, K, S)
  <2> SUFFICES ASSUME NEW y \in Vertex, \A s \in S : ~Within(K, s, y)
               PROVE  Heaviest(m, K, y)
    BY DEF Caches
  <2>1. \A u \in Vertex : Within(K, u, y) <=> Within(L, u, y)
    BY <1>3 DEF Within
  <2>2. Heaviest(n, L, y)
    BY <2>1, <1>15 DEF Caches
  <2>3. m[y].max = n[y].max
    BY <1>2 DEF Pushed
  <2> QED
    BY <2>1, <2>2, <2>3, <1>13, HeaviestStays
<1>16. Turning(n, L, m, K, x)
  BY <1>3, <1>12, <1>13, <1>14, <1>15 DEF Turning
<1> QED
  BY <1>3, <1>6, <1>10, <1>16 DEF m, PushingDown

\* Whoever holds a node holds its parent, too.
LEMMA AncestorIs ==
  ASSUME NEW n, NEW L, Shape(n, L), NEW x \in Vertex, NEW a \in Vertex, Within(L, x, a), a # x
  PROVE  n[x].parent # NoVertex /\ Within(L, n[x].parent, a)
<1>1. \A y \in Vertex : /\ L.pos[y] \in Int /\ L.lo[y] \in Int /\ L.hi[y] \in Int
                        /\ L.lo[y] <= L.pos[y] /\ L.pos[y] <= L.hi[y]
  BY LayoutFields DEF Shape, Spans
<1>2. \A u, y \in Vertex : u # y => Apart(L, u, y) \/ Inside(L, u, y) \/ Inside(L, y, u)
  BY DEF Shape, Spans
<1>3. /\ L.hd[x] = L.hd[a] /\ L.lo[a] <= L.lo[x] /\ L.hi[x] <= L.hi[a] /\ ~Within(L, a, x)
  BY <1>1, <1>2 DEF Apart, Inside, Within
<1>4. n[x].parent # NoVertex
  <2>1. n[x].parent = NoVertex => Within(L, a, x)
    BY <1>3 DEF Shape, Parents
  <2> QED
    BY <2>1, <1>3
<1> DEFINE p == n[x].parent
<1>5. p \in Vertex /\ (x = n[p].left \/ x = n[p].right) /\ x # NoVertex
  BY <1>4, ParentIs
<1> HIDE DEF p
<1>6. /\ L.hd[x] = L.hd[p]
      /\ \/ L.lo[x] = L.lo[p] /\ L.hi[x] = L.pos[p] - 1
         \/ L.lo[x] = L.pos[p] + 1 /\ L.hi[x] = L.hi[p]
  BY <1>5, ChildIs
<1>7. Within(L, p, a)
  <2>1. CASE p = a
    BY <2>1, <1>1, <1>5 DEF Within
  <2>2. CASE p # a /\ Apart(L, p, a)
    BY <2>2, <1>1, <1>3, <1>5, <1>6 DEF Within, Apart
  <2>3. CASE Inside(L, p, a)
    BY <2>3, <1>1, <1>5 DEF Within, Inside
  <2>4. CASE Inside(L, a, p)
    BY <2>4, <1>1, <1>3, <1>5, <1>6 DEF Within, Inside
  <2> QED
    BY <2>1, <2>2, <2>3, <2>4, <1>2, <1>5
<1> QED
  BY <1>4, <1>7 DEF p

\* How many vertices are not below a node; NoVertex is above all.
Depth(L, x) == IF x = NoVertex THEN 0 ELSE Cardinality(Vertex) + 1 - Cardinality(Sub(L, x))

\* Subtrees are finite.
LEMMA SubFinite ==
  ASSUME NEW L, NEW v
  PROVE  /\ IsFiniteSet(Sub(L, v)) /\ Cardinality(Sub(L, v)) \in Nat
         /\ Cardinality(Sub(L, v)) <= Cardinality(Vertex)
         /\ Cardinality(Vertex) \in Nat
<1>1. Sub(L, v) \subseteq Vertex
  BY DEF Sub
<1> QED
  BY <1>1, VertexAssumption, FS_Subset, FS_CardinalityType

\* Parents are less deep.
LEMMA DepthLess ==
  ASSUME NEW n, NEW L, Shape(n, L), NEW x \in Vertex
  PROVE  /\ Depth(L, x) \in Nat /\ Depth(L, n[x].parent) \in Nat
         /\ Depth(L, n[x].parent) < Depth(L, x)
         /\ Depth(L, x) <= Cardinality(Vertex)
<1> DEFINE p == n[x].parent
<1>1. x \in Sub(L, x) /\ x # NoVertex
  BY WithinSelf, LctAssumption DEF Sub
<1>2. Cardinality(Sub(L, x)) > 0
  BY <1>1, SubFinite, FS_EmptySet
<1>3. Depth(L, x) \in Nat /\ Depth(L, x) > 0 /\ Depth(L, x) <= Cardinality(Vertex)
  BY <1>1, <1>2, SubFinite DEF Depth
<1>4. CASE p = NoVertex
  BY <1>3, <1>4 DEF Depth
<1>5. CASE p # NoVertex
  <2>1. p \in Vertex
    BY <1>5, ParentIs
  <2>2. Sub(L, x) \subseteq Sub(L, p)
    BY <1>5, ParentHolds DEF Sub
  <2>3. p \in Sub(L, p) /\ p \notin Sub(L, x)
    BY <1>5, <2>1, ParentHolds, WithinSelf DEF Sub
  <2> HIDE DEF p
  <2>4. /\ Cardinality(Sub(L, x)) <= Cardinality(Sub(L, p))
        /\ Cardinality(Sub(L, x)) = Cardinality(Sub(L, p)) => Sub(L, x) = Sub(L, p)
    BY <2>2, SubFinite, FS_Subset
  <2>5. Cardinality(Sub(L, x)) < Cardinality(Sub(L, p))
    BY <2>3, <2>4, SubFinite
  <2>6. Cardinality(Sub(L, p)) <= Cardinality(Vertex) /\ Cardinality(Sub(L, p)) \in Nat
        /\ Cardinality(Sub(L, x)) \in Nat /\ Cardinality(Vertex) \in Nat
    BY SubFinite
  <2>7. Depth(L, p) = Cardinality(Vertex) + 1 - Cardinality(Sub(L, p))
    BY <1>5 DEF Depth, p
  <2>8. Depth(L, x) = Cardinality(Vertex) + 1 - Cardinality(Sub(L, x))
    BY <1>1 DEF Depth
  <2>9. Depth(L, p) \in Nat /\ Depth(L, p) < Depth(L, x)
    BY <2>5, <2>6, <2>7, <2>8
  <2> QED
    BY <2>9, <1>3 DEF p
<1> QED
  BY <1>4, <1>5

\* For each ancestor x in D, the state once the reversals above x are pushed down.
Levels(n, D, f) ==
  f = [x \in D |-> IF x = NoVertex THEN n ELSE PushDown(f[n[x].parent], x)]

\* What correct_reversals makes of the path down to each node exists.
LEMMA CorrectedExists ==
  ASSUME NEW n, NEW L, Shape(n, L)
  PROVE  \E f : Levels(n, Some, f)
<1> DEFINE D(j) == {x \in Some : Depth(L, x) <= j}
           T == {j \in Nat : \E f : Levels(n, D(j), f)}
<1>1. \A x \in Some : Depth(L, x) \in Nat /\ Depth(L, x) <= Cardinality(Vertex)
  <2>1. Cardinality(Vertex) \in Nat
    BY SubFinite
  <2>2. Depth(L, NoVertex) = 0
    BY DEF Depth
  <2> QED
    BY <2>1, <2>2, DepthLess DEF Some
<1>2. \A x \in Some : x # NoVertex => /\ n[x].parent \in Some
                                      /\ Depth(L, n[x].parent) < Depth(L, x)
  BY DepthLess, NodeFields DEF Some, Shape
<1>3. 0 \in T
  <2> DEFINE f == [x \in D(0) |-> n]
             h == [x \in D(0) |-> IF x = NoVertex THEN n ELSE PushDown(f[n[x].parent], x)]
  <2>1. \A x \in D(0) : x = NoVertex
    BY <1>1, <1>2
  <2>2. f = h
    BY <2>1
  <2> HIDE DEF f, D
  <2>3. Levels(n, D(0), f)
    BY <2>2 DEF Levels
  <2> QED
    BY <2>3
<1>4. ASSUME NEW j \in Nat, j \in T
      PROVE  j + 1 \in T
  <2>1. PICK f : Levels(n, D(j), f)
    BY <1>4
  <2> DEFINE g == [x \in D(j + 1) |-> IF x \in D(j) THEN f[x] ELSE PushDown(f[n[x].parent], x)]
             h == [x \in D(j + 1) |-> IF x = NoVertex THEN n ELSE PushDown(g[n[x].parent], x)]
  <2>2. \A x \in D(j + 1) : x # NoVertex => n[x].parent \in D(j) /\ n[x].parent \in D(j + 1)
    BY <1>1, <1>2
  <2>3. NoVertex \in D(j) /\ D(j) \subseteq D(j + 1)
    <3>1. NoVertex \in Some /\ Depth(L, NoVertex) = 0
      BY DEF Some, Depth
    <3> QED
      BY <3>1, <1>1
  <2>4. \A x \in D(j) : f[x] = IF x = NoVertex THEN n ELSE PushDown(f[n[x].parent], x)
    <3> HIDE DEF D
    <3> QED
      BY <2>1 DEF Levels
  <2> HIDE DEF D
  <2>5. \A x \in D(j) : g[x] = f[x]
    BY <2>3
  <2>6. ASSUME NEW x \in D(j + 1)
        PROVE  g[x] = IF x = NoVertex THEN n ELSE PushDown(g[n[x].parent], x)
    <3>1. CASE x = NoVertex
      BY <3>1, <2>3, <2>4, <2>5
    <3>2. CASE x # NoVertex
      <4>1. g[n[x].parent] = f[n[x].parent]
        BY <3>2, <2>2, <2>5
      <4>2. g[x] = PushDown(f[n[x].parent], x)
        <5>1. CASE x \in D(j)
          BY <5>1, <3>2, <2>4, <2>5
        <5>2. CASE x \notin D(j)
          BY <5>2
        <5> QED
          BY <5>1, <5>2
      <4> QED
        BY <3>2, <4>1, <4>2
    <3> QED
      BY <3>1, <3>2
  <2>7. g = h
    BY <2>6
  <2> HIDE DEF g
  <2>8. Levels(n, D(j + 1), g)
    BY <2>7 DEF Levels
  <2> QED
    BY <2>8
<1> HIDE DEF T
<1>5. \A j \in Nat : j \in T
  BY <1>3, <1>4, Induction
<1>6. Cardinality(Vertex) \in Nat
  BY SubFinite
<1>7. D(Cardinality(Vertex)) = Some
  BY <1>1
<1> HIDE DEF D
<1>8. \E f : Levels(n, D(Cardinality(Vertex)), f)
  BY <1>5, <1>6 DEF T
<1> QED
  BY <1>7, <1>8

\* correct_reversals leaves no reversal between the root and v.
LEMMA CorrectReversalsKeeps ==
  ASSUME NEW n, NEW L, Shape(n, L), NEW v \in Vertex
  PROVE  \E K : Turning(n, L, CorrectReversals(n, v), K, v) /\ Unflipped(K, v)
<1> DEFINE f == CHOOSE h : Levels(n, Some, h)
<1>1. Levels(n, Some, f)
  BY CorrectedExists
<1>2. CorrectReversals(n, v) = f[v]
  BY DEF CorrectReversals, Levels, Some
<1> HIDE DEF f
<1>3. \A x \in Some : f[x] = IF x = NoVertex THEN n ELSE PushDown(f[n[x].parent], x)
  BY <1>1 DEF Levels
<1> DEFINE Right(x) == \E K : /\ Turning(n, L, f[x], K, x) /\ Unflipped(K, x)
                              /\ K.lo = L.lo /\ K.hi = L.hi
                              /\ \A y \in Vertex : f[x][y].parent = n[y].parent
           T == {j \in Nat : \A x \in Vertex : Depth(L, x) <= j => Right(x)}
<1>4. \A x \in Vertex : Depth(L, x) \in Nat /\ Depth(L, x) > 0
  BY DepthLess
<1>5. 0 \in T
  BY <1>4
<1>6. ASSUME NEW j \in Nat, j \in T
      PROVE  j + 1 \in T
  <2> SUFFICES ASSUME NEW x \in Vertex, Depth(L, x) <= j + 1 PROVE Right(x)
    OBVIOUS
  <2> DEFINE p == n[x].parent
  <2>1. x \in Some /\ x # NoVertex /\ f[x] = PushDown(f[p], x)
    BY <1>3, LctAssumption DEF Some
  <2>2. \E M : /\ Turning(n, L, f[p], M, x) /\ M.flip[x] = f[p][x].reversed
               /\ M.lo = L.lo /\ M.hi = L.hi
               /\ \A y \in Vertex : f[p][y].parent = n[y].parent
               /\ \A a \in Vertex \ {x} : Within(M, x, a) => ~M.flip[a]
    <3>1. CASE p = NoVertex
      <4>1. f[p] = n
        BY <3>1, <1>3 DEF Some
      <4>2. L.flip[x] = n[x].reversed
        BY <3>1 DEF Shape, Parents
      <4>3. \A a \in Vertex \ {x} : ~Within(L, x, a)
        BY <3>1, AncestorIs
      <4> QED
        BY <4>1, <4>2, <4>3, TurningNot
    <3>2. CASE p # NoVertex
      <4>1. p \in Vertex /\ (x = n[p].left \/ x = n[p].right)
        BY <3>2, ParentIs
      <4>2. Depth(L, p) <= j
        BY <1>4, <4>1, DepthLess
      <4>3. Right(p)
        BY <1>6, <4>1, <4>2
      <4> HIDE DEF p
      <4>4. PICK M : /\ Turning(n, L, f[p], M, p) /\ Unflipped(M, p)
                     /\ M.lo = L.lo /\ M.hi = L.hi
                     /\ \A y \in Vertex : f[p][y].parent = n[y].parent
        BY <4>3
      <4>5. Shape(f[p], M) /\ f[p][x].parent = p /\ M.hd = L.hd /\ M.pos = L.pos
        BY <4>4 DEF Turning, p
      <4>6. L.hd[x] = L.hd[p]
        BY <4>1, <2>1, ChildIs
      <4>7. Turning(n, L, f[p], M, x)
        BY <4>4, <4>6 DEF Turning
      <4>8. \A a \in Vertex \ {x} : Within(M, x, a) => ~M.flip[a]
        <5> SUFFICES ASSUME NEW a \in Vertex \ {x}, Within(M, x, a) PROVE ~M.flip[a]
          OBVIOUS
        <5>1. Within(M, p, a)
          BY <4>5, AncestorIs
        <5> QED
          BY <5>1, <4>4 DEF Unflipped
      <4>9. M.flip[x] = f[p][x].reversed
        <5> DEFINE m == f[p]
        <5>1. Shape(m, M) /\ m[x].parent = p
          BY <4>5
        <5>2. p # NoVertex /\ p \in Vertex /\ x \in Vertex
          BY <4>1, <3>2
        <5> HIDE DEF m
        <5>3. x = m[p].left \/ x = m[p].right
          BY <5>1, <5>2, ParentIs
        <5>4. M.flip[x] = (M.flip[p] # m[x].reversed)
          BY <5>1, <5>2, <5>3, <2>1, ChildIs
        <5>5. M.flip[p] = FALSE
          <6>1. Within(M, p, p)
            BY <5>1, <5>2, WithinSelf
          <6>2. M.flip[p] \in BOOLEAN
            BY <5>1, <5>2, LayoutFields DEF Shape
          <6> QED
            BY <6>1, <6>2, <5>2, <4>4 DEF Unflipped
        <5>6. m[x].reversed \in BOOLEAN
          BY <5>1, NodeFields DEF Shape
        <5>7. M.flip[x] = m[x].reversed
          BY <5>4, <5>5, <5>6
        <5> QED
          BY <5>7 DEF m
      <4> QED
        BY <4>4, <4>7, <4>8, <4>9
    <3> QED
      BY <3>1, <3>2
  <2> DEFINE m == f[p]
  <2>3. PICK M : /\ Turning(n, L, m, M, x) /\ M.flip[x] = m[x].reversed
                 /\ M.lo = L.lo /\ M.hi = L.hi
                 /\ \A y \in Vertex : m[y].parent = n[y].parent
                 /\ \A a \in Vertex \ {x} : Within(M, x, a) => ~M.flip[a]
    BY <2>2
  <2>4. f[x] = PushDown(m, x)
    BY <2>1
  <2> HIDE DEF m
  <2>5. Shape(m, M)
    BY <2>3 DEF Turning
  <2>9. PICK K : PushingDown(m, M, PushDown(m, x), K, x)
    BY <2>3, <2>5, PushDownKeeps
  <2>6. /\ Turning(m, M, PushDown(m, x), K, x) /\ K.lo = M.lo /\ K.hi = M.hi
        /\ \A y \in Vertex : K.flip[y] = IF y = x THEN FALSE ELSE M.flip[y]
        /\ \A y \in Vertex : PushDown(m, x)[y].parent = m[y].parent
    BY <2>9 DEF PushingDown
  <2>7. Turning(n, L, f[x], K, x)
    BY <2>3, <2>4, <2>6, TurningTwice
  <2>8. Unflipped(K, x)
    <3> SUFFICES ASSUME NEW a \in Vertex, Within(K, x, a) PROVE ~K.flip[a]
      BY DEF Unflipped
    <3>1. Within(M, x, a)
      BY <2>6 DEF Within, Turning
    <3>3. CASE a = x
      BY <3>3, <2>6
    <3>4. CASE a # x
      BY <3>1, <3>4, <2>3, <2>6
    <3> QED
      BY <3>3, <3>4
  <2> QED
    BY <2>3, <2>4, <2>6, <2>7, <2>8
<1> HIDE DEF T
<1>7. \A j \in Nat : j \in T
  BY <1>5, <1>6, Induction
<1>8. Right(v)
  BY <1>4, <1>7 DEF T
<1> QED
  BY <1>2, <1>8

-----------------------------------------------------------------------------
(* Ends.                                                                   *)

\* The vertex at a position of a path.
At(L, h, i) == CHOOSE u \in Vertex : L.hd[u] = h /\ L.pos[u] = i

\* The last position of a path, as its root has it.
LEMMA AtIs ==
  ASSUME NEW n, NEW L, Shape(n, L), NEW v \in Vertex, NEW i \in Int, L.lo[v] <= i, i <= L.hi[v]
  PROVE  /\ At(L, L.hd[v], i) \in Vertex /\ L.hd[At(L, L.hd[v], i)] = L.hd[v]
         /\ L.pos[At(L, L.hd[v], i)] = i
         /\ \A u \in Vertex : L.hd[u] = L.hd[v] /\ L.pos[u] = i => u = At(L, L.hd[v], i)
<1>1. \E u \in Vertex : L.hd[u] = L.hd[v] /\ L.pos[u] = i
  BY DEF Shape, Spans
<1>2. /\ At(L, L.hd[v], i) \in Vertex /\ L.hd[At(L, L.hd[v], i)] = L.hd[v]
      /\ L.pos[At(L, L.hd[v], i)] = i
  BY <1>1 DEF At
<1> HIDE DEF At
<1> QED
  BY <1>2 DEF Shape, Spans

\* Where the way in one direction leads to.
EndOf(n, L, x, t) ==
  At(L, L.hd[x], IF (t # n[x].reversed) = L.flip[x] THEN L.lo[x] ELSE L.hi[x])

\* What End says of x, from what it says of the children of x.
EndStep(n, f, x, t) ==
  LET turn == t # n[x].reversed
      next == IF turn THEN n[x].right ELSE n[x].left
  IN  IF next = NoVertex THEN x ELSE f[next][turn]

\* f says of every node what End should.
EndSteps(n, f) == \A x \in Vertex, t \in BOOLEAN : f[x][t] = EndStep(n, f, x, t)
\* f holds what End says.
EndTable(n, f) == \A x \in Vertex, t \in BOOLEAN : End(n, x, t) = f[x][t]

\* The recursion has a solution when the steps have one.
LEMMA EndExists ==
  ASSUME NEW n, NEW G \in [Vertex -> [BOOLEAN -> Vertex]], EndSteps(n, G)
  PROVE  \E f : EndSteps(n, f) /\ EndTable(n, f)
<1> DEFINE E(f) == [x \in Vertex |-> [t \in BOOLEAN |-> EndStep(n, f, x, t)]]
           g == CHOOSE f : f = E(f)
<1>1. \A x \in Vertex, t \in BOOLEAN : E(G)[x][t] = G[x][t]
  BY DEF EndSteps
<1>2. G = E(G)
  BY <1>1
<1>3. g = E(g)
  <2> HIDE DEF E
  <2> QED
    BY <1>2
<1>4. \A x \in Vertex, t \in BOOLEAN : End(n, x, t) = g[x][t]
  BY DEF End, EndStep
<1>5. EndSteps(n, g)
  <2>1. ASSUME NEW h, h = E(h) PROVE EndSteps(n, h)
    <3> SUFFICES ASSUME NEW x \in Vertex, NEW t \in BOOLEAN PROVE h[x][t] = EndStep(n, h, x, t)
      BY DEF EndSteps
    <3>1. E(h)[x][t] = EndStep(n, h, x, t)
      OBVIOUS
    <3> QED
      BY <2>1, <3>1
  <2> HIDE DEF E, g
  <2> QED
    BY <1>3, <2>1
<1>6. EndTable(n, g)
  BY <1>4 DEF EndTable
<1> HIDE DEF g
<1> QED
  BY <1>5, <1>6

\* What one step does to the direction and to the subtree.
LEMMA EndStepIs ==
  ASSUME NEW n, NEW L, Shape(n, L), NEW x \in Vertex, NEW t \in BOOLEAN,
         NEW turn, turn = (t # n[x].reversed), NEW c, c = IF turn THEN n[x].right ELSE n[x].left
  PROVE  /\ turn \in BOOLEAN
         /\ c = NoVertex => EndOf(n, L, x, t) = x
         /\ c # NoVertex => /\ c \in Vertex /\ EndOf(n, L, x, t) = EndOf(n, L, c, turn)
                            /\ L.hi[c] - L.lo[c] < L.hi[x] - L.lo[x]
<1>1. /\ ChildOf(n, L, x, Early(n, L, x), L.lo[x], L.pos[x] - 1)
      /\ ChildOf(n, L, x, Late(n, L, x), L.pos[x] + 1, L.hi[x])
  BY DEF Shape, Children
<1>2. /\ L.flip[x] \in BOOLEAN /\ n[x].reversed \in BOOLEAN
      /\ L.lo[x] \in Int /\ L.pos[x] \in Int /\ L.hi[x] \in Int
      /\ L.lo[x] <= L.pos[x] /\ L.pos[x] <= L.hi[x]
  BY LayoutFields, NodeFields DEF Shape, Spans
<1>3. turn \in BOOLEAN
  BY <1>2
<1>4. CASE c = NoVertex
  <2>1. EndOf(n, L, x, t) = At(L, L.hd[x], L.pos[x])
    <3>1. CASE turn = L.flip[x]
      <4>1. c = Early(n, L, x)
        BY <3>1, <1>2, <1>3 DEF Early
      <4>2. L.lo[x] = L.pos[x]
        BY <4>1, <1>1, <1>2, <1>4 DEF ChildOf
      <4> QED
        BY <3>1, <4>2 DEF EndOf
    <3>2. CASE turn # L.flip[x]
      <4>1. c = Late(n, L, x)
        BY <3>2, <1>2, <1>3 DEF Late
      <4>2. L.hi[x] = L.pos[x]
        BY <4>1, <1>1, <1>2, <1>4 DEF ChildOf
      <4> QED
        BY <3>2, <4>2 DEF EndOf
    <3> QED
      BY <3>1, <3>2
  <2>2. x = At(L, L.hd[x], L.pos[x])
    BY <1>2, AtIs
  <2> QED
    BY <2>1, <2>2, <1>3, <1>4
<1>5. CASE c # NoVertex
  <2>1. /\ c \in Vertex /\ L.hd[c] = L.hd[x] /\ L.flip[c] = (L.flip[x] # n[c].reversed)
        /\ L.hi[c] - L.lo[c] < L.hi[x] - L.lo[x]
    BY <1>5, ChildIs
  <2>2. n[c].reversed \in BOOLEAN
    BY <2>1, NodeFields DEF Shape
  <2>3. ((turn # n[c].reversed) = L.flip[c]) <=> (turn = L.flip[x])
    BY <2>1, <2>2, <1>2, <1>3
  <2>4. CASE turn = L.flip[x]
    <3>1. c = Early(n, L, x)
      BY <2>4, <1>2, <1>3 DEF Early
    <3>2. L.lo[c] = L.lo[x]
      BY <3>1, <1>1, <1>5 DEF ChildOf
    <3>3. EndOf(n, L, c, turn) = At(L, L.hd[c], L.lo[c])
      BY <2>3, <2>4 DEF EndOf
    <3>4. EndOf(n, L, x, t) = At(L, L.hd[x], L.lo[x])
      BY <2>4 DEF EndOf
    <3> QED
      BY <3>2, <3>3, <3>4, <2>1, <1>3, <1>5
  <2>5. CASE turn # L.flip[x]
    <3>1. c = Late(n, L, x)
      BY <2>5, <1>2, <1>3 DEF Late
    <3>2. L.hi[c] = L.hi[x]
      BY <3>1, <1>1, <1>5 DEF ChildOf
    <3>3. EndOf(n, L, c, turn) = At(L, L.hd[c], L.hi[c])
      BY <2>3, <2>5 DEF EndOf
    <3>4. EndOf(n, L, x, t) = At(L, L.hd[x], L.hi[x])
      BY <2>5 DEF EndOf
    <3> QED
      BY <3>2, <3>3, <3>4, <2>1, <1>3, <1>5
  <2> QED
    BY <2>4, <2>5
<1> QED
  BY <1>4, <1>5

\* recompute_head and recompute_tail find the ends of the subtree.
LEMMA EndIs ==
  ASSUME NEW n, NEW L, Shape(n, L), NEW v \in Vertex, NEW turned \in BOOLEAN
  PROVE  End(n, v, turned) = EndOf(n, L, v, turned) /\ End(n, v, turned) \in Vertex
<1> DEFINE G == [x \in Vertex |-> [t \in BOOLEAN |-> EndOf(n, L, x, t)]]
<1>1. \A x \in Vertex : /\ L.lo[x] \in Int /\ L.hi[x] \in Int /\ L.pos[x] \in Int
                        /\ L.lo[x] <= L.pos[x] /\ L.pos[x] <= L.hi[x]
  BY LayoutFields DEF Shape, Spans
<1>2. ASSUME NEW x \in Vertex, NEW t \in BOOLEAN PROVE EndOf(n, L, x, t) \in Vertex
  <2> DEFINE i == IF (t # n[x].reversed) = L.flip[x] THEN L.lo[x] ELSE L.hi[x]
  <2>1. i \in Int /\ L.lo[x] <= i /\ i <= L.hi[x]
    BY <1>1
  <2>2. EndOf(n, L, x, t) = At(L, L.hd[x], i)
    BY DEF EndOf
  <2> HIDE DEF i
  <2> QED
    BY <2>1, <2>2, AtIs
<1>3. G \in [Vertex -> [BOOLEAN -> Vertex]]
  BY <1>2
<1>4. \A x \in Vertex, t \in BOOLEAN : G[x][t] = EndStep(n, G, x, t)
  <2> SUFFICES ASSUME NEW x \in Vertex, NEW t \in BOOLEAN PROVE G[x][t] = EndStep(n, G, x, t)
    OBVIOUS
  <2> DEFINE turn == t # n[x].reversed
             c == IF turn THEN n[x].right ELSE n[x].left
  <2>1. EndStep(n, G, x, t) = IF c = NoVertex THEN x ELSE G[c][turn]
    BY DEF EndStep
  <2>2. turn = (t # n[x].reversed) /\ c = IF turn THEN n[x].right ELSE n[x].left
    OBVIOUS
  <2>3. G[x][t] = EndOf(n, L, x, t)
    OBVIOUS
  <2> HIDE DEF turn, c
  <2>4. /\ turn \in BOOLEAN
        /\ c = NoVertex => EndOf(n, L, x, t) = x
        /\ c # NoVertex => c \in Vertex /\ EndOf(n, L, x, t) = EndOf(n, L, c, turn)
    BY <2>2, EndStepIs
  <2>5. c # NoVertex => G[c][turn] = EndOf(n, L, c, turn)
    BY <2>4
  <2> HIDE DEF G
  <2> QED
    BY <2>1, <2>3, <2>4, <2>5
<1> HIDE DEF G
<1>10. EndSteps(n, G)
  BY <1>4 DEF EndSteps
<1>11. PICK f : EndSteps(n, f) /\ EndTable(n, f)
  BY <1>3, <1>10, EndExists
<1>5. /\ \A x \in Vertex, t \in BOOLEAN : f[x][t] = EndStep(n, f, x, t)
      /\ \A x \in Vertex, t \in BOOLEAN : End(n, x, t) = f[x][t]
  BY <1>11 DEF EndSteps, EndTable
<1> DEFINE T == {j \in Nat : \A x \in Vertex : L.hi[x] - L.lo[x] < j =>
                               \A t \in BOOLEAN : f[x][t] = EndOf(n, L, x, t)}
<1>6. 0 \in T
  BY <1>1
<1>7. ASSUME NEW j \in Nat, j \in T
      PROVE  j + 1 \in T
  <2> SUFFICES ASSUME NEW x \in Vertex, L.hi[x] - L.lo[x] < j + 1, NEW t \in BOOLEAN
               PROVE  f[x][t] = EndOf(n, L, x, t)
    OBVIOUS
  <2> DEFINE turn == t # n[x].reversed
             c == IF turn THEN n[x].right ELSE n[x].left
  <2>1. f[x][t] = IF c = NoVertex THEN x ELSE f[c][turn]
    BY <1>5 DEF EndStep
  <2>2. turn = (t # n[x].reversed) /\ c = IF turn THEN n[x].right ELSE n[x].left
    OBVIOUS
  <2> HIDE DEF turn, c
  <2>4. /\ turn \in BOOLEAN
        /\ c = NoVertex => EndOf(n, L, x, t) = x
        /\ c # NoVertex => /\ c \in Vertex /\ EndOf(n, L, x, t) = EndOf(n, L, c, turn)
                           /\ L.hi[c] - L.lo[c] < L.hi[x] - L.lo[x]
    BY <2>2, EndStepIs
  <2>5. c # NoVertex => f[c][turn] = EndOf(n, L, c, turn)
    <3> SUFFICES ASSUME c # NoVertex PROVE f[c][turn] = EndOf(n, L, c, turn)
      OBVIOUS
    <3>1. L.hi[c] - L.lo[c] < j
      BY <2>4, <1>1
    <3> QED
      BY <3>1, <2>4, <1>7
  <2> QED
    BY <2>1, <2>4, <2>5
<1> HIDE DEF T
<1>8. \A j \in Nat : j \in T
  BY <1>6, <1>7, Induction
<1>9. f[v][turned] = EndOf(n, L, v, turned)
  <2>1. (L.hi[v] - L.lo[v]) + 1 \in Nat /\ L.hi[v] - L.lo[v] < (L.hi[v] - L.lo[v]) + 1
    BY <1>1
  <2> QED
    BY <2>1, <1>8 DEF T
<1> QED
  BY <1>2, <1>5, <1>9

-----------------------------------------------------------------------------
(* The splay trees of the paths.                                           *)

\* m has the splay trees of n.
SamePointers(n, m) ==
  /\ m \in Nodes
  /\ \A x \in Vertex : /\ m[x].left = n[x].left /\ m[x].right = n[x].right
                       /\ m[x].parent = n[x].parent /\ m[x].reversed = n[x].reversed

\* The shape is one of the pointers.
LEMMA ShapeStays ==
  ASSUME NEW n, NEW L, Shape(n, L), NEW m, SamePointers(n, m)
  PROVE  Shape(m, L)
<1>1. m \in Nodes /\ L \in Layouts /\ Spans(L)
  BY DEF Shape, SamePointers
<1>2. \A x \in Vertex : Early(m, L, x) = Early(n, L, x) /\ Late(m, L, x) = Late(n, L, x)
  BY DEF SamePointers, Early, Late
<1>3. Children(m, L)
  <2> SUFFICES ASSUME NEW x \in Vertex, NEW c \in Some, NEW lo, NEW hi, ChildOf(n, L, x, c, lo, hi)
               PROVE  ChildOf(m, L, x, c, lo, hi)
    <3>1. \A x \in Vertex : Early(n, L, x) \in Some /\ Late(n, L, x) \in Some
      BY NodeFields DEF Early, Late, Shape
    <3> QED
      BY <3>1, <1>2 DEF Shape, Children
  <2>1. c # NoVertex => m[c].parent = n[c].parent /\ m[c].reversed = n[c].reversed
    BY DEF SamePointers, Some
  <2> QED
    BY <2>1 DEF ChildOf
<1>4. Parents(m, L)
  <2> SUFFICES ASSUME NEW x \in Vertex
               PROVE  IF m[x].parent = NoVertex
                      THEN /\ L.flip[x] = m[x].reversed
                           /\ \A u \in Vertex : L.hd[u] = L.hd[x] => Within(L, u, x)
                           /\ L.pos[L.hd[x]] = L.lo[x]
                      ELSE x = m[m[x].parent].left \/ x = m[m[x].parent].right
    BY DEF Parents
  <2>1. m[x].parent = n[x].parent /\ m[x].reversed = n[x].reversed
    BY DEF SamePointers
  <2>2. n[x].parent # NoVertex => n[x].parent \in Vertex
    BY ParentIs
  <2> QED
    BY <2>1, <2>2 DEF SamePointers, Shape, Parents
<1> QED
  BY <1>1, <1>3, <1>4 DEF Shape

\* The ends that the root of a splay tree leads to.
EndsOf(n, L, v, r) == r.head = EndOf(n, L, v, FALSE) /\ r.tail = EndOf(n, L, v, TRUE)

\* What recompute_head and recompute_tail set.
LEMMA RecomputeEndsIs ==
  ASSUME NEW n, NEW L, Shape(n, L), NEW v \in Vertex, NEW m, m = RecomputeEnds(n, v)
  PROVE  /\ SamePointers(n, m) /\ Kept(n, m) /\ Shape(m, L)
         /\ \A x \in Vertex \ {v} : m[x] = n[x]
         /\ m[v].max = n[v].max
         /\ EndsOf(n, L, v, m[v])
<1> DEFINE h == End(n, v, FALSE)
           t == End(n, v, TRUE)
           r == [n[v] EXCEPT !.head = h, !.tail = t]
<1>1. h = EndOf(n, L, v, FALSE) /\ t = EndOf(n, L, v, TRUE) /\ h \in Vertex /\ t \in Vertex
  BY EndIs
<1>2. n \in Nodes /\ n[v] \in Node
  BY NodeFields DEF Shape
<1>3. m = [[n EXCEPT ![v].head = h] EXCEPT ![v].tail = End([n EXCEPT ![v].head = h], v, TRUE)]
        \/ m = [[n EXCEPT ![v].head = h] EXCEPT ![v].tail = t]
  BY DEF RecomputeEnds, RecomputeHead
<1>4. m = [[n EXCEPT ![v].head = h] EXCEPT ![v].tail = t]
  BY DEF RecomputeEnds, RecomputeHead
<1> HIDE DEF h, t
<1>5. m = [n EXCEPT ![v] = r]
  BY <1>2, <1>4 DEF Nodes
<1>6. /\ r \in Node /\ r.left = n[v].left /\ r.right = n[v].right /\ r.parent = n[v].parent
      /\ r.reversed = n[v].reversed /\ r.dparent = n[v].dparent /\ r.preferred = n[v].preferred
      /\ r.edges = n[v].edges /\ r.max = n[v].max /\ r.head = h /\ r.tail = t
  BY <1>1, <1>2 DEF Node
<1> HIDE DEF r
<1>7. m \in Nodes /\ m[v] = r /\ \A x \in Vertex \ {v} : m[x] = n[x]
  BY <1>2, <1>5, <1>6 DEF Nodes
<1>8. SamePointers(n, m)
  BY <1>6, <1>7 DEF SamePointers
<1>9. Kept(n, m)
  BY <1>6, <1>7 DEF Kept
<1>10. Shape(m, L)
  BY <1>8, ShapeStays
<1> QED
  BY <1>1, <1>6, <1>7, <1>8, <1>9, <1>10 DEF EndsOf

\* What a root knows.
Ended(n, L, r) == n[r].head = L.hd[r] /\ n[r].tail = At(L, L.hd[r], L.hi[r])

\* The subtree of v ends where its path does.
FullEnds(n, L, v) ==
  EndOf(n, L, v, FALSE) = L.hd[v] /\ EndOf(n, L, v, TRUE) = At(L, L.hd[v], L.hi[v])

\* The ends of a whole path without a reversal at its root.
LEMMA RootEnds ==
  ASSUME NEW n, NEW L, Shape(n, L), NEW v \in Vertex, n[v].parent = NoVertex
  PROVE  /\ L.hd[v] = At(L, L.hd[v], L.lo[v]) /\ L.flip[v] = n[v].reversed
         /\ FullEnds(n, L, v)
<1>1. /\ L.flip[v] = n[v].reversed
      /\ L.pos[L.hd[v]] = L.lo[v]
  BY DEF Shape, Parents
<1>2. /\ L.lo[v] \in Int /\ L.hi[v] \in Int /\ L.lo[v] <= L.hi[v]
      /\ L.hd[v] \in Vertex /\ L.hd[L.hd[v]] = L.hd[v] /\ n[v].reversed \in BOOLEAN
  <2>1. L.pos[v] \in Int /\ L.lo[v] \in Int /\ L.hi[v] \in Int /\ L.hd[v] \in Vertex
    BY LayoutFields DEF Shape
  <2>2. L.lo[v] <= L.pos[v] /\ L.pos[v] <= L.hi[v] /\ L.hd[L.hd[v]] = L.hd[v]
    BY DEF Shape, Spans
  <2>3. n[v].reversed \in BOOLEAN
    BY NodeFields DEF Shape
  <2> QED
    BY <2>1, <2>2, <2>3
<1>3. L.hd[v] = At(L, L.hd[v], L.lo[v])
  BY <1>1, <1>2, AtIs
<1>4. ((FALSE # n[v].reversed) = L.flip[v]) /\ ((TRUE # n[v].reversed) # L.flip[v])
  BY <1>1, <1>2
<1> QED
  BY <1>1, <1>3, <1>4 DEF EndOf, FullEnds

\* m is n after v was splayed: v is the root of the same path, knows the ends of it,
\* and all maxima that were right still are, but perhaps its own.
Splaying(n, L, m, K, v) ==
  /\ Shape(m, K) /\ Kept(n, m) /\ K.hd = L.hd /\ K.pos = L.pos
  /\ \A x \in Vertex : L.hd[x] # L.hd[v] =>
       m[x] = n[x] /\ K.lo[x] = L.lo[x] /\ K.hi[x] = L.hi[x] /\ K.flip[x] = L.flip[x]
  /\ m[v].parent = NoVertex /\ Ended(m, K, v) /\ ~m[v].reversed /\ ~K.flip[v]
  /\ \A S \in SUBSET Vertex : Caches(n, L, S) => Caches(m, K, S \ {v})

\* Within the subtree of a child is what is not the root.
LEMMA RootAbove ==
  ASSUME NEW n, NEW L, Shape(n, L), NEW v \in Vertex, n[v].parent = NoVertex,
         NEW x \in Vertex, Within(L, v, x)
  PROVE  x = v
BY AncestorIs

\* splay makes v the root of its path and repairs what is cached at v.
LEMMA SplayKeeps ==
  ASSUME NEW n, NEW L, Shape(n, L), NEW v \in Vertex
  PROVE  \E K : Splaying(n, L, Splay(n, v), K, v)
<1> DEFINE c == CorrectReversals(n, v)
           r == Raise(c, v)
           e == RecomputeEnds(r, v)
           m == RebuildMax(e, v)
<1>1. PICK M : Turning(n, L, c, M, v) /\ Unflipped(M, v)
  BY CorrectReversalsKeeps
<1>2. Shape(c, M)
  BY <1>1 DEF Turning
<1>3. Splay(n, v) = m
  BY DEF Splay
<1> HIDE DEF c
<1>4. PICK K : Turning(c, M, r, K, v) /\ Unflipped(K, v) /\ r[v].parent = NoVertex
  BY <1>1, <1>2, RaiseKeeps
<1>5. Turning(n, L, r, K, v)
  BY <1>1, <1>4, TurningTwice
<1> HIDE DEF r
<1>6. /\ Shape(r, K) /\ Kept(n, r) /\ K.hd = L.hd /\ K.pos = L.pos
      /\ \A x \in Vertex : L.hd[x] # L.hd[v] =>
           r[x] = n[x] /\ K.lo[x] = L.lo[x] /\ K.hi[x] = L.hi[x] /\ K.flip[x] = L.flip[x]
      /\ \A S \in SUBSET Vertex : Caches(n, L, S) => Caches(r, K, S)
  BY <1>5 DEF Turning
<1>7. ~K.flip[v]
  BY <1>4, <1>6, WithinSelf DEF Unflipped
<1>8. /\ SamePointers(r, e) /\ Kept(r, e) /\ Shape(e, K)
      /\ \A x \in Vertex \ {v} : e[x] = r[x]
      /\ e[v].max = r[v].max
      /\ EndsOf(r, K, v, e[v])
  BY <1>6, RecomputeEndsIs
<1> HIDE DEF e
<1>9. /\ m \in Nodes /\ \A x \in Vertex \ {v} : m[x] = e[x]
      /\ m[v] = [e[v] EXCEPT !.max = MaxOf(e, v)]
  BY <1>8, RebuildMaxIs DEF SamePointers
<1> HIDE DEF m
<1>10. /\ m[v].left = e[v].left /\ m[v].right = e[v].right /\ m[v].parent = e[v].parent
       /\ m[v].reversed = e[v].reversed /\ m[v].dparent = e[v].dparent
       /\ m[v].preferred = e[v].preferred /\ m[v].edges = e[v].edges
       /\ m[v].head = e[v].head /\ m[v].tail = e[v].tail /\ m[v].max = MaxOf(e, v)
  <2>1. e[v] \in Node
    BY <1>8, NodeFields DEF SamePointers
  <2> QED
    BY <2>1, <1>9 DEF Node
<1>11. SamePointers(e, m)
  BY <1>9, <1>10 DEF SamePointers
<1>12. Shape(m, K)
  BY <1>8, <1>11, ShapeStays
<1>20. Kept(e, m)
  <2> SUFFICES ASSUME NEW x \in Vertex
               PROVE  /\ m[x].dparent = e[x].dparent
                      /\ m[x].preferred = e[x].preferred /\ m[x].edges = e[x].edges
    BY DEF Kept
  <2> QED
    BY <1>9, <1>10
<1>21. Kept(r, m)
  BY <1>8, <1>20 DEF Kept
<1>13. Kept(n, m)
  BY <1>6, <1>21 DEF Kept
<1>14. m[v].parent = NoVertex
  BY <1>4, <1>8, <1>10 DEF SamePointers
<1>15. Ended(m, K, v) /\ m[v].reversed = K.flip[v]
  <2>1. r[v].parent = NoVertex /\ Shape(r, K)
    BY <1>4, <1>6
  <2>2. FullEnds(r, K, v)
    BY <2>1, RootEnds
  <2>3. K.flip[v] = m[v].reversed
    BY <1>12, <1>14, RootEnds
  <2> QED
    BY <2>2, <2>3, <1>8, <1>10 DEF Ended, FullEnds, EndsOf
<1>16. ASSUME NEW x \in Vertex, L.hd[x] # L.hd[v]
       PROVE  m[x] = n[x]
  BY <1>6, <1>8, <1>9, <1>16
<1>17. m[v].max = MaxOf(m, v)
  <2> DEFINE a == e[v].left
             b == e[v].right
  <2>1. /\ a # NoVertex => a \in Vertex \ {v}
        /\ b # NoVertex => b \in Vertex \ {v}
    BY <1>8, ChildIs
  <2>2. /\ a # NoVertex => m[a].max = e[a].max
        /\ b # NoVertex => m[b].max = e[b].max
    BY <2>1, <1>9
  <2>3. MaxOf(m, v) = MaxOf(e, v)
    BY <2>2, <1>10, MaxOfSame
  <2> QED
    BY <2>3, <1>10
<1>18. ASSUME NEW S \in SUBSET Vertex, Caches(n, L, S)
       PROVE  Caches(m, K, S \ {v})
  <2>1. Caches(r, K, S)
    BY <1>6, <1>18
  <2>2. ASSUME NEW x \in Vertex, x # v, \A s \in S \ {v} : ~Within(K, s, x)
        PROVE  Heaviest(m, K, x)
    <3>1. ~Within(K, v, x)
      BY <1>12, <1>14, <2>2, RootAbove
    <3>2. Heaviest(r, K, x)
      BY <3>1, <2>1, <2>2 DEF Caches
    <3>3. Kept(r, m) /\ m[x].max = r[x].max
      BY <2>2, <1>8, <1>9, <1>21
    <3> QED
      BY <3>2, <3>3, HeaviestStays
  <2>3. ASSUME \A s \in S \ {v} : ~Within(K, s, v)
        PROVE  Heaviest(m, K, v)
    <3>1. ASSUME NEW d \in {m[v].left, m[v].right}, d # NoVertex
          PROVE  Heaviest(m, K, d)
      <4>1. d \in Vertex /\ d # v
        BY <3>1, <1>12, ChildIs
      <4>2. ASSUME NEW s \in S \ {v}, Within(K, s, d) PROVE FALSE
        <5>1. s \in Vertex
          BY <4>2
        <5>2. Within(K, s, v)
          BY <5>1, <4>2, <3>1, <1>12, SubtreeIs
        <5> QED
          BY <5>2, <4>2, <2>3
      <4> QED
        BY <4>1, <4>2, <2>2
    <3> QED
      BY <3>1, <1>12, <1>17, HeaviestLocal
  <2> QED
    BY <2>2, <2>3 DEF Caches
<1>19. Splaying(n, L, m, K, v)
  <2>1. ~m[v].reversed
    BY <1>7, <1>15
  <2> QED
    BY <1>6, <1>7, <1>12, <1>13, <1>14, <1>15, <1>16, <1>18, <2>1 DEF Splaying
<1> QED
  BY <1>3, <1>19

-----------------------------------------------------------------------------
(* Paths.                                                                  *)

\* Every path has a root.
LEMMA RootExists ==
  ASSUME NEW n, NEW L, Shape(n, L), NEW x \in Vertex
  PROVE  \E r \in Vertex : n[r].parent = NoVertex /\ L.hd[r] = L.hd[x]
<1> DEFINE T == {j \in Nat : \A y \in Vertex : Depth(L, y) <= j =>
                    \E r \in Vertex : n[r].parent = NoVertex /\ L.hd[r] = L.hd[y]}
<1>1. \A y \in Vertex : Depth(L, y) \in Nat /\ Depth(L, y) > 0
  BY DepthLess
<1>2. 0 \in T
  BY <1>1
<1>3. ASSUME NEW j \in Nat, j \in T PROVE j + 1 \in T
  <2> SUFFICES ASSUME NEW y \in Vertex, Depth(L, y) <= j + 1
               PROVE  \E r \in Vertex : n[r].parent = NoVertex /\ L.hd[r] = L.hd[y]
    OBVIOUS
  <2>1. CASE n[y].parent = NoVertex
    BY <2>1
  <2>2. CASE n[y].parent # NoVertex
    <3> DEFINE p == n[y].parent
    <3>1. p \in Vertex /\ (y = n[p].left \/ y = n[p].right) /\ y # NoVertex
      BY <2>2, ParentIs
    <3>2. Depth(L, p) < Depth(L, y)
      BY DepthLess
    <3> HIDE DEF p
    <3>3. L.hd[y] = L.hd[p]
      BY <3>1, ChildIs
    <3>4. Depth(L, p) <= j
      BY <3>1, <3>2, <1>1
    <3> QED
      BY <3>1, <3>3, <3>4, <1>3
  <2> QED
    BY <2>1, <2>2
<1> HIDE DEF T
<1>4. \A j \in Nat : j \in T
  BY <1>2, <1>3, Induction
<1> QED
  BY <1>1, <1>4 DEF T

\* The root's subtree is the path, from its head on.
LEMMA RootSpan ==
  ASSUME NEW n, NEW L, Shape(n, L), NEW r \in Vertex, n[r].parent = NoVertex
  PROVE  /\ L.pos[L.hd[r]] = L.lo[r] /\ L.hd[r] \in Vertex /\ L.hd[L.hd[r]] = L.hd[r]
         /\ L.lo[r] \in Int /\ L.hi[r] \in Int /\ L.pos[r] \in Int
         /\ L.lo[r] <= L.pos[r] /\ L.pos[r] <= L.hi[r]
         /\ \A u \in Vertex : L.hd[u] = L.hd[r] =>
              L.pos[u] \in Int /\ L.lo[r] <= L.pos[u] /\ L.pos[u] <= L.hi[r]
<1>1. /\ L.pos[L.hd[r]] = L.lo[r]
      /\ \A u \in Vertex : L.hd[u] = L.hd[r] => Within(L, u, r)
  BY DEF Shape, Parents
<1>2. \A x \in Vertex : L.hd[x] \in Vertex /\ L.lo[x] \in Int /\ L.hi[x] \in Int /\ L.pos[x] \in Int
  BY LayoutFields DEF Shape
<1>3. /\ L.hd[L.hd[r]] = L.hd[r] /\ L.lo[r] <= L.pos[r] /\ L.pos[r] <= L.hi[r]
  BY DEF Shape, Spans
<1> QED
  BY <1>1, <1>2, <1>3 DEF Within

\* A path has one root.
LEMMA OneRoot ==
  ASSUME NEW n, NEW L, Shape(n, L), NEW r \in Vertex, n[r].parent = NoVertex,
         NEW q \in Vertex, n[q].parent = NoVertex, L.hd[q] = L.hd[r]
  PROVE  q = r
<1>1. Within(L, q, r)
  BY DEF Shape, Parents
<1> QED
  BY <1>1, RootAbove

\* The edges of its path that a vertex is an end of.
Beside(L, x) ==
  {{x, y} : y \in {y \in Vertex : /\ L.hd[y] = L.hd[x]
                                  /\ L.pos[y] = L.pos[x] + 1 \/ L.pos[y] = L.pos[x] - 1}}

\* The edges that a node has in its two slots.
Taken(n, x) == {n[x].preferred[1], n[x].preferred[2]} \ {NoEdge}

\* The preferred edges of x, each once.
Holds(n, x, F) ==
  Taken(n, x) = F /\ (n[x].preferred[1] = n[x].preferred[2] => n[x].preferred[1] = NoEdge)

\* The preferred edges of a node are those to its neighbours on its path.
Slots(n, L) == \A x \in Vertex : Holds(n, x, Beside(L, x))

\* A change of the preferred edges of one node.
Marking(n, x, F, m) ==
  /\ SamePointers(n, m) /\ \A y \in Vertex \ {x} : m[y] = n[y]
  /\ m[x].dparent = n[x].dparent /\ m[x].edges = n[x].edges /\ m[x].max = n[x].max
  /\ m[x].head = n[x].head /\ m[x].tail = n[x].tail
  /\ Holds(m, x, F)

\* One slot of a node is set.
SetSlot(n, x, i, e) == [n EXCEPT ![x].preferred[i] = e]

\* A slot is set.
LEMMA SlotSet ==
  ASSUME NEW n \in Nodes, NEW x \in Vertex, NEW i \in {1, 2}, NEW e \in Edge \cup {NoEdge},
         NEW m, m = SetSlot(n, x, i, e)
  PROVE  /\ SamePointers(n, m) /\ \A y \in Vertex \ {x} : m[y] = n[y]
         /\ m[x].dparent = n[x].dparent /\ m[x].edges = n[x].edges /\ m[x].max = n[x].max
         /\ m[x].head = n[x].head /\ m[x].tail = n[x].tail
         /\ m[x].preferred[i] = e
         /\ \A j \in {1, 2} \ {i} : m[x].preferred[j] = n[x].preferred[j]
<1> DEFINE s == [n[x].preferred EXCEPT ![i] = e]
           r == [n[x] EXCEPT !.preferred = s]
<1>1. n[x] \in Node /\ n[x].preferred \in [1 .. 2 -> Edge \cup {NoEdge}]
  BY NodeFields
<1>2. 1 .. 2 = {1, 2}
  OBVIOUS
<1>3. s \in [1 .. 2 -> Edge \cup {NoEdge}] /\ s[i] = e
      /\ \A j \in {1, 2} \ {i} : s[j] = n[x].preferred[j]
  BY <1>1, <1>2
<1>4. m = [n EXCEPT ![x] = r]
  BY DEF SetSlot
<1> HIDE DEF s
<1>5. /\ r \in Node /\ r.left = n[x].left /\ r.right = n[x].right /\ r.parent = n[x].parent
      /\ r.reversed = n[x].reversed /\ r.dparent = n[x].dparent /\ r.preferred = s
      /\ r.edges = n[x].edges /\ r.max = n[x].max /\ r.head = n[x].head /\ r.tail = n[x].tail
  BY <1>1, <1>3 DEF Node
<1> HIDE DEF r
<1>6. m \in Nodes /\ m[x] = r /\ \A y \in Vertex \ {x} : m[y] = n[y]
  BY <1>4, <1>5 DEF Nodes
<1>7. SamePointers(n, m)
  BY <1>5, <1>6 DEF SamePointers
<1> QED
  BY <1>3, <1>5, <1>6, <1>7

\* unmake_preferred_edge takes the edge away.
LEMMA UnmakeIs ==
  ASSUME NEW n \in Nodes, NEW x \in Vertex, NEW F, Holds(n, x, F), NEW e \in F
  PROVE  Marking(n, x, F \ {e}, UnmakePreferredEdge(n, x, e))
<1> DEFINE i == IF n[x].preferred[1] = e THEN 1 ELSE 2
           m == UnmakePreferredEdge(n, x, e)
<1>1. m = SetSlot(n, x, i, NoEdge)
  BY DEF UnmakePreferredEdge, SetSlot
<1>2. n[x].preferred[i] = e /\ e # NoEdge
  BY DEF Holds, Taken
<1>3. i \in {1, 2}
  OBVIOUS
<1>5. i = 2 => n[x].preferred[1] # e
  OBVIOUS
<1> HIDE DEF m, i
<1>4. /\ SamePointers(n, m) /\ \A y \in Vertex \ {x} : m[y] = n[y]
      /\ m[x].dparent = n[x].dparent /\ m[x].edges = n[x].edges /\ m[x].max = n[x].max
      /\ m[x].head = n[x].head /\ m[x].tail = n[x].tail
      /\ m[x].preferred[i] = NoEdge
      /\ \A j \in {1, 2} \ {i} : m[x].preferred[j] = n[x].preferred[j]
  BY <1>1, <1>3, SlotSet
<1>6. Holds(m, x, F \ {e})
  <2>1. CASE i = 1
    <3>1. m[x].preferred[1] = NoEdge /\ m[x].preferred[2] = n[x].preferred[2]
      BY <2>1, <1>4
    <3> QED
      BY <3>1, <2>1, <1>2 DEF Holds, Taken
  <2>2. CASE i = 2
    <3>1. m[x].preferred[2] = NoEdge /\ m[x].preferred[1] = n[x].preferred[1]
      BY <2>2, <1>4
    <3> QED
      BY <3>1, <2>2, <1>2, <1>5 DEF Holds, Taken
  <2> QED
    BY <2>1, <2>2, <1>3
<1> QED
  BY <1>4, <1>6 DEF Marking, m

\* make_preferred_edge finds a free slot for it.
LEMMA MakeIs ==
  ASSUME NEW n \in Nodes, NEW x \in Vertex, NEW F, Holds(n, x, F), NEW e \in Edge, e \notin F,
         NoEdge \notin Edge, \A a, b \in F : a = b
  PROVE  Marking(n, x, F \cup {e}, MakePreferredEdge(n, x, e))
<1> DEFINE i == IF n[x].preferred[1] = NoEdge THEN 1 ELSE 2
           m == MakePreferredEdge(n, x, e)
<1>1. m = SetSlot(n, x, i, e)
  BY DEF MakePreferredEdge, SetSlot
<1>2. n[x].preferred[i] = NoEdge /\ e # NoEdge
  BY DEF Holds, Taken
<1>3. i \in {1, 2}
  OBVIOUS
<1> HIDE DEF m, i
<1>4. /\ SamePointers(n, m) /\ \A y \in Vertex \ {x} : m[y] = n[y]
      /\ m[x].dparent = n[x].dparent /\ m[x].edges = n[x].edges /\ m[x].max = n[x].max
      /\ m[x].head = n[x].head /\ m[x].tail = n[x].tail
      /\ m[x].preferred[i] = e
      /\ \A j \in {1, 2} \ {i} : m[x].preferred[j] = n[x].preferred[j]
  BY <1>1, <1>3, SlotSet
<1>6. Holds(m, x, F \cup {e})
  <2>1. CASE i = 1
    <3>1. m[x].preferred[1] = e /\ m[x].preferred[2] = n[x].preferred[2]
      BY <2>1, <1>4
    <3> QED
      BY <3>1, <2>1, <1>2 DEF Holds, Taken
  <2>2. CASE i = 2
    <3>1. m[x].preferred[2] = e /\ m[x].preferred[1] = n[x].preferred[1]
      BY <2>2, <1>4
    <3> QED
      BY <3>1, <2>2, <1>2 DEF Holds, Taken
  <2> QED
    BY <2>1, <2>2, <1>3
<1> QED
  BY <1>4, <1>6 DEF Marking, m

-----------------------------------------------------------------------------
(* Splitting a path.                                                       *)

\* An edge is never empty.
LEMMA NoEdgeIs == NoEdge \notin Edge
BY DEF NoEdge, Edge

\* The edges beside a vertex are edges.
LEMMA BesideIs ==
  ASSUME NEW n, NEW L, Shape(n, L), NEW x \in Vertex
  PROVE  Beside(L, x) \subseteq Edge
<1>1. \A y \in Vertex : L.pos[y] \in Int
  BY LayoutFields DEF Shape
<1> SUFFICES ASSUME NEW y \in Vertex, L.pos[y] = L.pos[x] + 1 \/ L.pos[y] = L.pos[x] - 1
             PROVE  {x, y} \in Edge
  BY DEF Beside
<1>2. x # y
  BY <1>1
<1> QED
  BY <1>2 DEF Edge

\* recompute_head sets the head.
LEMMA RecomputeHeadIs ==
  ASSUME NEW n, NEW L, Shape(n, L), NEW v \in Vertex, NEW m, m = RecomputeHead(n, v)
  PROVE  /\ SamePointers(n, m) /\ Kept(n, m) /\ Shape(m, L)
         /\ \A x \in Vertex \ {v} : m[x] = n[x]
         /\ m[v].max = n[v].max /\ m[v].tail = n[v].tail
<1> DEFINE h == End(n, v, FALSE)
           r == [n[v] EXCEPT !.head = h]
<1>1. h \in Vertex
  BY EndIs
<1>2. n \in Nodes /\ n[v] \in Node
  BY NodeFields DEF Shape
<1>4. m = [n EXCEPT ![v].head = h]
  BY DEF RecomputeHead
<1> HIDE DEF h
<1>5. m = [n EXCEPT ![v] = r]
  BY <1>2, <1>4 DEF Nodes
<1>6. /\ r \in Node /\ r.left = n[v].left /\ r.right = n[v].right /\ r.parent = n[v].parent
      /\ r.reversed = n[v].reversed /\ r.dparent = n[v].dparent /\ r.preferred = n[v].preferred
      /\ r.edges = n[v].edges /\ r.max = n[v].max /\ r.tail = n[v].tail
  BY <1>1, <1>2 DEF Node
<1> HIDE DEF r
<1>7. m \in Nodes /\ m[v] = r /\ \A x \in Vertex \ {v} : m[x] = n[x]
  BY <1>2, <1>5, <1>6 DEF Nodes
<1>8. SamePointers(n, m)
  BY <1>6, <1>7 DEF SamePointers
<1>9. Kept(n, m)
  BY <1>6, <1>7 DEF Kept
<1>10. Shape(m, L)
  BY <1>8, ShapeStays
<1> QED
  BY <1>6, <1>7, <1>8, <1>9, <1>10

\* m is n after v cut off its right child r, whose first vertex w hangs under v.
Severing(n, L, v, r, w, m) ==
  /\ m \in Nodes
  /\ \A x \in Vertex :
       /\ m[x].left = n[x].left
       /\ m[x].right = IF x = v THEN NoVertex ELSE n[x].right
       /\ m[x].parent = IF x = r THEN NoVertex ELSE n[x].parent
       /\ m[x].reversed = n[x].reversed
       /\ m[x].dparent = IF x = w THEN v ELSE n[x].dparent
       /\ m[x].edges = n[x].edges
       /\ x # v => m[x].max = n[x].max
       /\ x \notin {v, w} => m[x].preferred = n[x].preferred
       /\ x \notin {v, r, w} => m[x] = n[x]
  /\ Holds(m, v, Beside(L, v) \ {{v, w}}) /\ Holds(m, w, Beside(L, w) \ {{v, w}})
  /\ m[v].max = MaxOf(m, v)

\* The right child of a root is the subtree of what is behind it.
LEMMA BehindIs ==
  ASSUME NEW n, NEW L, Shape(n, L), NEW v \in Vertex, ~L.flip[v], NEW r, r = n[v].right
  PROVE  /\ ChildOf(n, L, v, n[v].left, L.lo[v], L.pos[v] - 1)
         /\ ChildOf(n, L, v, r, L.pos[v] + 1, L.hi[v])
         /\ r # NoVertex => /\ r \in Vertex /\ r # v /\ L.hd[r] = L.hd[v] /\ L.flip[r] = n[r].reversed
                            /\ L.lo[r] = L.pos[v] + 1 /\ L.hi[r] = L.hi[v]
                            /\ n[r].parent = v /\ r # n[v].left
<1>1. Early(n, L, v) = n[v].left /\ Late(n, L, v) = r
  BY DEF Early, Late
<1>2. /\ ChildOf(n, L, v, n[v].left, L.lo[v], L.pos[v] - 1)
      /\ ChildOf(n, L, v, r, L.pos[v] + 1, L.hi[v])
  BY <1>1 DEF Shape, Children
<1>3. ASSUME r # NoVertex
      PROVE  /\ r \in Vertex /\ r # v /\ L.hd[r] = L.hd[v] /\ L.flip[r] = n[r].reversed
             /\ L.lo[r] = L.pos[v] + 1 /\ L.hi[r] = L.hi[v]
             /\ n[r].parent = v /\ r # n[v].left
  <2>1. /\ r \in Vertex /\ r # v /\ L.hd[r] = L.hd[v] /\ n[r].parent = v
        /\ L.flip[r] = (L.flip[v] # n[r].reversed)
    BY <1>3, ChildIs
  <2>2. L.flip[v] \in BOOLEAN /\ n[r].reversed \in BOOLEAN
    BY <2>1, LayoutFields, NodeFields DEF Shape
  <2>3. L.lo[r] = L.pos[v] + 1 /\ L.hi[r] = L.hi[v]
    BY <1>2, <1>3 DEF ChildOf
  <2>4. r # n[v].left
    BY <1>3, ChildrenDiffer
  <2> QED
    BY <2>1, <2>2, <2>3, <2>4
<1> QED
  BY <1>2, <1>3

\* The first vertex of the subtree of r.
FirstBelow(n, r) == End(n, r, FALSE)

\* The node right behind the root.
LEMMA NextIs ==
  ASSUME NEW n, NEW L, Shape(n, L), NEW v \in Vertex, ~L.flip[v], NEW r, r = n[v].right,
         r # NoVertex, NEW w, w = At(L, L.hd[v], L.pos[v] + 1)
  PROVE  /\ w \in Vertex /\ L.hd[w] = L.hd[v] /\ L.pos[w] = L.pos[v] + 1 /\ w # v
         /\ w = FirstBelow(n, r) /\ Within(L, w, r)
<1>1. /\ r \in Vertex /\ r # v /\ L.hd[r] = L.hd[v] /\ L.flip[r] = n[r].reversed
      /\ L.lo[r] = L.pos[v] + 1 /\ L.hi[r] = L.hi[v]
  BY BehindIs
<1>2. /\ L.lo[r] \in Int /\ L.hi[r] \in Int /\ L.pos[r] \in Int /\ L.pos[v] \in Int
      /\ L.lo[r] <= L.pos[r] /\ L.pos[r] <= L.hi[r]
  BY <1>1, LayoutFields DEF Shape, Spans
<1>3. w \in Vertex /\ L.hd[w] = L.hd[v] /\ L.pos[w] = L.pos[v] + 1
  <2>1. L.lo[r] <= L.hi[r]
    BY <1>2
  <2>2. w = At(L, L.hd[r], L.lo[r])
    BY <1>1
  <2> QED
    BY <2>1, <2>2, <1>1, <1>2, AtIs
<1>4. End(n, r, FALSE) = EndOf(n, L, r, FALSE)
  BY Zenon, <1>1, EndIs
<1>5. n[r].reversed \in BOOLEAN
  BY <1>1, NodeFields DEF Shape
<1>6. (FALSE # n[r].reversed) = L.flip[r]
  BY <1>1, <1>5
<1>7. EndOf(n, L, r, FALSE) = w
  BY <1>1, <1>6 DEF EndOf
<1>8. w # v
  BY <1>2, <1>3
<1>9. Within(L, w, r)
  BY <1>1, <1>2, <1>3 DEF Within
<1> QED
  BY <1>3, <1>4, <1>7, <1>8, <1>9 DEF FirstBelow

\* Both vertices of a preferred edge hold it.
LEMMA NextBeside ==
  ASSUME NEW n, NEW L, Shape(n, L), NEW v \in Vertex, NEW w \in Vertex,
         L.hd[w] = L.hd[v], L.pos[w] = L.pos[v] + 1
  PROVE  {v, w} \in Beside(L, v) /\ {v, w} \in Beside(L, w) /\ v # w
<1>1. L.pos[v] \in Int /\ L.pos[w] \in Int
  BY LayoutFields DEF Shape
<1>2. {v, w} \in Beside(L, v)
  BY DEF Beside
<1>3. {w, v} \in Beside(L, w)
  BY <1>1 DEF Beside
<1> QED
  BY <1>1, <1>2, <1>3

\* What split_right does before it splays.
LEMMA SeveringIs ==
  ASSUME NEW n, NEW L, Shape(n, L), Slots(n, L), NEW v \in Vertex, n[v].parent = NoVertex,
         ~L.flip[v], NEW r, r = n[v].right, r # NoVertex,
         NEW w, w = At(L, L.hd[v], L.pos[v] + 1)
  PROVE  \E m : /\ Severing(n, L, v, r, w, m)
                /\ CutBehind(n, v) = RecomputeEnds(Splay(m, w), w)
<1> DEFINE e == {v, w}
           k1 == RecomputeHead(n, r)
           k2 == UnmakePreferredEdge(k1, v, e)
           k3 == UnmakePreferredEdge(k2, w, e)
           k4 == LinkChild(k3, v, "right", NoVertex)
           m == [k4 EXCEPT ![r].parent = NoVertex, ![w].dparent = v]
<1>1. /\ r \in Vertex /\ r # v /\ L.hd[r] = L.hd[v] /\ n[r].parent = v /\ r # n[v].left
  BY BehindIs
<1>2. /\ w \in Vertex /\ L.hd[w] = L.hd[v] /\ L.pos[w] = L.pos[v] + 1 /\ w # v
      /\ w = FirstBelow(n, r)
  BY NextIs
<1>3. CutBehind(n, v) = RecomputeEnds(Splay(m, w), w)
  BY Zenon, <1>2 DEF CutBehind, Unprefer, FirstBelow
<1>4. e \in Beside(L, v) /\ e \in Beside(L, w)
  BY <1>2, NextBeside
<1>5. /\ SamePointers(n, k1) /\ Kept(n, k1)
      /\ \A x \in Vertex \ {r} : k1[x] = n[x]
      /\ k1[r].max = n[r].max
  BY <1>1, RecomputeHeadIs
<1> HIDE DEF k1
<1>6. Holds(k1, v, Beside(L, v)) /\ Holds(k1, w, Beside(L, w))
  <2>1. k1[v].preferred = n[v].preferred /\ k1[w].preferred = n[w].preferred
    BY <1>2, <1>5 DEF Kept
  <2> QED
    BY <2>1, <1>2 DEF Holds, Taken, Slots
<1>7. Marking(k1, v, Beside(L, v) \ {e}, k2)
  BY <1>4, <1>5, <1>6, UnmakeIs DEF SamePointers
<1> HIDE DEF k2
<1>8. Holds(k2, w, Beside(L, w))
  <2>1. k2[w] = k1[w]
    BY <1>2, <1>7 DEF Marking
  <2> QED
    BY <2>1, <1>6 DEF Holds, Taken
<1>9. Marking(k2, w, Beside(L, w) \ {e}, k3)
  <2>1. k2 \in Nodes
    BY <1>7 DEF Marking, SamePointers
  <2> QED
    BY <1>2, <1>4, <1>8, <2>1, UnmakeIs
<1> HIDE DEF k3
<1>10. /\ SamePointers(n, k3)
       /\ \A x \in Vertex : /\ k3[x].dparent = n[x].dparent /\ k3[x].edges = n[x].edges
                            /\ k3[x].max = n[x].max
                            /\ x \notin {v, w} => k3[x].preferred = n[x].preferred
                            /\ x \notin {v, w, r} => k3[x] = n[x]
       /\ k3[v].preferred = k2[v].preferred
  <2>1. \A x \in Vertex : /\ k1[x].left = n[x].left /\ k1[x].right = n[x].right
                          /\ k1[x].parent = n[x].parent /\ k1[x].reversed = n[x].reversed
                          /\ k1[x].dparent = n[x].dparent /\ k1[x].edges = n[x].edges
                          /\ k1[x].max = n[x].max /\ k1[x].preferred = n[x].preferred
                          /\ x # r => k1[x] = n[x]
    BY <1>5 DEF SamePointers, Kept
  <2>2. \A x \in Vertex : /\ k2[x].left = k1[x].left /\ k2[x].right = k1[x].right
                          /\ k2[x].parent = k1[x].parent /\ k2[x].reversed = k1[x].reversed
                          /\ k2[x].dparent = k1[x].dparent /\ k2[x].edges = k1[x].edges
                          /\ k2[x].max = k1[x].max
                          /\ x # v => k2[x] = k1[x]
    BY <1>7 DEF SamePointers, Marking
  <2>3. \A x \in Vertex : /\ k3[x].left = k2[x].left /\ k3[x].right = k2[x].right
                          /\ k3[x].parent = k2[x].parent /\ k3[x].reversed = k2[x].reversed
                          /\ k3[x].dparent = k2[x].dparent /\ k3[x].edges = k2[x].edges
                          /\ k3[x].max = k2[x].max
                          /\ x # w => k3[x] = k2[x]
    BY <1>9 DEF SamePointers, Marking
  <2>4. k3 \in Nodes
    BY <1>9 DEF SamePointers, Marking
  <2>5. SamePointers(n, k3)
    BY <2>1, <2>2, <2>3, <2>4 DEF SamePointers
  <2>6. k3[v].preferred = k2[v].preferred
    BY <2>3, <1>2
  <2> QED
    BY <2>1, <2>2, <2>3, <2>5, <2>6
<1>11. Linking(k3, v, "right", NoVertex, k4)
  <2>1. k3 \in Nodes /\ NoVertex \in Some
    BY <1>10 DEF SamePointers, Some
  <2> QED
    BY <2>1, LinkChildIs
<1> HIDE DEF k4
<1>12. NoVertex \notin Vertex
  BY LctAssumption
<1>13. /\ k4 \in Nodes
       /\ \A x \in Vertex :
            /\ k4[x].left = n[x].left
            /\ k4[x].right = IF x = v THEN NoVertex ELSE n[x].right
            /\ k4[x].parent = n[x].parent /\ k4[x].reversed = n[x].reversed
            /\ k4[x].dparent = n[x].dparent /\ k4[x].edges = n[x].edges
            /\ k4[x].preferred = k3[x].preferred
            /\ x # v => k4[x].max = n[x].max
            /\ x \notin {v, w, r} => k4[x] = n[x]
  <2>1. k4 \in Nodes
    BY <1>11 DEF Linking
  <2>2. \A x \in Vertex :
            /\ k4[x].left = k3[x].left
            /\ k4[x].right = IF x = v THEN NoVertex ELSE k3[x].right
            /\ k4[x].parent = k3[x].parent /\ k4[x].reversed = k3[x].reversed
            /\ k4[x].dparent = k3[x].dparent /\ k4[x].edges = k3[x].edges
            /\ k4[x].preferred = k3[x].preferred
            /\ x # v => k4[x].max = k3[x].max
            /\ x # v => k4[x] = k3[x]
    BY <1>11, <1>12 DEF Linking, Kept
  <2> QED
    BY <2>1, <2>2, <1>10 DEF SamePointers
<1>14. k4[v].max = MaxOf(k4, v)
  <2>1. k4[v].left # v /\ k4[v].right # v
    BY <1>12, <1>13, ChildrenDiffer
  <2> QED
    BY <2>1, <1>11 DEF Linking
<1>15. /\ m \in Nodes
       /\ \A x \in Vertex :
            /\ m[x].left = k4[x].left /\ m[x].right = k4[x].right
            /\ m[x].parent = IF x = r THEN NoVertex ELSE k4[x].parent
            /\ m[x].reversed = k4[x].reversed
            /\ m[x].dparent = IF x = w THEN v ELSE k4[x].dparent
            /\ m[x].edges = k4[x].edges /\ m[x].preferred = k4[x].preferred
            /\ m[x].max = k4[x].max
            /\ x \notin {w, r} => m[x] = k4[x]
  <2> DEFINE a == [k4[r] EXCEPT !.parent = NoVertex]
             q == [k4 EXCEPT ![r] = a]
             b == [q[w] EXCEPT !.dparent = v]
  <2>1. k4[r] \in Node
    BY <1>1, <1>13, NodeFields
  <2>2. /\ a \in Node /\ a.left = k4[r].left /\ a.right = k4[r].right /\ a.parent = NoVertex
        /\ a.reversed = k4[r].reversed /\ a.dparent = k4[r].dparent /\ a.edges = k4[r].edges
        /\ a.preferred = k4[r].preferred /\ a.max = k4[r].max
    BY <2>1 DEF Node
  <2>3. m = [q EXCEPT ![w].dparent = v]
    OBVIOUS
  <2> HIDE DEF a, m
  <2>4. q \in Nodes /\ q[r] = a /\ \A x \in Vertex \ {r} : q[x] = k4[x]
    BY <1>1, <1>13, <2>2 DEF Nodes
  <2> HIDE DEF q
  <2>5. q[w] \in Node
    BY <1>2, <2>4, NodeFields
  <2>6. /\ b \in Node /\ b.left = q[w].left /\ b.right = q[w].right /\ b.parent = q[w].parent
        /\ b.reversed = q[w].reversed /\ b.dparent = v /\ b.edges = q[w].edges
        /\ b.preferred = q[w].preferred /\ b.max = q[w].max
    BY <2>5 DEF Node
  <2>7. m = [q EXCEPT ![w] = b]
    BY <2>3
  <2> HIDE DEF b
  <2>8. m \in Nodes /\ m[w] = b /\ \A x \in Vertex \ {w} : m[x] = q[x]
    BY <1>2, <2>4, <2>6, <2>7 DEF Nodes
  <2>9. \A x \in Vertex :
            /\ q[x].left = k4[x].left /\ q[x].right = k4[x].right
            /\ q[x].parent = IF x = r THEN NoVertex ELSE k4[x].parent
            /\ q[x].reversed = k4[x].reversed
            /\ q[x].dparent = k4[x].dparent
            /\ q[x].edges = k4[x].edges /\ q[x].preferred = k4[x].preferred
            /\ q[x].max = k4[x].max
            /\ x # r => q[x] = k4[x]
    BY <2>2, <2>4
  <2> QED
    BY <2>6, <2>8, <2>9
<1> HIDE DEF m
<1>16. /\ m \in Nodes
       /\ \A x \in Vertex :
            /\ m[x].left = n[x].left
            /\ m[x].right = IF x = v THEN NoVertex ELSE n[x].right
            /\ m[x].parent = IF x = r THEN NoVertex ELSE n[x].parent
            /\ m[x].reversed = n[x].reversed
            /\ m[x].dparent = IF x = w THEN v ELSE n[x].dparent
            /\ m[x].edges = n[x].edges
            /\ x # v => m[x].max = n[x].max
            /\ m[x].preferred = k3[x].preferred
            /\ x \notin {v, r, w} => m[x] = n[x]
  BY <1>13, <1>15
<1>17. Holds(m, v, Beside(L, v) \ {e}) /\ Holds(m, w, Beside(L, w) \ {e})
  <2>1. Holds(k2, v, Beside(L, v) \ {e}) /\ Holds(k3, w, Beside(L, w) \ {e})
    BY <1>7, <1>9 DEF Marking
  <2>2. m[v].preferred = k2[v].preferred /\ m[w].preferred = k3[w].preferred
    BY <1>2, <1>10, <1>16
  <2> QED
    BY <2>1, <2>2 DEF Holds, Taken
<1>18. m[v].max = MaxOf(m, v)
  <2>1. MaxOf(m, v) = MaxOf(k4, v)
    <3>1. /\ m[v].left = k4[v].left /\ m[v].right = k4[v].right
          /\ m[v].preferred = k4[v].preferred /\ m[v].edges = k4[v].edges
      BY <1>15
    <3>2. k4[v].left # NoVertex => k4[v].left \in Vertex
      BY <1>13, NodeFields DEF Some
    <3>3. k4[v].right = NoVertex
      BY <1>13
    <3>4. k4[v].left # NoVertex => m[k4[v].left].max = k4[k4[v].left].max
      BY <3>2, <1>15
    <3> QED
      BY <3>1, <3>3, <3>4, MaxOfSame
  <2> QED
    BY <2>1, <1>14, <1>15
<1>19. Severing(n, L, v, r, w, m)
  BY <1>10, <1>16, <1>17, <1>18 DEF Severing
<1> QED
  BY <1>3, <1>19

-----------------------------------------------------------------------------
(* What is behind a root is a path of its own.                             *)

\* P is L once what lies behind v is a path of its own, with the head w.
Parting(L, v, w, P) ==
  /\ P \in Layouts /\ P.pos = L.pos /\ P.lo = L.lo /\ P.flip = L.flip
  /\ \A x \in Vertex :
       /\ P.hd[x] = IF L.hd[x] = L.hd[v] /\ L.pos[x] > L.pos[v] THEN w ELSE L.hd[x]
       /\ P.hi[x] = IF x = v THEN L.pos[v] ELSE L.hi[x]

\* Such a layout exists.
LEMMA PartingExists ==
  ASSUME NEW L \in Layouts, NEW v \in Vertex, NEW w \in Vertex
  PROVE  \E P : Parting(L, v, w, P)
<1> DEFINE P == [hd |-> [x \in Vertex |-> IF L.hd[x] = L.hd[v] /\ L.pos[x] > L.pos[v]
                                          THEN w ELSE L.hd[x]],
                 pos |-> L.pos, lo |-> L.lo,
                 hi |-> [x \in Vertex |-> IF x = v THEN L.pos[v] ELSE L.hi[x]],
                 flip |-> L.flip]
<1>1. P \in Layouts
  BY DEF Layouts
<1>2. Parting(L, v, w, P)
  BY <1>1 DEF Parting
<1> QED
  BY <1>2

\* The subtree behind a root, and the one before it.
LEMMA BehindRoot ==
  ASSUME NEW n, NEW L, Shape(n, L), NEW v \in Vertex, n[v].parent = NoVertex, ~L.flip[v],
         NEW r, r = n[v].right, r # NoVertex
  PROVE  /\ \A x \in Vertex : Within(L, x, r) <=> L.hd[x] = L.hd[v] /\ L.pos[x] > L.pos[v]
         /\ \A x \in Vertex : L.hd[x] = L.hd[v] /\ x # v =>
              \/ L.pos[x] < L.pos[v] /\ L.hi[x] < L.pos[v]
              \/ /\ L.pos[x] > L.pos[v] /\ L.lo[x] > L.pos[v]
                 /\ L.lo[r] <= L.lo[x] /\ L.hi[x] <= L.hi[r]
<1>1. /\ r \in Vertex /\ r # v /\ L.hd[r] = L.hd[v]
      /\ L.lo[r] = L.pos[v] + 1 /\ L.hi[r] = L.hi[v]
  BY BehindIs
<1>2. \A y \in Vertex : /\ L.pos[y] \in Int /\ L.lo[y] \in Int /\ L.hi[y] \in Int
                        /\ L.lo[y] <= L.pos[y] /\ L.pos[y] <= L.hi[y]
  BY LayoutFields DEF Shape, Spans
<1>3. \A u \in Vertex : L.hd[u] = L.hd[v] => L.lo[v] <= L.pos[u] /\ L.pos[u] <= L.hi[v]
  BY DEF Shape, Parents, Within
<1>4. \A x \in Vertex : Within(L, x, r) <=> L.hd[x] = L.hd[v] /\ L.pos[x] > L.pos[v]
  BY <1>1, <1>2, <1>3 DEF Within
<1>5. ASSUME NEW x \in Vertex, L.hd[x] = L.hd[v], x # v
      PROVE  \/ L.pos[x] < L.pos[v] /\ L.hi[x] < L.pos[v]
             \/ /\ L.pos[x] > L.pos[v] /\ L.lo[x] > L.pos[v]
                /\ L.lo[r] <= L.lo[x] /\ L.hi[x] <= L.hi[r]
  <2>1. ~Within(L, v, x)
    BY <1>5, RootAbove
  <2>2. L.pos[x] # L.pos[v]
    BY <1>5 DEF Shape, Spans
  <2>3. L.pos[v] < L.lo[x] \/ L.hi[x] < L.pos[v]
    BY <2>1, <1>2, <1>5 DEF Within
  <2>4. L.lo[v] <= L.lo[x] /\ L.hi[x] <= L.hi[v]
    <3>1. Apart(L, x, v) \/ Inside(L, x, v) \/ Inside(L, v, x)
      BY <1>5 DEF Shape, Spans
    <3>2. Within(L, x, v)
      BY <1>3, <1>5 DEF Within
    <3> QED
      BY <3>1, <3>2, <1>2, <2>1 DEF Apart, Inside, Within
  <2> QED
    BY <2>2, <2>3, <2>4, <1>1, <1>2
<1> QED
  BY <1>4, <1>5

\* The subtrees of the parted layout.
LEMMA PartedSpans ==
  ASSUME NEW n, NEW L, Shape(n, L), NEW v \in Vertex, n[v].parent = NoVertex, ~L.flip[v],
         NEW r, r = n[v].right, r # NoVertex,
         NEW w \in Vertex, L.hd[w] = L.hd[v], L.pos[w] = L.pos[v] + 1,
         NEW P, Parting(L, v, w, P)
  PROVE  /\ Spans(P)
         /\ \A x \in Vertex : L.hd[x] # w
         /\ \A x, y \in Vertex : P.hd[x] = P.hd[y] <=>
              /\ L.hd[x] = L.hd[y]
              /\ L.hd[x] = L.hd[v] => (L.pos[x] > L.pos[v] <=> L.pos[y] > L.pos[v])
<1>1. \A y \in Vertex : /\ L.pos[y] \in Int /\ L.lo[y] \in Int /\ L.hi[y] \in Int
                        /\ L.hd[y] \in Vertex /\ L.hd[L.hd[y]] = L.hd[y]
                        /\ L.lo[y] <= L.pos[y] /\ L.pos[y] <= L.hi[y]
  BY LayoutFields DEF Shape, Spans
<1>2. \A x \in Vertex :
        /\ P.hd[x] = IF L.hd[x] = L.hd[v] /\ L.pos[x] > L.pos[v] THEN w ELSE L.hd[x]
        /\ P.hi[x] = IF x = v THEN L.pos[v] ELSE L.hi[x]
        /\ P.lo[x] = L.lo[x] /\ P.pos[x] = L.pos[x] /\ P.flip[x] = L.flip[x]
  BY DEF Parting
<1>3. L.pos[L.hd[v]] <= L.pos[v]
  BY <1>1 DEF Shape, Parents
<1>4. ASSUME NEW x \in Vertex, L.hd[x] = w PROVE FALSE
  <2>1. L.hd[w] = w
    BY <1>1, <1>4
  <2>2. L.hd[v] = w
    BY <2>1
  <2> QED
    BY <2>2, <1>1, <1>3
<1>5. \A x, y \in Vertex : P.hd[x] = P.hd[y] <=>
              /\ L.hd[x] = L.hd[y]
              /\ L.hd[x] = L.hd[v] => (L.pos[x] > L.pos[v] <=> L.pos[y] > L.pos[v])
  BY <1>2, <1>4
<1>6. \A x \in Vertex : L.hd[x] = L.hd[v] /\ x # v =>
        \/ L.pos[x] < L.pos[v] /\ L.hi[x] < L.pos[v]
        \/ /\ L.pos[x] > L.pos[v] /\ L.lo[x] > L.pos[v]
  BY BehindRoot
<1>7. \A x \in Vertex : P.lo[x] <= P.pos[x] /\ P.pos[x] <= P.hi[x]
  BY <1>1, <1>2
<1>8. \A x, y \in Vertex : P.hd[x] = P.hd[y] /\ P.pos[x] = P.pos[y] => x = y
  BY <1>2, <1>5 DEF Shape, Spans
<1>9. ASSUME NEW x \in Vertex, NEW y \in Vertex, x # y
      PROVE  Apart(P, x, y) \/ Inside(P, x, y) \/ Inside(P, y, x)
  <2>1. Apart(L, x, y) \/ Inside(L, x, y) \/ Inside(L, y, x)
    BY <1>9 DEF Shape, Spans
  <2>2. CASE P.hd[x] # P.hd[y]
    BY <2>2 DEF Apart
  <2>3. CASE P.hd[x] = P.hd[y] /\ x # v /\ y # v
    <3>1. L.hd[x] = L.hd[y]
      BY <2>3, <1>5
    <3> QED
      BY <2>1, <2>3, <3>1, <1>2 DEF Apart, Inside, Within
  <2>4. CASE P.hd[x] = P.hd[y] /\ x = v
    <3>1. L.hd[y] = L.hd[v] /\ ~(L.pos[y] > L.pos[v])
      BY <2>4, <1>1, <1>5
    <3>2. L.pos[y] < L.pos[v] /\ L.hi[y] < L.pos[v]
      BY <3>1, <1>1, <1>6, <1>9, <2>4
    <3>3. L.lo[v] <= L.lo[y]
      <4>1. Within(L, y, v) /\ ~Within(L, v, y)
        BY <3>1, <1>9, <2>4, RootAbove DEF Shape, Parents
      <4> QED
        BY <4>1, <2>1, <2>4, <1>1, <1>9 DEF Apart, Inside, Within
    <3> QED
      BY <3>2, <3>3, <1>1, <1>2, <2>4, <1>9 DEF Inside, Within
  <2>5. CASE P.hd[x] = P.hd[y] /\ y = v
    <3>1. L.hd[x] = L.hd[v] /\ ~(L.pos[x] > L.pos[v])
      BY <2>5, <1>1, <1>5
    <3>2. L.pos[x] < L.pos[v] /\ L.hi[x] < L.pos[v]
      BY <3>1, <1>1, <1>6, <1>9, <2>5
    <3>3. L.lo[v] <= L.lo[x]
      <4>1. Within(L, x, v) /\ ~Within(L, v, x)
        BY <3>1, <1>9, <2>5, RootAbove DEF Shape, Parents
      <4> QED
        BY <4>1, <2>1, <2>5, <1>1, <1>9 DEF Apart, Inside, Within
    <3> QED
      BY <3>2, <3>3, <1>1, <1>2, <2>5, <1>9 DEF Inside, Within
  <2> QED
    BY <2>2, <2>3, <2>4, <2>5
<1>10. ASSUME NEW x \in Vertex, NEW i \in Int, P.lo[x] <= i, i <= P.hi[x]
       PROVE  \E u \in Vertex : P.hd[u] = P.hd[x] /\ P.pos[u] = i
  <2>1. L.lo[x] <= i /\ i <= L.hi[x]
    BY <1>1, <1>2, <1>10
  <2>2. PICK u \in Vertex : L.hd[u] = L.hd[x] /\ L.pos[u] = i
    BY <2>1 DEF Shape, Spans
  <2>3. L.hd[x] = L.hd[v] => (L.pos[x] > L.pos[v] <=> L.pos[u] > L.pos[v])
    BY <2>2, <1>1, <1>2, <1>6, <1>10
  <2> QED
    BY <2>2, <2>3, <1>2, <1>5
<1>11. ASSUME NEW x \in Vertex PROVE P.hd[P.hd[x]] = P.hd[x]
  BY <1>1, <1>2, <1>3, <1>4
<1> QED
  BY <1>4, <1>5, <1>7, <1>8, <1>9, <1>10, <1>11 DEF Spans

\* The splay trees of the parted layout.
LEMMA PartedShape ==
  ASSUME NEW n, NEW L, Shape(n, L), NEW v \in Vertex, n[v].parent = NoVertex, ~L.flip[v],
         NEW r, r = n[v].right, r # NoVertex,
         NEW w \in Vertex, L.hd[w] = L.hd[v], L.pos[w] = L.pos[v] + 1,
         NEW P, Parting(L, v, w, P), NEW m, Severing(n, L, v, r, w, m)
  PROVE  Shape(m, P)
<1>1. \A y \in Vertex : /\ L.pos[y] \in Int /\ L.lo[y] \in Int /\ L.hi[y] \in Int
                        /\ L.hd[y] \in Vertex /\ L.hd[L.hd[y]] = L.hd[y]
                        /\ L.lo[y] <= L.pos[y] /\ L.pos[y] <= L.hi[y]
  BY LayoutFields DEF Shape, Spans
<1>2. \A x \in Vertex :
        /\ P.hd[x] = IF L.hd[x] = L.hd[v] /\ L.pos[x] > L.pos[v] THEN w ELSE L.hd[x]
        /\ P.hi[x] = IF x = v THEN L.pos[v] ELSE L.hi[x]
        /\ P.lo[x] = L.lo[x] /\ P.pos[x] = L.pos[x] /\ P.flip[x] = L.flip[x]
  BY DEF Parting
<1>3. /\ Spans(P)
      /\ \A x \in Vertex : L.hd[x] # w
      /\ \A x, y \in Vertex : P.hd[x] = P.hd[y] <=>
           /\ L.hd[x] = L.hd[y]
           /\ L.hd[x] = L.hd[v] => (L.pos[x] > L.pos[v] <=> L.pos[y] > L.pos[v])
  BY PartedSpans
<1>4. /\ m \in Nodes
      /\ \A x \in Vertex :
           /\ m[x].left = n[x].left
           /\ m[x].right = IF x = v THEN NoVertex ELSE n[x].right
           /\ m[x].parent = IF x = r THEN NoVertex ELSE n[x].parent
           /\ m[x].reversed = n[x].reversed
  BY DEF Severing
<1>5. /\ \A x \in Vertex : Within(L, x, r) <=> L.hd[x] = L.hd[v] /\ L.pos[x] > L.pos[v]
      /\ \A x \in Vertex : L.hd[x] = L.hd[v] /\ x # v =>
           \/ L.pos[x] < L.pos[v] /\ L.hi[x] < L.pos[v]
           \/ /\ L.pos[x] > L.pos[v] /\ L.lo[x] > L.pos[v]
              /\ L.lo[r] <= L.lo[x] /\ L.hi[x] <= L.hi[r]
  BY BehindRoot
<1>6. /\ r \in Vertex /\ r # v /\ L.hd[r] = L.hd[v] /\ L.flip[r] = n[r].reversed
      /\ L.lo[r] = L.pos[v] + 1 /\ L.hi[r] = L.hi[v]
      /\ n[r].parent = v /\ r # n[v].left
      /\ ChildOf(n, L, v, n[v].left, L.lo[v], L.pos[v] - 1)
  BY BehindIs
<1>7. ASSUME NEW x \in Vertex, x # v, NEW c \in Some, NEW lo, NEW hi,
             c = n[x].left \/ c = n[x].right, ChildOf(n, L, x, c, lo, hi)
      PROVE  ChildOf(m, P, x, c, lo, hi)
  <2>1. CASE c = NoVertex
    BY <2>1, <1>7 DEF ChildOf
  <2>2. CASE c # NoVertex
    <3>1. c \in Vertex /\ n[c].parent = x /\ L.hd[c] = L.hd[x]
      BY <2>2, <1>7, ChildIs
    <3>2. c # r /\ c # v
      BY <3>1, <1>6, <1>7, LctAssumption
    <3>3. Within(L, c, r) <=> Within(L, x, r)
      <4>1. Within(L, c, r) => Within(L, x, r)
        BY <3>1, <3>2, <1>6, AncestorIs
      <4>2. ASSUME Within(L, x, r) PROVE Within(L, c, r)
        <5>1. L.hd[x] = L.hd[v] /\ L.pos[x] > L.pos[v]
          BY <4>2, <1>5
        <5>2. L.lo[x] > L.pos[v]
          BY <5>1, <1>1, <1>5, <1>7
        <5>3. L.lo[x] <= L.lo[c]
          BY <3>1, <1>1, <1>7, <2>2, ChildIs
        <5> QED
          BY <5>1, <5>2, <5>3, <3>1, <1>1, <1>5
      <4> QED
        BY <4>1, <4>2
    <3>4. P.hd[c] = P.hd[x]
      BY <3>1, <3>3, <1>3, <1>5
    <3> QED
      BY <2>2, <3>1, <3>2, <3>4, <1>2, <1>4, <1>7 DEF ChildOf
  <2> QED
    BY <2>1, <2>2
<1>8. Children(m, P)
  <2> SUFFICES ASSUME NEW x \in Vertex
               PROVE  /\ ChildOf(m, P, x, Early(m, P, x), P.lo[x], P.pos[x] - 1)
                      /\ ChildOf(m, P, x, Late(m, P, x), P.pos[x] + 1, P.hi[x])
    BY DEF Children
  <2>1. CASE x # v
    <3>1. Early(m, P, x) = Early(n, L, x) /\ Late(m, P, x) = Late(n, L, x)
      BY <2>1, <1>2, <1>4 DEF Early, Late
    <3>2. /\ ChildOf(n, L, x, Early(n, L, x), L.lo[x], L.pos[x] - 1)
          /\ ChildOf(n, L, x, Late(n, L, x), L.pos[x] + 1, L.hi[x])
      BY DEF Shape, Children
    <3>3. /\ Early(n, L, x) \in {n[x].left, n[x].right} /\ Late(n, L, x) \in {n[x].left, n[x].right}
          /\ n[x].left \in Some /\ n[x].right \in Some
      BY NodeFields DEF Early, Late, Shape
    <3>4. /\ ChildOf(m, P, x, Early(n, L, x), L.lo[x], L.pos[x] - 1)
          /\ ChildOf(m, P, x, Late(n, L, x), L.pos[x] + 1, L.hi[x])
      BY <2>1, <3>2, <3>3, <1>7
    <3> QED
      BY <2>1, <3>1, <3>4, <1>2
  <2>2. CASE x = v
    <3>1. Early(m, P, v) = n[v].left /\ Late(m, P, v) = NoVertex
      BY <1>2, <1>4 DEF Early, Late
    <3>2. ChildOf(m, P, v, NoVertex, P.pos[v] + 1, P.hi[v])
      BY <1>1, <1>2 DEF ChildOf
    <3>3. ChildOf(m, P, v, n[v].left, P.lo[v], P.pos[v] - 1)
      <4>1. CASE n[v].left = NoVertex
        BY <4>1, <1>2, <1>6 DEF ChildOf
      <4>2. CASE n[v].left # NoVertex
        <5> DEFINE c == n[v].left
        <5>1. c \in Vertex /\ c # v /\ c # r
          BY <4>2, <1>6, ChildIs
        <5>2. /\ n[c].parent = v /\ L.hd[c] = L.hd[v] /\ L.lo[c] = L.lo[v]
              /\ L.hi[c] = L.pos[v] - 1 /\ L.flip[c] = (L.flip[v] # n[c].reversed)
          BY <4>2, <1>6 DEF ChildOf
        <5> HIDE DEF c
        <5>5. L.pos[c] < L.pos[v]
          BY <5>1, <5>2, <1>1
        <5>3. P.hd[c] = P.hd[v]
          BY <5>1, <5>2, <5>5, <1>1, <1>2
        <5>4. ChildOf(m, P, v, c, P.lo[v], P.pos[v] - 1)
          BY <5>1, <5>2, <5>3, <1>2, <1>4, LctAssumption DEF ChildOf
        <5> QED
          BY <5>4 DEF c
      <4> QED
        BY <4>1, <4>2
    <3> QED
      BY <2>2, <3>1, <3>2, <3>3
  <2> QED
    BY <2>1, <2>2
<1>9. Parents(m, P)
  <2> SUFFICES ASSUME NEW x \in Vertex
               PROVE  IF m[x].parent = NoVertex
                      THEN /\ P.flip[x] = m[x].reversed
                           /\ \A u \in Vertex : P.hd[u] = P.hd[x] => Within(P, u, x)
                           /\ P.pos[P.hd[x]] = P.lo[x]
                      ELSE x = m[m[x].parent].left \/ x = m[m[x].parent].right
    BY DEF Parents
  <2>1. CASE x = r
    <3>1. P.flip[r] = m[r].reversed /\ m[r].parent = NoVertex
      BY <1>2, <1>4, <1>6
    <3>2. Within(L, r, r) /\ L.pos[r] > L.pos[v]
      BY <1>1, <1>5, <1>6 DEF Within
    <3>3. ASSUME NEW u \in Vertex, P.hd[u] = P.hd[r] PROVE Within(P, u, r)
      <4>1. L.hd[u] = L.hd[v] /\ L.pos[u] > L.pos[v]
        BY <3>2, <3>3, <1>3, <1>6
      <4>2. Within(L, u, r)
        BY <4>1, <1>5
      <4> QED
        BY <4>2, <3>3, <1>2, <1>6 DEF Within
    <3>4. P.pos[P.hd[r]] = P.lo[r]
      BY <3>2, <1>2, <1>6
    <3> QED
      BY <2>1, <3>1, <3>3, <3>4
  <2>2. CASE x # r /\ n[x].parent = NoVertex
    <3>1. /\ L.flip[x] = n[x].reversed
          /\ \A u \in Vertex : L.hd[u] = L.hd[x] => Within(L, u, x)
          /\ L.pos[L.hd[x]] = L.lo[x]
      BY <2>2 DEF Shape, Parents
    <3>2. L.hd[x] = L.hd[v] => x = v
      BY <2>2, OneRoot
    <3>3. CASE x = v
      <4>1. ASSUME NEW u \in Vertex, P.hd[u] = P.hd[v] PROVE Within(P, u, v)
        <5>1. L.hd[u] = L.hd[v] /\ ~(L.pos[u] > L.pos[v])
          BY <4>1, <1>1, <1>3
        <5>2. Within(L, u, v)
          BY <5>1, <3>1, <3>3
        <5> QED
          BY <5>1, <5>2, <4>1, <1>1, <1>2 DEF Within
      <4>2. P.pos[P.hd[v]] = P.lo[v]
        BY <3>1, <3>3, <1>1, <1>2
      <4> QED
        BY <4>1, <4>2, <3>1, <3>3, <2>2, <1>2, <1>4
    <3>4. CASE x # v
      <4>1. L.hd[x] # L.hd[v]
        BY <3>2, <3>4
      <4>2. \A u \in Vertex : P.hd[u] = P.hd[x] => Within(P, u, x)
        BY <4>1, <3>1, <3>4, <1>2, <1>3 DEF Within
      <4>3. P.pos[P.hd[x]] = P.lo[x]
        BY <4>1, <3>1, <1>1, <1>2
      <4> QED
        BY <4>2, <4>3, <3>1, <2>2, <1>2, <1>4
    <3> QED
      BY <3>3, <3>4
  <2>3. CASE x # r /\ n[x].parent # NoVertex
    <3>1. n[x].parent \in Vertex /\ (x = n[n[x].parent].left \/ x = n[n[x].parent].right)
      BY <2>3, ParentIs
    <3>2. m[x].parent = n[x].parent
      BY <2>3, <1>4
    <3> QED
      BY <3>1, <3>2, <2>3, <1>4
  <2> QED
    BY <2>1, <2>2, <2>3
<1> QED
  BY <1>3, <1>4, <1>8, <1>9 DEF Shape, Parting

\* Equal pairs have equal members.
LEMMA PairIsPair ==
  ASSUME NEW x, NEW y, NEW v, NEW w, {x, y} = {v, w}
  PROVE  (x = v /\ y = w) \/ (x = w /\ y = v)
<1>1. x \in {x, y} /\ y \in {x, y} /\ v \in {v, w} /\ w \in {v, w}
  OBVIOUS
<1>2. x \in {v, w} /\ y \in {v, w} /\ v \in {x, y} /\ w \in {x, y}
  BY <1>1, Zenon
<1>3. (x = v \/ x = w) /\ (y = v \/ y = w) /\ (v = x \/ v = y) /\ (w = x \/ w = y)
  BY <1>2
<1> QED
  BY <1>3

\* The edges within a path are those of the path it is of, but the one it was
\* severed at.
LEMMA PartedBeside ==
  ASSUME NEW n, NEW L, Shape(n, L), NEW v \in Vertex, n[v].parent = NoVertex, ~L.flip[v],
         NEW r, r = n[v].right, r # NoVertex,
         NEW w \in Vertex, L.hd[w] = L.hd[v], L.pos[w] = L.pos[v] + 1,
         NEW P, Parting(L, v, w, P)
  PROVE  /\ Beside(P, v) = Beside(L, v) \ {{v, w}}
         /\ Beside(P, w) = Beside(L, w) \ {{v, w}}
         /\ \A x \in Vertex \ {v, w} : Beside(P, x) = Beside(L, x)
<1>1. \A x \in Vertex : L.pos[x] \in Int /\ P.pos[x] = L.pos[x]
  BY LayoutFields DEF Shape, Parting
<1>2. \A x, y \in Vertex : P.hd[x] = P.hd[y] <=>
           /\ L.hd[x] = L.hd[y]
           /\ L.hd[x] = L.hd[v] => (L.pos[x] > L.pos[v] <=> L.pos[y] > L.pos[v])
  BY PartedSpans
<1>3. \A x, y \in Vertex : L.hd[x] = L.hd[y] /\ L.pos[x] = L.pos[y] => x = y
  BY DEF Shape, Spans
<1> DEFINE Near(M, x, y) == /\ M.hd[y] = M.hd[x]
                            /\ M.pos[y] = M.pos[x] + 1 \/ M.pos[y] = M.pos[x] - 1
<1>4. \A x \in Vertex : /\ \A e \in Beside(L, x) : \E y \in Vertex : e = {x, y} /\ Near(L, x, y)
                        /\ \A y \in Vertex : Near(L, x, y) => {x, y} \in Beside(L, x)
                        /\ \A e \in Beside(P, x) : \E y \in Vertex : e = {x, y} /\ Near(P, x, y)
                        /\ \A y \in Vertex : Near(P, x, y) => {x, y} \in Beside(P, x)
  BY DEF Beside
<1>5. ASSUME NEW x \in Vertex, NEW y \in Vertex
      PROVE  Near(P, x, y) <=> Near(L, x, y) /\ {x, y} # {v, w}
  <2>1. Near(P, x, y) => Near(L, x, y)
    BY <1>1, <1>2
  <2>2. ASSUME Near(P, x, y), {x, y} = {v, w} PROVE FALSE
    <3>1. v # w
      BY <1>1
    <3>4. {x, y} = {v, w}
      BY <2>2
    <3>2. (x = v /\ y = w) \/ (x = w /\ y = v)
      BY <3>4, PairIsPair
    <3>3. L.pos[v] > L.pos[v] <=> L.pos[w] > L.pos[v]
      BY <3>2, <2>2, <1>2
    <3> QED
      BY <3>3, <1>1
  <2>3. ASSUME Near(L, x, y), {x, y} # {v, w} PROVE Near(P, x, y)
    <3>1. CASE L.hd[x] # L.hd[v]
      BY <3>1, <2>3, <1>1, <1>2
    <3>2. CASE L.hd[x] = L.hd[v] /\ (L.pos[x] > L.pos[v] <=> L.pos[y] > L.pos[v])
      BY <3>2, <2>3, <1>1, <1>2
    <3>3. CASE L.hd[x] = L.hd[v] /\ L.pos[x] > L.pos[v] /\ ~(L.pos[y] > L.pos[v])
      <4>1. L.pos[y] = L.pos[v] /\ L.pos[x] = L.pos[w] /\ L.hd[y] = L.hd[v] /\ L.hd[x] = L.hd[w]
        BY <3>3, <2>3, <1>1
      <4>2. y = v /\ x = w
        BY <4>1, <1>3
      <4> QED
        BY <4>2, <2>3
    <3>4. CASE L.hd[x] = L.hd[v] /\ L.pos[y] > L.pos[v] /\ ~(L.pos[x] > L.pos[v])
      <4>1. L.pos[x] = L.pos[v] /\ L.pos[y] = L.pos[w] /\ L.hd[x] = L.hd[v] /\ L.hd[y] = L.hd[w]
        BY <3>4, <2>3, <1>1
      <4>2. x = v /\ y = w
        BY <4>1, <1>3
      <4> QED
        BY <4>2, <2>3
    <3> QED
      BY <3>1, <3>2, <3>3, <3>4
  <2> QED
    BY <2>1, <2>2, <2>3
<1> HIDE DEF Near
<1>6. ASSUME NEW x \in Vertex PROVE Beside(P, x) = Beside(L, x) \ {{v, w}}
  <2>1. ASSUME NEW e \in Beside(P, x) PROVE e \in Beside(L, x) \ {{v, w}}
    <3>1. PICK y \in Vertex : e = {x, y} /\ Near(P, x, y)
      BY <1>4
    <3>2. Near(L, x, y) /\ {x, y} # {v, w}
      BY <3>1, <1>5
    <3>3. {x, y} \in Beside(L, x)
      BY <3>2, <1>4
    <3> QED
      BY <3>1, <3>2, <3>3
  <2>2. ASSUME NEW e \in Beside(L, x), e # {v, w} PROVE e \in Beside(P, x)
    <3>1. PICK y \in Vertex : e = {x, y} /\ Near(L, x, y)
      BY <1>4
    <3>2. Near(P, x, y)
      BY <2>2, <3>1, <1>5
    <3>3. {x, y} \in Beside(P, x)
      BY <3>2, <1>4
    <3> QED
      BY <3>1, <3>3
  <2> QED
    BY <2>1, <2>2
<1>7. ASSUME NEW x \in Vertex \ {v, w} PROVE {v, w} \notin Beside(L, x)
  <2> SUFFICES ASSUME {v, w} \in Beside(L, x) PROVE FALSE
    OBVIOUS
  <2> DEFINE e == {v, w}
  <2>3. \A f \in Beside(L, x) : x \in f
    BY <1>4
  <2> HIDE DEF e
  <2>1. x \in e
    BY <2>3 DEF e
  <2>2. x \in {v, w}
    BY <2>1 DEF e
  <2> QED
    BY <2>2
<1>8. ASSUME NEW x \in Vertex \ {v, w} PROVE Beside(P, x) = Beside(L, x)
  <2>1. Beside(P, x) = Beside(L, x) \ {{v, w}}
    BY <1>6
  <2> QED
    BY <2>1, <1>7
<1> QED
  BY <1>6, <1>8

\* What is in front and what is behind keep their subtrees.
LEMMA PartedWithin ==
  ASSUME NEW n, NEW L, Shape(n, L), NEW v \in Vertex, n[v].parent = NoVertex, ~L.flip[v],
         NEW r, r = n[v].right, r # NoVertex,
         NEW w \in Vertex, L.hd[w] = L.hd[v], L.pos[w] = L.pos[v] + 1,
         NEW P, Parting(L, v, w, P), NEW x \in Vertex, x # v, NEW u \in Vertex
  PROVE  Within(P, u, x) <=> Within(L, u, x)
<1>1. \A y \in Vertex : /\ L.pos[y] \in Int /\ L.lo[y] \in Int /\ L.hi[y] \in Int
                        /\ L.lo[y] <= L.pos[y] /\ L.pos[y] <= L.hi[y]
  BY LayoutFields DEF Shape, Spans
<1>2. \A y, z \in Vertex : P.hd[y] = P.hd[z] <=>
           /\ L.hd[y] = L.hd[z]
           /\ L.hd[y] = L.hd[v] => (L.pos[y] > L.pos[v] <=> L.pos[z] > L.pos[v])
  BY PartedSpans
<1>3. L.hd[x] = L.hd[v] =>
        \/ L.pos[x] < L.pos[v] /\ L.hi[x] < L.pos[v]
        \/ /\ L.pos[x] > L.pos[v] /\ L.lo[x] > L.pos[v]
  BY BehindRoot
<1>4. P.lo[x] = L.lo[x] /\ P.hi[x] = L.hi[x] /\ P.pos[u] = L.pos[u]
  BY DEF Parting
<1> QED
  BY <1>1, <1>2, <1>3, <1>4 DEF Within

\* The maxima that stay when a path is severed.
LEMMA PartedHeaviest ==
  ASSUME NEW n, NEW L, Shape(n, L), NEW v \in Vertex, n[v].parent = NoVertex, ~L.flip[v],
         NEW r, r = n[v].right, r # NoVertex,
         NEW w \in Vertex, L.hd[w] = L.hd[v], L.pos[w] = L.pos[v] + 1,
         NEW P, Parting(L, v, w, P), NEW m, Severing(n, L, v, r, w, m),
         NEW x \in Vertex, x # v, ~Within(P, w, x), Heaviest(n, L, x)
  PROVE  Heaviest(m, P, x)
<1>1. \A u \in Vertex : Within(P, u, x) <=> Within(L, u, x)
  BY PartedWithin
<1>2. ~Within(L, v, x)
  BY RootAbove
<1>3. ASSUME NEW u \in Vertex, Within(L, u, x) PROVE Own(m, u) = Own(n, u)
  <2>1. u \notin {v, w}
    BY <1>1, <1>2, <1>3
  <2>2. m[u].preferred = n[u].preferred /\ m[u].edges = n[u].edges
    BY <2>1 DEF Severing
  <2> QED
    BY <2>2 DEF Own
<1>4. m[x].max = n[x].max
  BY DEF Severing
<1> QED
  BY <1>1, <1>3, <1>4 DEF Heaviest

\* All other maxima are those of w and of what is above it in its splay tree.
LEMMA PartedCaches ==
  ASSUME NEW n, NEW L, Shape(n, L), NEW v \in Vertex, n[v].parent = NoVertex, ~L.flip[v],
         NEW r, r = n[v].right, r # NoVertex,
         NEW w \in Vertex, L.hd[w] = L.hd[v], L.pos[w] = L.pos[v] + 1,
         NEW P, Parting(L, v, w, P), NEW m, Severing(n, L, v, r, w, m),
         NEW S \in SUBSET Vertex, v \notin S, Caches(n, L, S)
  PROVE  Caches(m, P, S \cup {w})
<1>1. Shape(m, P)
  BY PartedShape
<1> SUFFICES ASSUME NEW x \in Vertex, \A s \in S \cup {w} : ~Within(P, s, x)
             PROVE  Heaviest(m, P, x)
  BY DEF Caches
<1>2. ASSUME NEW y \in Vertex, y # v, \A s \in S \cup {w} : ~Within(P, s, y)
      PROVE  Heaviest(m, P, y)
  <2>1. \A s \in S : ~Within(L, s, y)
    BY <1>2, PartedWithin
  <2>2. Heaviest(n, L, y)
    BY <2>1 DEF Caches
  <2>3. ~Within(P, w, y)
    BY <1>2
  <2> QED
    BY <1>2, <2>2, <2>3, PartedHeaviest
<1>3. CASE x = v
  <2>1. m[v].max = MaxOf(m, v) /\ m[v].right = NoVertex /\ m[v].left = n[v].left
    BY DEF Severing
  <2>2. ASSUME m[v].left # NoVertex PROVE Heaviest(m, P, m[v].left)
    <3> DEFINE c == m[v].left
    <3>1. c \in Vertex /\ c # v
      BY <1>1, <2>2, ChildIs
    <3>2. \A s \in S \cup {w} : Within(P, s, c) => Within(P, s, v)
      BY <1>1, <2>2, SubtreeIs
    <3> HIDE DEF c
    <3>3. Heaviest(m, P, c)
      BY <3>1, <3>2, <1>2, <1>3
    <3> QED
      BY <3>3 DEF c
  <2>3. Heaviest(m, P, v)
    BY <2>1, <2>2, <1>1, HeaviestLocal
  <2> QED
    BY <1>3, <2>3
<1> QED
  BY <1>2, <1>3

-----------------------------------------------------------------------------
(* Split.                                                                  *)

\* What the root of a path knows of its ends.
Ends(n, L, r) ==
  /\ n[r].head = L.hd[r] /\ n[r].tail \in Vertex
  /\ L.hd[n[r].tail] = L.hd[r] /\ L.pos[n[r].tail] = L.hi[r]

\* All roots know the ends of their paths.
Rooted(n, L) == \A r \in Vertex : n[r].parent = NoVertex => Ends(n, L, r)

\* The pointers say what the layout says.
Sound(n, L) == Shape(n, L) /\ Slots(n, L) /\ Rooted(n, L)

\* Whether the node right behind v on its path.
NextOf(L, v) == {u \in Vertex : L.hd[u] = L.hd[v] /\ L.pos[u] = L.pos[v] + 1}

\* What is said of the ends with the order of the path.
LEMMA EndedEnds ==
  ASSUME NEW n, NEW L, Shape(n, L), NEW v \in Vertex, Ended(n, L, v)
  PROVE  Ends(n, L, v)
<1>1. L.hi[v] \in Int /\ L.lo[v] <= L.hi[v] /\ L.hi[v] <= L.hi[v]
  <2>1. L.pos[v] \in Int /\ L.lo[v] \in Int /\ L.hi[v] \in Int
    BY LayoutFields DEF Shape
  <2>2. L.lo[v] <= L.pos[v] /\ L.pos[v] <= L.hi[v]
    BY DEF Shape, Spans
  <2> QED
    BY <2>1, <2>2
<1> DEFINE t == At(L, L.hd[v], L.hi[v])
<1>2. t \in Vertex /\ L.hd[t] = L.hd[v] /\ L.pos[t] = L.hi[v]
  BY <1>1, AtIs
<1>3. n[v].head = L.hd[v] /\ n[v].tail = t
  BY DEF Ended
<1> QED
  BY <1>2, <1>3 DEF Ends

\* What recompute_head and recompute_tail give a root.
LEMMA EndsAgain ==
  ASSUME NEW n, NEW L, Shape(n, L), NEW v \in Vertex, n[v].parent = NoVertex,
         NEW m, m = RecomputeEnds(n, v)
  PROVE  /\ SamePointers(n, m) /\ Kept(n, m) /\ Shape(m, L)
         /\ \A x \in Vertex \ {v} : m[x] = n[x]
         /\ m[v].max = n[v].max /\ Ends(m, L, v)
<1>1. /\ SamePointers(n, m) /\ Kept(n, m) /\ Shape(m, L)
      /\ \A x \in Vertex \ {v} : m[x] = n[x]
      /\ m[v].max = n[v].max
      /\ EndsOf(n, L, v, m[v])
  BY RecomputeEndsIs
<1>2. FullEnds(n, L, v)
  BY RootEnds
<1>3. Ended(m, L, v)
  BY <1>1, <1>2 DEF FullEnds, Ended, EndsOf
<1> QED
  BY <1>1, <1>3, EndedEnds

\* A root stays right when nothing it says of its path has changed.
LEMMA EndsStay ==
  ASSUME NEW n, NEW L, NEW m, NEW K, NEW x \in Vertex, Ends(n, L, x),
         m[x].head = n[x].head, m[x].tail = n[x].tail, K.hi[x] = L.hi[x],
         \A u \in Vertex : L.hd[u] = L.hd[x] => K.hd[u] = L.hd[u] /\ K.pos[u] = L.pos[u]
  PROVE  Ends(m, K, x)
BY DEF Ends

\* Maxima do not depend on the ends.
LEMMA CachesStay ==
  ASSUME NEW n, NEW L, NEW m, Kept(n, m), \A x \in Vertex : m[x].max = n[x].max,
         NEW S, Caches(n, L, S)
  PROVE  Caches(m, L, S)
<1> SUFFICES ASSUME NEW x \in Vertex, \A s \in S : ~Within(L, s, x)
             PROVE  Heaviest(m, L, x)
  BY DEF Caches
<1>1. Heaviest(n, L, x)
  BY DEF Caches
<1> QED
  BY <1>1, HeaviestStays

\* What is right below fewer nodes is right below more.
LEMMA CachesMore ==
  ASSUME NEW n, NEW L, NEW S, NEW T, S \subseteq T, Caches(n, L, S)
  PROVE  Caches(n, L, T)
BY DEF Caches

\* The preferred edges of a path do not depend on its splay tree.
LEMMA BesideSame ==
  ASSUME NEW L, NEW K, K.hd = L.hd, K.pos = L.pos, NEW x
  PROVE  Beside(K, x) = Beside(L, x)
BY DEF Beside

\* Splaying leaves the ends of all paths right.
LEMMA SplayRooted ==
  ASSUME NEW n, NEW L, NEW v \in Vertex, NEW m, NEW K, Shape(n, L), Splaying(n, L, m, K, v),
         NEW r \in Vertex, m[r].parent = NoVertex,
         L.hd[r] # L.hd[v] => Ends(n, L, r)
  PROVE  Ends(m, K, r)
<1>1. CASE L.hd[r] = L.hd[v]
  <2>1. K.hd[r] = K.hd[v] /\ Shape(m, K) /\ m[v].parent = NoVertex /\ Ended(m, K, v)
    BY <1>1 DEF Splaying
  <2>2. r = v
    BY <2>1, OneRoot
  <2> QED
    BY <2>1, <2>2, EndedEnds
<1>2. CASE L.hd[r] # L.hd[v]
  <2>1. m[r] = n[r] /\ K.hi[r] = L.hi[r] /\ K.hd = L.hd /\ K.pos = L.pos
    BY <1>2 DEF Splaying
  <2>2. Ends(n, L, r)
    BY <1>2
  <2> QED
    BY <2>1, <2>2, EndsStay
<1> QED
  BY <1>1, <1>2

\* m is n after the path of v ends at v.
Cutting(n, L, m, K, v) ==
  /\ Shape(m, K) /\ Slots(m, K)
  /\ \A r \in Vertex : m[r].parent = NoVertex /\ r # v => Ends(m, K, r)
  /\ m[v].parent = NoVertex
  /\ K.pos = L.pos
  /\ \A x \in Vertex : L.hd[x] = L.hd[v] /\ L.pos[x] > L.pos[v] => K.hd[x] \in NextOf(L, v)
  /\ \A x \in Vertex : ~(L.hd[x] = L.hd[v] /\ L.pos[x] > L.pos[v]) => K.hd[x] = L.hd[x]
  /\ \A x \in Vertex : /\ m[x].edges = n[x].edges
                       /\ m[x].dparent = IF x \in NextOf(L, v) THEN v ELSE n[x].dparent
                       /\ L.hd[x] # L.hd[v] => m[x] = n[x]

\* The node behind v, when there is one.
LEMMA NextOfIs ==
  ASSUME NEW n, NEW L, Shape(n, L), NEW v \in Vertex, n[v].parent = NoVertex, ~L.flip[v]
  PROVE  /\ n[v].right = NoVertex => /\ NextOf(L, v) = {}
                                     /\ \A x \in Vertex : L.hd[x] = L.hd[v] => ~(L.pos[x] > L.pos[v])
         /\ n[v].right # NoVertex => NextOf(L, v) = {At(L, L.hd[v], L.pos[v] + 1)}
<1> DEFINE r == n[v].right
           w == At(L, L.hd[v], L.pos[v] + 1)
<1>1. ChildOf(n, L, v, r, L.pos[v] + 1, L.hi[v])
  BY BehindIs
<1>2. /\ L.pos[v] \in Int /\ L.hi[v] \in Int
      /\ \A x \in Vertex : L.hd[x] = L.hd[v] => L.pos[x] \in Int /\ L.pos[x] <= L.hi[v]
  BY RootSpan
<1>3. ASSUME r = NoVertex
      PROVE  /\ NextOf(L, v) = {}
             /\ \A x \in Vertex : L.hd[x] = L.hd[v] => ~(L.pos[x] > L.pos[v])
  <2>1. L.pos[v] = L.hi[v]
    BY <1>1, <1>2, <1>3 DEF ChildOf
  <2>2. \A x \in Vertex : L.hd[x] = L.hd[v] => ~(L.pos[x] > L.pos[v])
    BY <2>1, <1>2
  <2>3. \A x \in Vertex : L.hd[x] = L.hd[v] => L.pos[x] # L.pos[v] + 1
    BY <2>1, <1>2
  <2> QED
    BY <2>2, <2>3 DEF NextOf
<1>4. ASSUME r # NoVertex PROVE NextOf(L, v) = {w}
  <2>1. w \in Vertex /\ L.hd[w] = L.hd[v] /\ L.pos[w] = L.pos[v] + 1
    BY <1>4, NextIs
  <2> HIDE DEF w
  <2>2. \A u \in Vertex : L.hd[u] = L.hd[v] /\ L.pos[u] = L.pos[v] + 1 => u = w
    BY <2>1 DEF Shape, Spans
  <2> QED
    BY <2>1, <2>2 DEF NextOf
<1> QED
  BY <1>3, <1>4

\* What is behind a root is cut off.
LEMMA CutBehindIs ==
  ASSUME NEW n, NEW L, Sound(n, L), NEW v \in Vertex, n[v].parent = NoVertex, ~L.flip[v],
         NEW q, q = CutBehind(n, v)
  PROVE  \E K : /\ Cutting(n, L, q, K, v)
                /\ \A S \in SUBSET Vertex : v \notin S /\ Caches(n, L, S) =>
                     Caches(q, K, S \ NextOf(L, v))
<1> DEFINE r == n[v].right
           w == At(L, L.hd[v], L.pos[v] + 1)
<1>1. Shape(n, L) /\ Slots(n, L) /\ Rooted(n, L)
  BY DEF Sound
<1>2. CASE r = NoVertex
  <2>1. q = n
    BY <1>2 DEF CutBehind
  <2>2. /\ NextOf(L, v) = {}
        /\ \A x \in Vertex : L.hd[x] = L.hd[v] => ~(L.pos[x] > L.pos[v])
    BY <1>1, <1>2, NextOfIs
  <2>3. Cutting(n, L, q, L, v)
    BY <1>1, <2>1, <2>2 DEF Cutting, Rooted
  <2>4. \A S \in SUBSET Vertex : Caches(n, L, S) => Caches(q, L, S \ NextOf(L, v))
    <3> SUFFICES ASSUME NEW S \in SUBSET Vertex, Caches(n, L, S)
                 PROVE  Caches(q, L, S \ NextOf(L, v))
      OBVIOUS
    <3>1. S \ NextOf(L, v) = S
      BY <2>2
    <3> QED
      BY <3>1, <2>1
  <2> QED
    BY <2>3, <2>4
<1>3. CASE r # NoVertex
  <2>1. w \in Vertex /\ L.hd[w] = L.hd[v] /\ L.pos[w] = L.pos[v] + 1 /\ w # v
    BY <1>1, <1>3, NextIs
  <2>2. NextOf(L, v) = {w}
    BY <1>1, <1>3, NextOfIs
  <2>3. PICK m : /\ Severing(n, L, v, r, w, m)
                 /\ CutBehind(n, v) = RecomputeEnds(Splay(m, w), w)
    BY <1>1, <1>3, SeveringIs
  <2>4. L \in Layouts
    BY <1>1 DEF Shape
  <2>5. r \in Vertex /\ r # v /\ L.hd[r] = L.hd[v] /\ L.lo[r] = L.pos[v] + 1
    BY <1>1, <1>3, BehindIs
  <2> HIDE DEF r, w
  <2>6. PICK P : Parting(L, v, w, P)
    BY <2>1, <2>4, PartingExists
  <2>7. Shape(m, P)
    BY <1>1, <1>3, <2>1, <2>3, <2>6, PartedShape DEF r
  <2>8. PICK K : Splaying(m, P, Splay(m, w), K, w)
    BY <2>1, <2>7, SplayKeeps
  <2> DEFINE s == Splay(m, w)
  <2> HIDE DEF s
  <2>9. /\ Shape(s, K) /\ Kept(m, s) /\ K.hd = P.hd /\ K.pos = P.pos
        /\ \A x \in Vertex : P.hd[x] # P.hd[w] =>
             s[x] = m[x] /\ K.lo[x] = P.lo[x] /\ K.hi[x] = P.hi[x] /\ K.flip[x] = P.flip[x]
        /\ s[w].parent = NoVertex
        /\ \A S \in SUBSET Vertex : Caches(m, P, S) => Caches(s, K, S \ {w})
    BY <2>8 DEF Splaying, s
  <2>10. q = RecomputeEnds(s, w)
    BY <2>3 DEF s
  <2>11. /\ SamePointers(s, q) /\ Kept(s, q) /\ Shape(q, K)
         /\ \A x \in Vertex \ {w} : q[x] = s[x]
         /\ q[w].max = s[w].max /\ Ends(q, K, w)
    BY <2>1, <2>9, <2>10, EndsAgain
  <2>12. \A x \in Vertex : L.pos[x] \in Int
    BY <2>4, LayoutFields
  <2>13. /\ P.pos = L.pos
         /\ \A x \in Vertex : P.hd[x] = IF L.hd[x] = L.hd[v] /\ L.pos[x] > L.pos[v] THEN w ELSE L.hd[x]
         /\ \A x \in Vertex : P.hi[x] = IF x = v THEN L.pos[v] ELSE L.hi[x]
    BY <2>6 DEF Parting
  <2>14. \A x \in Vertex : L.hd[x] # w
    BY <1>1, <1>3, <2>1, <2>6, PartedSpans DEF r
  <2>15. P.hd[w] = w /\ P.hd[v] = L.hd[v]
    BY <2>1, <2>12, <2>13
  <2>16. /\ \A x \in Vertex : L.hd[x] # L.hd[v] => q[x] = n[x]
         /\ \A x \in Vertex : q[x].edges = n[x].edges
         /\ \A x \in Vertex : q[x].dparent = IF x = w THEN v ELSE n[x].dparent
         /\ q[v].parent = NoVertex
    <3>1. \A x \in Vertex : /\ m[x].edges = n[x].edges
                            /\ m[x].dparent = IF x = w THEN v ELSE n[x].dparent
                            /\ x \notin {v, r, w} => m[x] = n[x]
      BY <2>3 DEF Severing
    <3>2. \A x \in Vertex : /\ q[x].edges = m[x].edges /\ q[x].dparent = m[x].dparent
      BY <2>9, <2>11 DEF Kept
    <3>3. ASSUME NEW x \in Vertex, L.hd[x] # L.hd[v] PROVE q[x] = n[x]
      <4>1. x \notin {v, r, w}
        BY <3>3, <2>1, <2>5
      <4>2. P.hd[x] # P.hd[w]
        BY <3>3, <2>13, <2>14, <2>15
      <4> QED
        BY <4>1, <4>2, <3>1, <2>9, <2>11
    <3>4. q[v].parent = NoVertex
      <4>1. P.hd[v] # P.hd[w] /\ v # w
        BY <2>1, <2>14, <2>15
      <4>2. q[v] = m[v]
        BY <4>1, <2>9, <2>11
      <4>3. m[v].parent = n[v].parent
        BY <2>3, <2>5 DEF Severing
      <4> QED
        BY <4>2, <4>3
    <3> QED
      BY <3>1, <3>2, <3>3, <3>4
  <2>17. Slots(q, K)
    <3> SUFFICES ASSUME NEW x \in Vertex PROVE Holds(q, x, Beside(K, x))
      BY DEF Slots
    <3>1. Beside(K, x) = Beside(P, x)
      BY <2>9, BesideSame
    <3>2. /\ Beside(P, v) = Beside(L, v) \ {{v, w}}
          /\ Beside(P, w) = Beside(L, w) \ {{v, w}}
          /\ \A y \in Vertex \ {v, w} : Beside(P, y) = Beside(L, y)
      BY <1>1, <1>3, <2>1, <2>6, PartedBeside DEF r
    <3>3. Holds(m, x, Beside(P, x))
      <4>1. CASE x = v
        BY <4>1, <3>2, <2>3 DEF Severing
      <4>2. CASE x = w
        BY <4>2, <3>2, <2>3 DEF Severing
      <4>3. CASE x \notin {v, w}
        <5>1. m[x].preferred = n[x].preferred
          BY <4>3, <2>3 DEF Severing
        <5>2. Holds(n, x, Beside(L, x))
          BY <1>1 DEF Slots
        <5> QED
          BY <5>1, <5>2, <3>2, <4>3 DEF Holds, Taken
      <4> QED
        BY <4>1, <4>2, <4>3
    <3>4. q[x].preferred = m[x].preferred
      BY <2>9, <2>11 DEF Kept
    <3> QED
      BY <3>1, <3>3, <3>4 DEF Holds, Taken
  <2>18. ASSUME NEW x \in Vertex, q[x].parent = NoVertex, x # v PROVE Ends(q, K, x)
    <3>1. CASE x = w
      BY <3>1, <2>11
    <3>2. CASE x # w /\ P.hd[x] = P.hd[w]
      <4>1. q[w].parent = NoVertex
        BY <2>9, <2>11, <2>1 DEF SamePointers
      <4>2. K.hd[x] = K.hd[w]
        BY <3>2, <2>9
      <4> QED
        BY <4>1, <4>2, <3>2, <2>1, <2>11, <2>18, OneRoot
    <3>3. CASE x # w /\ P.hd[x] # P.hd[w]
      <4>1. q[x] = m[x] /\ K.hi[x] = P.hi[x]
        BY <3>3, <2>9, <2>11
      <4>2. x # r
        <5>1. L.pos[r] > L.pos[v]
          <6>1. L.lo[r] <= L.pos[r] /\ L.lo[r] \in Int
            BY <1>1, <2>4, <2>5, LayoutFields DEF Shape, Spans
          <6> QED
            BY <6>1, <2>5, <2>12
        <5> QED
          BY <5>1, <3>3, <2>5, <2>13, <2>15
      <4>3. m[x] = n[x]
        BY <4>2, <3>3, <2>3, <2>18 DEF Severing
      <4>4. Ends(n, L, x)
        BY <4>1, <4>3, <2>18, <1>1 DEF Rooted
      <4>5. L.hd[x] # L.hd[v]
        BY <4>1, <4>3, <2>18, <1>1, OneRoot
      <4>6. \A u \in Vertex : L.hd[u] = L.hd[x] => K.hd[u] = L.hd[u] /\ K.pos[u] = L.pos[u]
        BY <4>5, <2>9, <2>13
      <4>7. K.hi[x] = L.hi[x]
        BY <4>1, <2>13, <2>18
      <4> QED
        BY <4>1, <4>3, <4>4, <4>6, <4>7, EndsStay
    <3> QED
      BY <3>1, <3>2, <3>3
  <2>19. Cutting(n, L, q, K, v)
    BY <2>2, <2>9, <2>11, <2>13, <2>16, <2>17, <2>18 DEF Cutting
  <2>20. ASSUME NEW S \in SUBSET Vertex, v \notin S, Caches(n, L, S)
         PROVE  Caches(q, K, S \ NextOf(L, v))
    <3>1. Caches(m, P, S \cup {w})
      BY <1>1, <1>3, <2>1, <2>3, <2>6, <2>20, PartedCaches DEF r
    <3>2. S \cup {w} \in SUBSET Vertex /\ (S \cup {w}) \ {w} = S \ {w}
      BY <2>1
    <3>3. Caches(s, K, S \ {w})
      <4> DEFINE T == S \cup {w}
      <4>1. Caches(s, K, T \ {w})
        BY <3>1, <3>2, <2>9
      <4> QED
        BY <4>1, <3>2
    <3>4. \A x \in Vertex : q[x].max = s[x].max
      BY <2>11
    <3>5. Caches(q, K, S \ {w})
      BY <3>3, <3>4, <2>11, CachesStay
    <3> QED
      BY <3>5, <2>2
  <2> QED
    BY <2>19, <2>20
<1> QED
  BY <1>2, <1>3

\* The path of v ends at v, what was behind it hangs below it.
Splitting(n, L, m, K, v) ==
  /\ Sound(m, K) /\ m[v].parent = NoVertex
  /\ K.pos = L.pos
  /\ \A x \in Vertex : L.hd[x] = L.hd[v] /\ L.pos[x] > L.pos[v] => K.hd[x] \in NextOf(L, v)
  /\ \A x \in Vertex : ~(L.hd[x] = L.hd[v] /\ L.pos[x] > L.pos[v]) => K.hd[x] = L.hd[x]
  /\ \A x \in Vertex : /\ m[x].edges = n[x].edges
                       /\ m[x].dparent = IF x \in NextOf(L, v) THEN v ELSE n[x].dparent
                       /\ L.hd[x] # L.hd[v] => m[x] = n[x]
  /\ \A S \in SUBSET Vertex : Caches(n, L, S) => Caches(m, K, S \ ({v} \cup NextOf(L, v)))

\* split_right splits the path behind v.
LEMMA SplitIs ==
  ASSUME NEW n, NEW L, Sound(n, L), NEW v \in Vertex
  PROVE  /\ Split(n, v).root = v
         /\ \E K : Splitting(n, L, Split(n, v).nodes, K, v)
<1> DEFINE s == Splay(n, v)
           c == CutBehind(s, v)
           q == RecomputeEnds(c, v)
<1>1. Shape(n, L) /\ Slots(n, L) /\ Rooted(n, L)
  BY DEF Sound
<1>2. Split(n, v).root = v /\ Split(n, v).nodes = q
  BY DEF Split
<1>3. PICK M : Splaying(n, L, s, M, v)
  BY <1>1, SplayKeeps
<1> HIDE DEF s
<1>4. /\ Shape(s, M) /\ Kept(n, s) /\ M.hd = L.hd /\ M.pos = L.pos
      /\ \A x \in Vertex : L.hd[x] # L.hd[v] => s[x] = n[x]
      /\ s[v].parent = NoVertex /\ ~M.flip[v]
      /\ \A S \in SUBSET Vertex : Caches(n, L, S) => Caches(s, M, S \ {v})
  BY <1>3 DEF Splaying
<1>5. Sound(s, M)
  <2>1. Slots(s, M)
    <3> SUFFICES ASSUME NEW x \in Vertex PROVE Holds(s, x, Beside(M, x))
      BY DEF Slots
    <3>1. Beside(M, x) = Beside(L, x)
      BY <1>4, BesideSame
    <3>2. s[x].preferred = n[x].preferred
      BY <1>4 DEF Kept
    <3> QED
      BY <3>1, <3>2, <1>1 DEF Slots, Holds, Taken
  <2>2. ASSUME NEW x \in Vertex, s[x].parent = NoVertex PROVE Ends(s, M, x)
    <3>1. L.hd[x] # L.hd[v] => Ends(n, L, x)
      BY <2>2, <1>1, <1>4 DEF Rooted
    <3> QED
      BY <3>1, <2>2, <1>1, <1>3, SplayRooted
  <2> QED
    BY <2>1, <2>2, <1>4 DEF Sound, Rooted
<1>6. PICK K : /\ Cutting(s, M, c, K, v)
               /\ \A S \in SUBSET Vertex : v \notin S /\ Caches(s, M, S) =>
                     Caches(c, K, S \ NextOf(M, v))
  BY <1>4, <1>5, CutBehindIs
<1> HIDE DEF c
<1>7. NextOf(M, v) = NextOf(L, v)
  BY <1>4 DEF NextOf
<1>8. /\ Shape(c, K) /\ Slots(c, K)
      /\ \A r \in Vertex : c[r].parent = NoVertex /\ r # v => Ends(c, K, r)
      /\ c[v].parent = NoVertex
      /\ K.pos = L.pos
      /\ \A x \in Vertex : L.hd[x] = L.hd[v] /\ L.pos[x] > L.pos[v] => K.hd[x] \in NextOf(L, v)
      /\ \A x \in Vertex : ~(L.hd[x] = L.hd[v] /\ L.pos[x] > L.pos[v]) => K.hd[x] = L.hd[x]
      /\ \A x \in Vertex : /\ c[x].edges = s[x].edges
                           /\ c[x].dparent = IF x \in NextOf(L, v) THEN v ELSE s[x].dparent
                           /\ L.hd[x] # L.hd[v] => c[x] = s[x]
  <2>1. Cutting(s, M, c, K, v) /\ M.hd = L.hd /\ M.pos = L.pos
    BY <1>4, <1>6
  <2> QED
    BY <2>1, <1>7 DEF Cutting
<1>9. /\ SamePointers(c, q) /\ Kept(c, q) /\ Shape(q, K)
      /\ \A x \in Vertex \ {v} : q[x] = c[x]
      /\ q[v].max = c[v].max /\ Ends(q, K, v)
  BY <1>8, EndsAgain
<1> HIDE DEF q
<1>10. Slots(q, K)
  BY <1>8, <1>9 DEF Slots, Holds, Taken, Kept
<1>11. ASSUME NEW x \in Vertex, q[x].parent = NoVertex PROVE Ends(q, K, x)
  <2>1. CASE x = v
    BY <2>1, <1>9
  <2>2. CASE x # v
    <3>1. q[x] = c[x]
      BY <2>2, <1>9
    <3>2. Ends(c, K, x)
      BY <3>1, <2>2, <1>8, <1>11
    <3> QED
      BY <3>1, <3>2 DEF Ends
  <2> QED
    BY <2>1, <2>2
<1>12. q[v].parent = NoVertex
  BY <1>8, <1>9 DEF SamePointers
<1>13. ASSUME NEW x \in Vertex
       PROVE  /\ q[x].edges = n[x].edges
              /\ q[x].dparent = IF x \in NextOf(L, v) THEN v ELSE n[x].dparent
              /\ L.hd[x] # L.hd[v] => q[x] = n[x]
  <2>1. q[x].edges = c[x].edges /\ q[x].dparent = c[x].dparent
    BY <1>9 DEF Kept
  <2>2. s[x].edges = n[x].edges /\ s[x].dparent = n[x].dparent
    BY <1>4 DEF Kept
  <2>3. L.hd[x] # L.hd[v] => q[x] = c[x] /\ c[x] = s[x] /\ s[x] = n[x]
    BY <1>4, <1>8, <1>9
  <2> QED
    BY <2>1, <2>2, <2>3, <1>8
<1>14. ASSUME NEW S \in SUBSET Vertex, Caches(n, L, S)
       PROVE  Caches(q, K, S \ ({v} \cup NextOf(L, v)))
  <2> DEFINE T == S \ {v}
  <2>1. T \in SUBSET Vertex /\ v \notin T /\ Caches(s, M, T)
    BY <1>4, <1>14
  <2>2. T \ NextOf(M, v) = S \ ({v} \cup NextOf(L, v))
    BY <1>7
  <2> HIDE DEF T
  <2>3. Caches(c, K, T \ NextOf(M, v))
    BY <2>1, <1>6
  <2>4. \A x \in Vertex : q[x].max = c[x].max
    BY <1>9
  <2>5. Caches(q, K, T \ NextOf(M, v))
    BY <2>3, <2>4, <1>9, CachesStay
  <2> QED
    BY <2>2, <2>5
<1>15. Sound(q, K)
  BY <1>9, <1>10, <1>11 DEF Sound, Rooted
<1>16. Splitting(n, L, q, K, v)
  BY <1>8, <1>12, <1>13, <1>14, <1>15 DEF Splitting
<1> QED
  BY <1>2, <1>16
=============================================================================
