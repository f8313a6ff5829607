------------------------- MODULE LinkCutTreesProofs -------------------------
(***************************************************************************)
(* Theorems about the link-cut tree, for every set of vertices.  The paths *)
(* hang in a forest: up says of each path which vertex the head of it      *)
(* hangs under, and B which path each tree ends in.  Join, reverse, expose, *)
(* evert, link, cut and the queries keep the nodes Whole, that is, the     *)
(* splay trees of some layout in some such forest.  From that follow what  *)
(* the nodes represent, what they cache, and what the queries answer.      *)
(***************************************************************************)
EXTENDS LinkCutLemmas, SequenceTheorems

-----------------------------------------------------------------------------
(* Join.                                                                   *)

\* The subtree of a root holds all of its path.
LEMMA RootHolds ==
  ASSUME NEW n, NEW L, Shape(n, L), NEW r \in Vertex, n[r].parent = NoVertex,
         NEW x \in Vertex, L.hd[x] = L.hd[r]
  PROVE  /\ L.lo[r] <= L.lo[x] /\ L.hi[x] <= L.hi[r]
         /\ x # r => ~Within(L, r, x)
<1>1. \A y \in Vertex : /\ L.pos[y] \in Int /\ L.lo[y] \in Int /\ L.hi[y] \in Int
                        /\ L.lo[y] <= L.pos[y] /\ L.pos[y] <= L.hi[y]
  BY LayoutFields DEF Shape, Spans
<1>2. CASE x = r
  BY <1>1, <1>2
<1>3. CASE x # r
  <2>1. ~Within(L, r, x)
    BY <1>3, RootAbove
  <2>2. Within(L, x, r)
    BY DEF Shape, Parents
  <2>3. Apart(L, x, r) \/ Inside(L, x, r) \/ Inside(L, r, x)
    BY <1>3 DEF Shape, Spans
  <2> QED
    BY <2>1, <2>2, <2>3, <1>1 DEF Apart, Inside, Within
<1> QED
  BY <1>2, <1>3

\* The path of h is put behind t.
Joining(L, t, h, J) ==
  /\ J \in Layouts /\ J.flip = L.flip
  /\ \A x \in Vertex :
       LET d == IF L.hd[x] = L.hd[h] THEN L.hi[t] + 1 - L.lo[h] ELSE 0
       IN  /\ J.hd[x] = IF L.hd[x] = L.hd[h] THEN L.hd[t] ELSE L.hd[x]
           /\ J.pos[x] = L.pos[x] + d /\ J.lo[x] = L.lo[x] + d
           /\ J.hi[x] = IF x = t THEN L.hi[t] + 1 - L.lo[h] + L.hi[h] ELSE L.hi[x] + d

\* Such a layout exists.
LEMMA JoiningExists ==
  ASSUME NEW L \in Layouts, NEW t \in Vertex, NEW h \in Vertex
  PROVE  \E J : Joining(L, t, h, J)
<1> DEFINE d == L.hi[t] + 1 - L.lo[h]
           b(x) == L.hd[x] = L.hd[h]
           J == [hd |-> [x \in Vertex |-> IF b(x) THEN L.hd[t] ELSE L.hd[x]],
                 pos |-> [x \in Vertex |-> L.pos[x] + IF b(x) THEN d ELSE 0],
                 lo |-> [x \in Vertex |-> L.lo[x] + IF b(x) THEN d ELSE 0],
                 hi |-> [x \in Vertex |-> IF x = t THEN d + L.hi[h]
                                          ELSE L.hi[x] + IF b(x) THEN d ELSE 0],
                 flip |-> L.flip]
<1>1. d \in Int /\ \A x \in Vertex : /\ L.hd[x] \in Vertex /\ L.pos[x] \in Int /\ L.lo[x] \in Int
                                     /\ L.hi[x] \in Int
  BY LayoutFields
<1>2. J \in Layouts
  <2> HIDE DEF d
  <2> QED
    BY <1>1 DEF Layouts
<1>3. Joining(L, t, h, J)
  BY <1>2 DEF Joining
<1> QED
  BY <1>3

\* The same, case by case.
LEMMA JoiningIs ==
  ASSUME NEW L, NEW t \in Vertex, NEW h \in Vertex, NEW J, Joining(L, t, h, J), L \in Layouts,
         L.hd[h] # L.hd[t]
  PROVE  /\ \A x \in Vertex : L.hd[x] = L.hd[h] =>
              /\ J.hd[x] = L.hd[t]
              /\ J.pos[x] = L.pos[x] + (L.hi[t] + 1 - L.lo[h])
              /\ J.lo[x] = L.lo[x] + (L.hi[t] + 1 - L.lo[h])
              /\ J.hi[x] = L.hi[x] + (L.hi[t] + 1 - L.lo[h])
         /\ \A x \in Vertex : L.hd[x] # L.hd[h] =>
              /\ J.hd[x] = L.hd[x] /\ J.pos[x] = L.pos[x] /\ J.lo[x] = L.lo[x]
              /\ J.hi[x] = IF x = t THEN L.hi[t] + 1 - L.lo[h] + L.hi[h] ELSE L.hi[x]
         /\ \A x \in Vertex : J.flip[x] = L.flip[x]
<1>1. \A x \in Vertex : L.pos[x] \in Int /\ L.lo[x] \in Int /\ L.hi[x] \in Int
  BY LayoutFields
<1> QED
  BY <1>1 DEF Joining

\* The subtrees of the joined path.
LEMMA JoinedSpans ==
  ASSUME NEW n, NEW L, Shape(n, L), NEW t \in Vertex, n[t].parent = NoVertex,
         NEW h \in Vertex, n[h].parent = NoVertex, L.hd[h] # L.hd[t], L.pos[t] = L.hi[t],
         NEW J, Joining(L, t, h, J)
  PROVE  Spans(J)
<1> DEFINE d == L.hi[t] + 1 - L.lo[h]
<1>1. \A y \in Vertex : /\ L.pos[y] \in Int /\ L.lo[y] \in Int /\ L.hi[y] \in Int
                        /\ L.hd[y] \in Vertex /\ L.hd[L.hd[y]] = L.hd[y]
                        /\ L.lo[y] <= L.pos[y] /\ L.pos[y] <= L.hi[y]
  BY LayoutFields DEF Shape, Spans
<1>2. \A x \in Vertex : L.hd[x] = L.hd[h] =>
         /\ J.hd[x] = L.hd[t] /\ J.pos[x] = L.pos[x] + d
         /\ J.lo[x] = L.lo[x] + d /\ J.hi[x] = L.hi[x] + d
  BY JoiningIs DEF Shape
<1>3. \A x \in Vertex : L.hd[x] # L.hd[h] =>
         /\ J.hd[x] = L.hd[x] /\ J.pos[x] = L.pos[x] /\ J.lo[x] = L.lo[x]
         /\ J.hi[x] = IF x = t THEN d + L.hi[h] ELSE L.hi[x]
  BY JoiningIs DEF Shape
<1>4. \A x \in Vertex : L.hd[x] = L.hd[t] =>
         L.lo[t] <= L.lo[x] /\ L.hi[x] <= L.hi[t] /\ (x # t => ~Within(L, t, x))
  BY RootHolds
<1>5. \A x \in Vertex : L.hd[x] = L.hd[h] => L.lo[h] <= L.lo[x] /\ L.hi[x] <= L.hi[h]
  BY RootHolds
<1>6. d \in Int /\ L.lo[h] + d = L.hi[t] + 1 /\ L.hi[t] < d + L.hi[h]
  BY <1>1
<1> HIDE DEF d
<1>7. \A x \in Vertex : J.lo[x] <= J.pos[x] /\ J.pos[x] <= J.hi[x]
  BY <1>1, <1>2, <1>3, <1>6
<1>8. ASSUME NEW x \in Vertex, NEW y \in Vertex, J.hd[x] = J.hd[y], J.pos[x] = J.pos[y] PROVE x = y
  <2>1. L.hd[x] = L.hd[y] /\ L.pos[x] = L.pos[y]
    BY <1>1, <1>2, <1>3, <1>4, <1>5, <1>6, <1>8
  <2> QED
    BY <2>1 DEF Shape, Spans
<1>9. ASSUME NEW x \in Vertex, NEW y \in Vertex, x # y
      PROVE  Apart(J, x, y) \/ Inside(J, x, y) \/ Inside(J, y, x)
  <2>1. Apart(L, x, y) \/ Inside(L, x, y) \/ Inside(L, y, x)
    BY <1>9 DEF Shape, Spans
  <2>2. CASE J.hd[x] # J.hd[y]
    BY <2>2 DEF Apart
  <2>3. CASE L.hd[x] = L.hd[h] /\ L.hd[y] = L.hd[h]
    BY <2>1, <2>3, <1>1, <1>2, <1>6 DEF Apart, Inside, Within
  <2>4. CASE L.hd[x] # L.hd[h] /\ L.hd[y] # L.hd[h] /\ L.hd[x] = L.hd[y]
    <3>1. CASE x # t /\ y # t
      BY <3>1, <2>1, <2>4, <1>3 DEF Apart, Inside, Within
    <3>2. CASE x = t
      BY <3>2, <2>4, <1>1, <1>3, <1>4, <1>6, <1>9 DEF Inside, Within
    <3>3. CASE y = t
      BY <3>3, <2>4, <1>1, <1>3, <1>4, <1>6, <1>9 DEF Inside, Within
    <3> QED
      BY <3>1, <3>2, <3>3
  <2>5. CASE L.hd[x] = L.hd[t] /\ L.hd[y] = L.hd[h]
    <3>1. CASE x = t
      BY <3>1, <2>5, <1>1, <1>2, <1>3, <1>4, <1>5, <1>6 DEF Inside, Within
    <3>2. CASE x # t
      BY <3>2, <2>5, <1>1, <1>2, <1>3, <1>4, <1>5, <1>6 DEF Apart
    <3> QED
      BY <3>1, <3>2
  <2>6. CASE L.hd[y] = L.hd[t] /\ L.hd[x] = L.hd[h]
    <3>1. CASE y = t
      BY <3>1, <2>6, <1>1, <1>2, <1>3, <1>4, <1>5, <1>6 DEF Inside, Within
    <3>2. CASE y # t
      BY <3>2, <2>6, <1>1, <1>2, <1>3, <1>4, <1>5, <1>6 DEF Apart
    <3> QED
      BY <3>1, <3>2
  <2> QED
    BY <2>2, <2>3, <2>4, <2>5, <2>6, <1>2, <1>3
<1>10. ASSUME NEW x \in Vertex, NEW i \in Int, J.lo[x] <= i, i <= J.hi[x]
       PROVE  \E u \in Vertex : J.hd[u] = J.hd[x] /\ J.pos[u] = i
  <2>0. \A y \in Vertex, k \in Int : L.lo[y] <= k /\ k <= L.hi[y] =>
          \E u \in Vertex : L.hd[u] = L.hd[y] /\ L.pos[u] = k
    BY DEF Shape, Spans
  <2>1. CASE L.hd[x] = L.hd[h]
    <3>1. i - d \in Int /\ L.lo[x] <= i - d /\ i - d <= L.hi[x]
      BY <2>1, <1>1, <1>2, <1>6, <1>10
    <3>2. PICK u \in Vertex : L.hd[u] = L.hd[x] /\ L.pos[u] = i - d
      BY <3>1, <2>0
    <3> QED
      BY <3>2, <2>1, <1>2, <1>6
  <2>2. CASE L.hd[x] # L.hd[h] /\ i <= L.hi[x]
    <3>1. PICK u \in Vertex : L.hd[u] = L.hd[x] /\ L.pos[u] = i
      BY <2>0, <2>2, <1>3, <1>10
    <3> QED
      BY <3>1, <2>2, <1>3
  <2>3. CASE L.hd[x] # L.hd[h] /\ ~(i <= L.hi[x])
    <3>1. x = t
      BY <2>3, <1>3, <1>10
    <3>2. i - d \in Int /\ L.lo[h] <= i - d /\ i - d <= L.hi[h]
      BY <3>1, <2>3, <1>1, <1>3, <1>6, <1>10
    <3>3. PICK u \in Vertex : L.hd[u] = L.hd[h] /\ L.pos[u] = i - d
      BY <3>2, <2>0
    <3>4. J.hd[u] = L.hd[t] /\ J.pos[u] = i /\ J.hd[x] = L.hd[t]
      BY <3>1, <3>3, <2>3, <1>2, <1>3, <1>6
    <3> QED
      BY <3>4
  <2> QED
    BY <2>1, <2>2, <2>3
<1>11. ASSUME NEW x \in Vertex PROVE J.hd[J.hd[x]] = J.hd[x]
  BY <1>1, <1>2, <1>3
<1> QED
  BY <1>7, <1>8, <1>9, <1>10, <1>11 DEF Spans

\* The splay tree of the joined path.
LEMMA JoinedShape ==
  ASSUME NEW n, NEW L, Shape(n, L), NEW t \in Vertex, n[t].parent = NoVertex, ~L.flip[t],
         NEW h \in Vertex, n[h].parent = NoVertex, L.hd[h] # L.hd[t], L.pos[t] = L.hi[t],
         NEW J, Joining(L, t, h, J), NEW m, Linking(n, t, "right", h, m)
  PROVE  Shape(m, J) /\ n[t].right = NoVertex /\ h # t
<1> DEFINE d == L.hi[t] + 1 - L.lo[h]
<1>1. \A y \in Vertex : /\ L.pos[y] \in Int /\ L.lo[y] \in Int /\ L.hi[y] \in Int
                        /\ L.hd[y] \in Vertex /\ L.hd[L.hd[y]] = L.hd[y]
                        /\ L.lo[y] <= L.pos[y] /\ L.pos[y] <= L.hi[y]
  BY LayoutFields DEF Shape, Spans
<1>2. \A x \in Vertex : L.hd[x] = L.hd[h] =>
         /\ J.hd[x] = L.hd[t] /\ J.pos[x] = L.pos[x] + d
         /\ J.lo[x] = L.lo[x] + d /\ J.hi[x] = L.hi[x] + d
  BY JoiningIs DEF Shape
<1>3. \A x \in Vertex : L.hd[x] # L.hd[h] =>
         /\ J.hd[x] = L.hd[x] /\ J.pos[x] = L.pos[x] /\ J.lo[x] = L.lo[x]
         /\ J.hi[x] = IF x = t THEN d + L.hi[h] ELSE L.hi[x]
  BY JoiningIs DEF Shape
<1>4. \A x \in Vertex : J.flip[x] = L.flip[x]
  BY JoiningIs DEF Shape
<1>5. d \in Int /\ L.lo[h] + d = L.hi[t] + 1 /\ L.hi[t] < d + L.hi[h]
  BY <1>1
<1> HIDE DEF d
<1>6. t # h /\ NoVertex \notin Vertex
  BY LctAssumption
<1>7. /\ ChildOf(n, L, t, n[t].left, L.lo[t], L.pos[t] - 1)
      /\ ChildOf(n, L, t, n[t].right, L.pos[t] + 1, L.hi[t])
  BY BehindIs
<1>8. n[t].right = NoVertex
  <2> SUFFICES ASSUME n[t].right # NoVertex PROVE FALSE
    OBVIOUS
  <2> DEFINE c == n[t].right
  <2>1. c \in Vertex
    BY ChildIs
  <2>2. L.lo[c] = L.pos[t] + 1 /\ L.hi[c] = L.hi[t]
    BY <1>7 DEF ChildOf
  <2> HIDE DEF c
  <2> QED
    BY <2>1, <2>2, <1>1
<1>9. /\ m \in Nodes
      /\ \A x \in Vertex :
           /\ m[x].left = n[x].left
           /\ m[x].right = IF x = t THEN h ELSE n[x].right
           /\ m[x].parent = IF x = h THEN t ELSE n[x].parent
           /\ m[x].reversed = n[x].reversed
  BY DEF Linking
<1>10. ASSUME NEW x \in Vertex, NEW c \in Some, NEW lo, NEW hi, NEW k, NEW l,
              c = n[x].left \/ c = n[x].right, ChildOf(n, L, x, c, lo, hi), lo \in Int, hi \in Int,
              L.hd[x] = L.hd[h] => k = lo + d /\ l = hi + d,
              L.hd[x] # L.hd[h] => k = lo /\ l = hi
       PROVE  ChildOf(m, J, x, c, k, l)
  <2>1. CASE c = NoVertex
    BY <2>1, <1>5, <1>10 DEF ChildOf
  <2>2. CASE c # NoVertex
    <3>1. c \in Vertex /\ n[c].parent = x /\ L.hd[c] = L.hd[x]
      BY <2>2, <1>10, ChildIs
    <3>2. c # h /\ c # t
      BY <3>1, <1>6
    <3>3. L.lo[c] = lo /\ L.hi[c] = hi /\ L.flip[c] = (L.flip[x] # n[c].reversed)
      BY <2>2, <1>10 DEF ChildOf
    <3> QED
      BY <2>2, <3>1, <3>2, <3>3, <1>2, <1>3, <1>4, <1>9, <1>10 DEF ChildOf
  <2> QED
    BY <2>1, <2>2
<1>11. Children(m, J)
  <2> SUFFICES ASSUME NEW x \in Vertex
               PROVE  /\ ChildOf(m, J, x, Early(m, J, x), J.lo[x], J.pos[x] - 1)
                      /\ ChildOf(m, J, x, Late(m, J, x), J.pos[x] + 1, J.hi[x])
    BY DEF Children
  <2>0. n[x].left \in Some /\ n[x].right \in Some
    BY NodeFields DEF Shape
  <2>1. CASE x # t
    <3> DEFINE a == Early(n, L, x)
               b == Late(n, L, x)
    <3>1. Early(m, J, x) = a /\ Late(m, J, x) = b
      BY <2>1, <1>4, <1>9 DEF Early, Late
    <3>2. /\ ChildOf(n, L, x, a, L.lo[x], L.pos[x] - 1)
          /\ ChildOf(n, L, x, b, L.pos[x] + 1, L.hi[x])
      BY DEF Shape, Children
    <3>3. a \in {n[x].left, n[x].right} /\ b \in {n[x].left, n[x].right}
      BY DEF Early, Late
    <3> HIDE DEF a, b
    <3>4. /\ L.lo[x] \in Int /\ L.pos[x] - 1 \in Int /\ L.pos[x] + 1 \in Int /\ L.hi[x] \in Int
          /\ L.hd[x] = L.hd[h] => /\ J.lo[x] = L.lo[x] + d /\ J.pos[x] - 1 = L.pos[x] - 1 + d
                                  /\ J.pos[x] + 1 = L.pos[x] + 1 + d /\ J.hi[x] = L.hi[x] + d
          /\ L.hd[x] # L.hd[h] => /\ J.lo[x] = L.lo[x] /\ J.pos[x] - 1 = L.pos[x] - 1
                                  /\ J.pos[x] + 1 = L.pos[x] + 1 /\ J.hi[x] = L.hi[x]
      BY <2>1, <1>1, <1>2, <1>3, <1>5
    <3>5. ChildOf(m, J, x, a, J.lo[x], J.pos[x] - 1)
      BY <2>0, <3>2, <3>3, <3>4, <1>10
    <3>6. ChildOf(m, J, x, b, J.pos[x] + 1, J.hi[x])
      BY <2>0, <3>2, <3>3, <3>4, <1>10
    <3> QED
      BY <3>1, <3>5, <3>6
  <2>2. CASE x = t
    <3>1. Early(m, J, t) = n[t].left /\ Late(m, J, t) = h
      BY <1>4, <1>9 DEF Early, Late
    <3>2. /\ L.lo[t] \in Int /\ L.pos[t] - 1 \in Int
          /\ J.lo[t] = L.lo[t] /\ J.pos[t] - 1 = L.pos[t] - 1
      BY <1>1, <1>3
    <3>3. ChildOf(m, J, t, n[t].left, J.lo[t], J.pos[t] - 1)
      BY <2>0, <2>2, <3>2, <1>7, <1>10
    <3>4. ChildOf(m, J, t, h, J.pos[t] + 1, J.hi[t])
      <4>1. L.flip[h] = n[h].reversed
        BY DEF Shape, Parents
      <4>2. L.flip[t] \in BOOLEAN /\ L.flip[h] \in BOOLEAN
        BY LayoutFields DEF Shape
      <4>3. J.flip[h] = (J.flip[t] # m[h].reversed)
        BY <4>1, <4>2, <1>4, <1>9
      <4>4. m[h].parent = t /\ J.hd[h] = J.hd[t]
        BY <1>2, <1>3, <1>9
      <4>5. J.lo[h] = J.pos[t] + 1 /\ J.hi[h] = J.hi[t]
        BY <1>1, <1>2, <1>3, <1>5
      <4> QED
        BY <4>3, <4>4, <4>5, <1>6 DEF ChildOf
    <3> QED
      BY <2>2, <3>1, <3>3, <3>4
  <2> QED
    BY <2>1, <2>2
<1>12. Parents(m, J)
  <2> SUFFICES ASSUME NEW x \in Vertex
               PROVE  IF m[x].parent = NoVertex
                      THEN /\ J.flip[x] = m[x].reversed
                           /\ \A u \in Vertex : J.hd[u] = J.hd[x] => Within(J, u, x)
                           /\ J.pos[J.hd[x]] = J.lo[x]
                      ELSE x = m[m[x].parent].left \/ x = m[m[x].parent].right
    BY DEF Parents
  <2>0. \A r \in Vertex : n[r].parent = NoVertex =>
          /\ L.flip[r] = n[r].reversed
          /\ \A u \in Vertex : L.hd[u] = L.hd[r] => Within(L, u, r)
          /\ L.pos[L.hd[r]] = L.lo[r]
    BY DEF Shape, Parents
  <2>1. CASE x = t
    <3>1. ASSUME NEW u \in Vertex, J.hd[u] = J.hd[t] PROVE Within(J, u, t)
      <4>1. CASE L.hd[u] = L.hd[h]
        <5>1. Within(L, u, h)
          BY <4>1, <2>0
        <5> QED
          BY <4>1, <5>1, <3>1, <1>1, <1>2, <1>3, <1>5 DEF Within
      <4>2. CASE L.hd[u] # L.hd[h]
        <5>1. Within(L, u, t)
          BY <4>2, <2>0, <3>1, <1>3
        <5> QED
          BY <4>2, <5>1, <3>1, <1>1, <1>3, <1>5 DEF Within
      <4> QED
        BY <4>1, <4>2
    <3>2. J.pos[J.hd[t]] = J.lo[t]
      BY <2>0, <1>1, <1>3
    <3> QED
      BY <2>0, <2>1, <3>1, <3>2, <1>4, <1>6, <1>9
  <2>2. CASE x = h
    BY <2>2, <1>6, <1>9
  <2>3. CASE x # t /\ x # h /\ n[x].parent = NoVertex
    <3>1. L.hd[x] # L.hd[t] /\ L.hd[x] # L.hd[h]
      BY <2>3, OneRoot
    <3>2. \A u \in Vertex : J.hd[u] = J.hd[x] => Within(J, u, x)
      BY <2>0, <2>3, <3>1, <1>2, <1>3 DEF Within
    <3>3. J.pos[J.hd[x]] = J.lo[x]
      BY <2>0, <2>3, <3>1, <1>1, <1>3
    <3> QED
      BY <2>0, <2>3, <3>2, <3>3, <1>4, <1>9
  <2>4. CASE x # h /\ n[x].parent # NoVertex
    <3>1. n[x].parent \in Vertex /\ (x = n[n[x].parent].left \/ x = n[n[x].parent].right)
      BY <2>4, ParentIs
    <3>2. m[x].parent = n[x].parent
      BY <2>4, <1>9
    <3> QED
      BY <3>1, <3>2, <2>4, <1>6, <1>8, <1>9
  <2> QED
    BY <2>1, <2>2, <2>3, <2>4
<1>13. Spans(J)
  BY JoinedSpans
<1> QED
  BY <1>6, <1>8, <1>9, <1>11, <1>12, <1>13 DEF Shape, Joining

\* The edges within the joined path are those within the two and the new one.
LEMMA JoinedBeside ==
  ASSUME NEW n, NEW L, Shape(n, L), NEW t \in Vertex, n[t].parent = NoVertex,
         NEW h \in Vertex, n[h].parent = NoVertex, L.hd[h] = h, h # L.hd[t], L.pos[t] = L.hi[t],
         NEW J, Joining(L, t, h, J)
  PROVE  /\ Beside(J, t) = Beside(L, t) \cup {{t, h}}
         /\ Beside(J, h) = Beside(L, h) \cup {{t, h}}
         /\ \A x \in Vertex \ {t, h} : Beside(J, x) = Beside(L, x)
<1> DEFINE d == L.hi[t] + 1 - L.lo[h]
           Near(M, x, y) == /\ M.hd[y] = M.hd[x]
                            /\ M.pos[y] = M.pos[x] + 1 \/ M.pos[y] = M.pos[x] - 1
<1>1. \A y \in Vertex : /\ L.pos[y] \in Int /\ L.lo[y] \in Int /\ L.hi[y] \in Int
  BY LayoutFields DEF Shape
<1>2. \A x \in Vertex : L.hd[x] = h => J.hd[x] = L.hd[t] /\ J.pos[x] = L.pos[x] + d
  BY JoiningIs DEF Shape
<1>3. \A x \in Vertex : L.hd[x] # h => J.hd[x] = L.hd[x] /\ J.pos[x] = L.pos[x]
  BY JoiningIs DEF Shape
<1>4. L.pos[h] = L.lo[h] /\ \A u \in Vertex : L.hd[u] = h => L.lo[h] <= L.pos[u]
  BY RootSpan
<1>5. \A u \in Vertex : L.hd[u] = L.hd[t] => L.pos[u] <= L.hi[t]
  BY RootSpan
<1>6. d \in Int /\ L.lo[h] + d = L.hi[t] + 1
  BY <1>1
<1> HIDE DEF d
<1>7. \A x, y \in Vertex : L.hd[x] = L.hd[y] /\ L.pos[x] = L.pos[y] => x = y
  BY DEF Shape, Spans
<1>8. \A x \in Vertex : /\ \A e \in Beside(L, x) : \E y \in Vertex : e = {x, y} /\ Near(L, x, y)
                        /\ \A y \in Vertex : Near(L, x, y) => {x, y} \in Beside(L, x)
                        /\ \A e \in Beside(J, x) : \E y \in Vertex : e = {x, y} /\ Near(J, x, y)
                        /\ \A y \in Vertex : Near(J, x, y) => {x, y} \in Beside(J, x)
  BY DEF Beside
<1>9. ASSUME NEW x \in Vertex, NEW y \in Vertex
      PROVE  Near(J, x, y) <=> Near(L, x, y) \/ (x = t /\ y = h) \/ (x = h /\ y = t)
  <2>1. CASE L.hd[x] = h /\ L.hd[y] = h
    <3>1. x # t /\ y # t
      BY <2>1
    <3>2. /\ J.hd[x] = J.hd[y] /\ J.pos[x] = L.pos[x] + d /\ J.pos[y] = L.pos[y] + d
          /\ L.pos[x] \in Int /\ L.pos[y] \in Int
      BY <2>1, <1>1, <1>2
    <3>3. Near(J, x, y) <=> Near(L, x, y)
      BY <2>1, <3>2, <1>6
    <3> QED
      BY <3>1, <3>3
  <2>2. CASE L.hd[x] # h /\ L.hd[y] # h
    BY <2>2, <1>1, <1>3
  <2>3. CASE L.hd[x] = h /\ L.hd[y] # h
    <3>1. ASSUME Near(J, x, y) PROVE x = h /\ y = t
      <4>1. L.hd[y] = L.hd[t]
        BY <2>3, <3>1, <1>2, <1>3
      <4>2. L.pos[x] = L.pos[h] /\ L.pos[y] = L.pos[t]
        BY <2>3, <3>1, <4>1, <1>1, <1>2, <1>3, <1>4, <1>5, <1>6
      <4> QED
        BY <4>1, <4>2, <2>3, <1>7
    <3>2. ASSUME x = h /\ y = t PROVE Near(J, x, y)
      BY <3>2, <2>3, <1>1, <1>2, <1>3, <1>4, <1>6
    <3> QED
      BY <3>1, <3>2, <2>3
  <2>4. CASE L.hd[x] # h /\ L.hd[y] = h
    <3>1. ASSUME Near(J, x, y) PROVE x = t /\ y = h
      <4>1. L.hd[x] = L.hd[t]
        BY <2>4, <3>1, <1>2, <1>3
      <4>2. L.pos[y] = L.pos[h] /\ L.pos[x] = L.pos[t]
        BY <2>4, <3>1, <4>1, <1>1, <1>2, <1>3, <1>4, <1>5, <1>6
      <4> QED
        BY <4>1, <4>2, <2>4, <1>7
    <3>2. ASSUME x = t /\ y = h PROVE Near(J, x, y)
      BY <3>2, <2>4, <1>1, <1>2, <1>3, <1>4, <1>6
    <3> QED
      BY <3>1, <3>2, <2>4
  <2> QED
    BY <2>1, <2>2, <2>3, <2>4
<1> HIDE DEF Near
<1>10. ASSUME NEW x \in Vertex, NEW e \in Beside(L, x) PROVE e \in Beside(J, x)
  <2>1. PICK y \in Vertex : e = {x, y} /\ Near(L, x, y)
    BY <1>8
  <2>2. Near(J, x, y)
    BY <2>1, <1>9
  <2> QED
    BY <2>1, <2>2, <1>8
<1>11. {t, h} \in Beside(J, t) /\ {t, h} \in Beside(J, h)
  <2>1. {t, h} \in Beside(J, t)
    BY <1>8, <1>9
  <2>2. {h, t} \in Beside(J, h)
    BY <1>8, <1>9
  <2>3. {h, t} = {t, h}
    OBVIOUS
  <2> QED
    BY <2>1, <2>2, <2>3
<1>12. ASSUME NEW x \in Vertex, NEW e \in Beside(J, x), e \notin Beside(L, x)
       PROVE  x \in {t, h} /\ e = {t, h}
  <2>1. PICK y \in Vertex : e = {x, y} /\ Near(J, x, y)
    BY <1>8
  <2>2. ~Near(L, x, y)
    BY <2>1, <1>8, <1>12
  <2>3. (x = t /\ y = h) \/ (x = h /\ y = t)
    BY <2>1, <2>2, <1>9
  <2>4. {h, t} = {t, h}
    OBVIOUS
  <2> QED
    BY <2>1, <2>3, <2>4
<1>13. Beside(J, t) = Beside(L, t) \cup {{t, h}}
  BY <1>10, <1>11, <1>12
<1>14. Beside(J, h) = Beside(L, h) \cup {{t, h}}
  BY <1>10, <1>11, <1>12
<1>15. \A x \in Vertex \ {t, h} : Beside(J, x) = Beside(L, x)
  BY <1>10, <1>12
<1> QED
  BY <1>13, <1>14, <1>15

\* All maxima stay right, the one of t is rebuilt.
LEMMA JoinedCaches ==
  ASSUME NEW n, NEW L, Shape(n, L), NEW t \in Vertex, n[t].parent = NoVertex, ~L.flip[t],
         NEW h \in Vertex, n[h].parent = NoVertex, L.hd[h] # L.hd[t], L.pos[t] = L.hi[t],
         NEW J, Joining(L, t, h, J), NEW m, Linking(n, t, "right", h, m),
         NEW S \in SUBSET Vertex, Caches(n, L, S)
  PROVE  Caches(m, J, S)
<1>1. Shape(m, J) /\ n[t].right = NoVertex /\ h # t
  BY JoinedShape
<1> SUFFICES ASSUME NEW x \in Vertex, \A s \in S : ~Within(J, s, x)
             PROVE  Heaviest(m, J, x)
  BY DEF Caches
<1> DEFINE d == L.hi[t] + 1 - L.lo[h]
<1>2. \A y \in Vertex : /\ L.pos[y] \in Int /\ L.lo[y] \in Int /\ L.hi[y] \in Int
                        /\ L.lo[y] <= L.pos[y] /\ L.pos[y] <= L.hi[y]
  BY LayoutFields DEF Shape, Spans
<1>3. \A y \in Vertex : L.hd[y] = L.hd[h] =>
         /\ J.hd[y] = L.hd[t] /\ J.pos[y] = L.pos[y] + d
         /\ J.lo[y] = L.lo[y] + d /\ J.hi[y] = L.hi[y] + d
  BY JoiningIs DEF Shape
<1>4. \A y \in Vertex : L.hd[y] # L.hd[h] =>
         /\ J.hd[y] = L.hd[y] /\ J.pos[y] = L.pos[y] /\ J.lo[y] = L.lo[y]
         /\ y # t => J.hi[y] = L.hi[y]
  BY JoiningIs DEF Shape
<1>5. \A y \in Vertex : L.hd[y] = L.hd[t] => L.hi[y] <= L.hi[t]
  BY RootHolds
<1>6. \A y \in Vertex : L.hd[y] = L.hd[h] => L.lo[h] <= L.lo[y]
  BY RootHolds
<1>7. d \in Int /\ L.lo[h] + d = L.hi[t] + 1
  BY <1>2
<1> HIDE DEF d
<1>8. ASSUME NEW y \in Vertex, y # t, NEW u \in Vertex
      PROVE  Within(J, u, y) <=> Within(L, u, y)
  <2>1. CASE L.hd[y] = L.hd[h] /\ L.hd[u] = L.hd[h]
    BY <2>1, <1>2, <1>3, <1>7 DEF Within
  <2>2. CASE L.hd[y] = L.hd[h] /\ L.hd[u] # L.hd[h]
    <3>1. CASE L.hd[u] = L.hd[t]
      BY <3>1, <2>2, <1>2, <1>3, <1>4, <1>5, <1>6, <1>7 DEF Within
    <3>2. CASE L.hd[u] # L.hd[t]
      BY <3>2, <2>2, <1>3, <1>4 DEF Within
    <3> QED
      BY <3>1, <3>2
  <2>3. CASE L.hd[y] # L.hd[h] /\ L.hd[u] = L.hd[h]
    <3>1. CASE L.hd[y] = L.hd[t]
      BY <3>1, <2>3, <1>2, <1>3, <1>4, <1>5, <1>6, <1>7, <1>8 DEF Within
    <3>2. CASE L.hd[y] # L.hd[t]
      BY <3>2, <2>3, <1>3, <1>4 DEF Within
    <3> QED
      BY <3>1, <3>2
  <2>4. CASE L.hd[y] # L.hd[h] /\ L.hd[u] # L.hd[h]
    BY <2>4, <1>4, <1>8 DEF Within
  <2> QED
    BY <2>1, <2>2, <2>3, <2>4
<1>9. ASSUME NEW y \in Vertex, y # t, \A s \in S : ~Within(J, s, y)
      PROVE  Heaviest(m, J, y)
  <2>1. \A s \in S : ~Within(L, s, y)
    BY <1>8, <1>9
  <2>2. Heaviest(n, L, y)
    BY <2>1 DEF Caches
  <2>3. Kept(n, m) /\ m[y].max = n[y].max
    BY <1>9 DEF Linking
  <2> QED
    BY <1>8, <1>9, <2>2, <2>3, HeaviestStays
<1>10. CASE x = t
  <2>1. m[t].max = MaxOf(m, t)
    <3>1. m[t].left # t /\ m[t].right # t
      BY <1>1, ChildrenDiffer
    <3> QED
      BY <3>1 DEF Linking
  <2>2. ASSUME NEW c, c = m[t].left \/ c = m[t].right, c # NoVertex
        PROVE  Heaviest(m, J, c)
    <3>1. c \in Vertex /\ c # t
      BY <1>1, <2>2, ChildIs
    <3>2. \A s \in S : Within(J, s, c) => Within(J, s, t)
      BY <1>1, <2>2, SubtreeIs
    <3> QED
      BY <3>1, <3>2, <1>9, <1>10
  <2>3. Heaviest(m, J, t)
    BY <2>1, <2>2, <1>1, HeaviestLocal
  <2> QED
    BY <1>10, <2>3
<1> QED
  BY <1>9, <1>10

\* The nodes t and h with the edge between them preferred.
Preferring(n, L, t, h, m) ==
  /\ SamePointers(n, m)
  /\ \A x \in Vertex : /\ m[x].dparent = n[x].dparent /\ m[x].edges = n[x].edges
                       /\ m[x].max = n[x].max /\ m[x].head = n[x].head /\ m[x].tail = n[x].tail
                       /\ x \notin {t, h} => m[x] = n[x]
  /\ Holds(m, t, Beside(L, t) \cup {{t, h}}) /\ Holds(m, h, Beside(L, h) \cup {{t, h}})

\* At the end of a path there is at most one preferred edge.
LEMMA EndBeside ==
  ASSUME NEW n, NEW L, Shape(n, L), NEW x \in Vertex, NEW h \in Vertex, L.hd[h] # L.hd[x],
         \/ \A u \in Vertex : L.hd[u] = L.hd[x] => L.pos[u] <= L.pos[x]
         \/ \A u \in Vertex : L.hd[u] = L.hd[x] => L.pos[x] <= L.pos[u]
  PROVE  /\ \A a, b \in Beside(L, x) : a = b
         /\ {x, h} \notin Beside(L, x)
<1>1. \A u \in Vertex : L.pos[u] \in Int
  BY LayoutFields DEF Shape
<1> DEFINE Near(y) == L.hd[y] = L.hd[x] /\ (L.pos[y] = L.pos[x] + 1 \/ L.pos[y] = L.pos[x] - 1)
<1>2. \A e \in Beside(L, x) : \E y \in Vertex : e = {x, y} /\ Near(y)
  BY DEF Beside
<1>3. \A y, z \in Vertex : L.hd[y] = L.hd[z] /\ L.pos[y] = L.pos[z] => y = z
  BY DEF Shape, Spans
<1>4. ASSUME NEW y \in Vertex, NEW z \in Vertex, Near(y), Near(z) PROVE y = z
  <2>1. L.pos[y] = L.pos[z] /\ L.hd[y] = L.hd[z]
    BY <1>1, <1>4
  <2> QED
    BY <2>1, <1>3
<1>5. ~Near(h)
  OBVIOUS
<1> HIDE DEF Near
<1>6. ASSUME NEW a \in Beside(L, x), NEW b \in Beside(L, x) PROVE a = b
  <2>1. PICK y \in Vertex : a = {x, y} /\ Near(y)
    BY <1>2
  <2>2. PICK z \in Vertex : b = {x, z} /\ Near(z)
    BY <1>2
  <2>3. y = z
    BY <2>1, <2>2, <1>4
  <2> QED
    BY <2>1, <2>2, <2>3
<1>7. ASSUME {x, h} \in Beside(L, x) PROVE FALSE
  <2>1. PICK y \in Vertex : {x, h} = {x, y} /\ Near(y)
    BY <1>2, <1>7
  <2>2. h = y
    BY <2>1, PairIsPair
  <2> QED
    BY <2>1, <2>2, <1>5
<1> QED
  BY <1>6, <1>7

\* make_preferred_edge at both ends.
LEMMA PreferIs ==
  ASSUME NEW n, NEW L, Shape(n, L), Slots(n, L), NEW t \in Vertex, NEW h \in Vertex,
         L.hd[h] # L.hd[t],
         \A u \in Vertex : L.hd[u] = L.hd[t] => L.pos[u] <= L.pos[t],
         \A u \in Vertex : L.hd[u] = L.hd[h] => L.pos[h] <= L.pos[u]
  PROVE  Preferring(n, L, t, h, MakePreferredEdge(MakePreferredEdge(n, t, {t, h}), h, {t, h}))
<1> DEFINE e == {t, h}
           a == MakePreferredEdge(n, t, e)
           m == MakePreferredEdge(a, h, e)
<1>1. t # h /\ e \in Edge /\ NoEdge \notin Edge
  BY NoEdgeIs DEF Edge
<1>2. /\ \A f, g \in Beside(L, t) : f = g
      /\ {t, h} \notin Beside(L, t)
  BY EndBeside
<1>3. /\ \A f, g \in Beside(L, h) : f = g
      /\ {h, t} \notin Beside(L, h)
  BY EndBeside
<1>4. e = {h, t}
  OBVIOUS
<1>5. n \in Nodes /\ Holds(n, t, Beside(L, t)) /\ Holds(n, h, Beside(L, h))
  BY DEF Shape, Slots
<1>6. e \notin Beside(L, t) /\ e \notin Beside(L, h)
  BY <1>2, <1>3, <1>4
<1> HIDE DEF e
<1>7. Marking(n, t, Beside(L, t) \cup {e}, a)
  BY <1>1, <1>2, <1>5, <1>6, MakeIs
<1> HIDE DEF a
<1>8. a \in Nodes /\ Holds(a, h, Beside(L, h))
  <2>1. a[h] = n[h]
    BY <1>1, <1>7 DEF Marking
  <2> QED
    BY <2>1, <1>5, <1>7 DEF Marking, SamePointers, Holds, Taken
<1>9. Marking(a, h, Beside(L, h) \cup {e}, m)
  BY <1>1, <1>3, <1>6, <1>8, MakeIs
<1> HIDE DEF m
<1>10. \A x \in Vertex :
         /\ a[x].left = n[x].left /\ a[x].right = n[x].right
         /\ a[x].parent = n[x].parent /\ a[x].reversed = n[x].reversed
         /\ a[x].dparent = n[x].dparent /\ a[x].edges = n[x].edges
         /\ a[x].max = n[x].max /\ a[x].head = n[x].head /\ a[x].tail = n[x].tail
         /\ x # t => a[x] = n[x]
  BY <1>7 DEF Marking, SamePointers
<1>11. \A x \in Vertex :
         /\ m[x].left = a[x].left /\ m[x].right = a[x].right
         /\ m[x].parent = a[x].parent /\ m[x].reversed = a[x].reversed
         /\ m[x].dparent = a[x].dparent /\ m[x].edges = a[x].edges
         /\ m[x].max = a[x].max /\ m[x].head = a[x].head /\ m[x].tail = a[x].tail
         /\ x # h => m[x] = a[x]
  BY <1>9 DEF Marking, SamePointers
<1>12. m \in Nodes
  BY <1>9 DEF Marking, SamePointers
<1>13. Holds(m, t, Beside(L, t) \cup {e}) /\ Holds(m, h, Beside(L, h) \cup {e})
  <2>1. m[t] = a[t]
    BY <1>1, <1>11
  <2> QED
    BY <2>1, <1>7, <1>9 DEF Marking, Holds, Taken
<1>14. Preferring(n, L, t, h, m)
  BY <1>10, <1>11, <1>12, <1>13 DEF Preferring, SamePointers, e
<1> QED
  BY <1>14 DEF m, a, e

\* The maxima above t and h are out of date.
LEMMA PreferredCaches ==
  ASSUME NEW n, NEW L, NEW t \in Vertex, NEW h \in Vertex, NEW m, Preferring(n, L, t, h, m),
         NEW S \in SUBSET Vertex, Caches(n, L, S)
  PROVE  Caches(m, L, S \cup {t, h})
<1> SUFFICES ASSUME NEW x \in Vertex, \A s \in S \cup {t, h} : ~Within(L, s, x)
             PROVE  Heaviest(m, L, x)
  BY DEF Caches
<1>1. Heaviest(n, L, x)
  BY DEF Caches
<1>2. ASSUME NEW u \in Vertex, Within(L, u, x) PROVE Own(m, u) = Own(n, u)
  <2>1. u \notin {t, h}
    BY <1>2
  <2>2. m[u] = n[u]
    BY <2>1 DEF Preferring
  <2> QED
    BY <2>2 DEF Own
<1>3. m[x].max = n[x].max
  BY DEF Preferring
<1> QED
  BY <1>1, <1>2, <1>3 DEF Heaviest

\* The path that began at h is behind t, the last of the path of v.
Attaching(n, L, m, K, v, t, h) ==
  /\ Sound(m, K) /\ m[t].parent = NoVertex
  /\ \A x \in Vertex : L.hd[x] # h => K.hd[x] = L.hd[x] /\ K.pos[x] = L.pos[x]
  /\ \A x \in Vertex : L.hd[x] = h =>
       K.hd[x] = L.hd[v] /\ K.pos[x] = L.pos[t] + 1 + (L.pos[x] - L.pos[h])
  /\ \A x \in Vertex : /\ m[x].edges = n[x].edges /\ m[x].dparent = n[x].dparent
                       /\ L.hd[x] # L.hd[v] /\ L.hd[x] # h => m[x] = n[x]
  /\ \A S \in SUBSET Vertex : Caches(n, L, S) => Caches(m, K, S)

\* The last position of a path is that of its last node.
LEMMA LastIs ==
  ASSUME NEW n, NEW L, Shape(n, L), NEW r \in Vertex, n[r].parent = NoVertex,
         NEW t \in Vertex, L.hd[t] = L.hd[r],
         \A u \in Vertex : L.hd[u] = L.hd[r] => L.pos[u] <= L.pos[t]
  PROVE  L.pos[t] = L.hi[r]
<1>1. /\ L.lo[r] \in Int /\ L.hi[r] \in Int /\ L.lo[r] <= L.hi[r] /\ L.pos[t] <= L.hi[r]
      /\ L.pos[t] \in Int
  BY RootSpan
<1>2. \E u \in Vertex : L.hd[u] = L.hd[r] /\ L.pos[u] = L.hi[r]
  BY <1>1 DEF Shape, Spans
<1> QED
  BY <1>1, <1>2

\* join puts the path of w behind the path of v.
LEMMA JoinIs ==
  ASSUME NEW n, NEW L, Sound(n, L), NEW v \in Vertex, n[v].parent = NoVertex,
         NEW w \in Vertex, n[w].parent = NoVertex, L.hd[w] # L.hd[v],
         NEW t, t = n[v].tail, NEW h, h = L.hd[w]
  PROVE  /\ Join(n, v, w).root = t
         /\ \E K : Attaching(n, L, Join(n, v, w).nodes, K, v, t, h)
<1>1. Shape(n, L) /\ Slots(n, L) /\ Rooted(n, L)
  BY DEF Sound
<1>2. /\ t \in Vertex /\ L.hd[t] = L.hd[v] /\ L.pos[t] = L.hi[v]
      /\ h = n[w].head /\ h \in Vertex /\ L.hd[h] = h
  <2>1. Ends(n, L, v) /\ Ends(n, L, w)
    BY <1>1 DEF Rooted
  <2>2. L.hd[w] \in Vertex /\ L.hd[L.hd[w]] = L.hd[w]
    BY <1>1, LayoutFields DEF Shape, Spans
  <2> QED
    BY <2>1, <2>2 DEF Ends
<1>3. /\ \A u \in Vertex : L.hd[u] = L.hd[t] => L.pos[u] <= L.pos[t]
      /\ \A u \in Vertex : L.hd[u] = L.hd[h] => L.pos[h] <= L.pos[u]
  <2>1. \A u \in Vertex : L.hd[u] = L.hd[v] => L.pos[u] <= L.hi[v]
    BY <1>1, RootSpan
  <2>2. /\ L.pos[L.hd[w]] = L.lo[w]
        /\ \A u \in Vertex : L.hd[u] = L.hd[w] => L.lo[w] <= L.pos[u]
    BY <1>1, RootSpan
  <2> QED
    BY <2>1, <2>2, <1>2
<1> DEFINE e == {t, h}
           p == MakePreferredEdge(MakePreferredEdge(n, t, e), h, e)
           a == Splay(p, t)
           b == Splay(a, h)
           j == LinkChild(b, t, "right", h)
           q == RecomputeEnds(j, t)
<1>4. Join(n, v, w).root = t /\ Join(n, v, w).nodes = q
  BY <1>2 DEF Join
<1>5. Preferring(n, L, t, h, p)
  BY <1>1, <1>2, <1>3, PreferIs
<1> HIDE DEF p
<1>6. Shape(p, L)
  BY <1>1, <1>5, ShapeStays DEF Preferring
<1>7. PICK A : Splaying(p, L, a, A, t)
  BY <1>2, <1>6, SplayKeeps
<1> HIDE DEF a
<1>8. /\ Shape(a, A) /\ Kept(p, a) /\ A.hd = L.hd /\ A.pos = L.pos
      /\ \A x \in Vertex : L.hd[x] # L.hd[t] => a[x] = p[x]
      /\ a[t].parent = NoVertex /\ ~A.flip[t]
      /\ \A S \in SUBSET Vertex : Caches(p, L, S) => Caches(a, A, S \ {t})
  BY <1>7 DEF Splaying
<1>9. PICK B : Splaying(a, A, b, B, h)
  BY <1>2, <1>8, SplayKeeps
<1> HIDE DEF b
<1>10. /\ Shape(b, B) /\ Kept(a, b) /\ B.hd = L.hd /\ B.pos = L.pos
       /\ \A x \in Vertex : L.hd[x] # L.hd[h] => b[x] = a[x] /\ B.flip[x] = A.flip[x]
       /\ b[h].parent = NoVertex
       /\ \A S \in SUBSET Vertex : Caches(a, A, S) => Caches(b, B, S \ {h})
  BY <1>8, <1>9 DEF Splaying
<1>11. L.hd[t] # L.hd[h]
  BY <1>2
<1>12. b[t] = a[t] /\ b[t].parent = NoVertex /\ ~B.flip[t]
  BY <1>2, <1>8, <1>10, <1>11
<1>13. /\ B.hd[h] # B.hd[t] /\ B.pos[t] = B.hi[t] /\ B.hd[h] = h /\ h # B.hd[t]
  <2>1. \A u \in Vertex : B.hd[u] = B.hd[t] => B.pos[u] <= B.pos[t]
    BY <1>3, <1>10
  <2>2. B.pos[t] = B.hi[t]
    BY <2>1, <1>2, <1>10, <1>12, LastIs
  <2> QED
    BY <2>2, <1>2, <1>10, <1>11
<1>14. B \in Layouts
  BY <1>10 DEF Shape
<1>15. PICK J : Joining(B, t, h, J)
  BY <1>2, <1>14, JoiningExists
<1>16. Linking(b, t, "right", h, j)
  <2>1. b \in Nodes /\ h \in Some
    BY <1>2, <1>10 DEF Shape, Some
  <2> QED
    BY <2>1, <1>2, LinkChildIs
<1> HIDE DEF j
<1>17. Shape(j, J) /\ h # t
  BY <1>2, <1>10, <1>12, <1>13, <1>15, <1>16, JoinedShape
<1>18. j[t].parent = NoVertex
  BY <1>2, <1>12, <1>16, <1>17 DEF Linking
<1>19. /\ SamePointers(j, q) /\ Kept(j, q) /\ Shape(q, J)
       /\ \A x \in Vertex \ {t} : q[x] = j[x]
       /\ q[t].max = j[t].max /\ Ends(q, J, t)
  BY <1>2, <1>17, <1>18, EndsAgain
<1> HIDE DEF q
<1>20. \A x \in Vertex : /\ L.pos[x] \in Int /\ B.lo[x] \in Int /\ B.hi[x] \in Int
  BY <1>1, <1>14, LayoutFields DEF Shape
<1>21. B.lo[h] = L.pos[h]
  BY <1>2, <1>10, RootSpan
<1>22. /\ \A x \in Vertex : L.hd[x] = h => /\ J.hd[x] = L.hd[t]
                                           /\ J.pos[x] = L.pos[t] + 1 + (L.pos[x] - L.pos[h])
       /\ \A x \in Vertex : L.hd[x] # h => /\ J.hd[x] = L.hd[x] /\ J.pos[x] = L.pos[x]
                                           /\ x # t => J.hi[x] = B.hi[x]
  <2>1. /\ \A x \in Vertex : B.hd[x] = B.hd[h] =>
             /\ J.hd[x] = B.hd[t] /\ J.pos[x] = B.pos[x] + (B.hi[t] + 1 - B.lo[h])
        /\ \A x \in Vertex : B.hd[x] # B.hd[h] =>
             /\ J.hd[x] = B.hd[x] /\ J.pos[x] = B.pos[x]
             /\ J.hi[x] = IF x = t THEN B.hi[t] + 1 - B.lo[h] + B.hi[h] ELSE B.hi[x]
    <3>1. t \in Vertex /\ h \in Vertex /\ B.hd[h] # B.hd[t]
      BY <1>2, <1>13
    <3> QED
      BY ONLY <3>1, <1>14, <1>15, JoiningIs
  <2> QED
    BY <2>1, <1>2, <1>10, <1>13, <1>20, <1>21
<1>23. \A x \in Vertex : /\ q[x].edges = n[x].edges /\ q[x].dparent = n[x].dparent
                         /\ q[x].preferred = p[x].preferred
  <2>1. \A x \in Vertex : /\ q[x].edges = p[x].edges /\ q[x].dparent = p[x].dparent
                          /\ q[x].preferred = p[x].preferred
    BY <1>8, <1>10, <1>16, <1>19 DEF Kept, Linking
  <2> QED
    BY <2>1, <1>5 DEF Preferring
<1>24. ASSUME NEW x \in Vertex, L.hd[x] # L.hd[v], L.hd[x] # h
       PROVE  q[x] = n[x] /\ b[x] = n[x]
  <2>1. x \notin {t, h}
    BY <1>2, <1>24
  <2>2. q[x] = j[x] /\ j[x] = b[x] /\ b[x] = a[x] /\ a[x] = p[x] /\ p[x] = n[x]
    BY <2>1, <1>2, <1>5, <1>8, <1>10, <1>16, <1>19, <1>24 DEF Linking, Preferring
  <2> QED
    BY <2>2
<1>25. Slots(q, J)
  <2> SUFFICES ASSUME NEW x \in Vertex PROVE Holds(q, x, Beside(J, x))
    BY DEF Slots
  <2>1. /\ Beside(J, t) = Beside(B, t) \cup {{t, h}}
        /\ Beside(J, h) = Beside(B, h) \cup {{t, h}}
        /\ \A y \in Vertex \ {t, h} : Beside(J, y) = Beside(B, y)
    BY <1>2, <1>10, <1>12, <1>13, <1>15, JoinedBeside
  <2>2. \A y \in Vertex : Beside(B, y) = Beside(L, y)
    BY <1>10, BesideSame
  <2>3. Holds(p, x, Beside(J, x))
    <3>1. CASE x = t
      BY <3>1, <2>1, <2>2, <1>2, <1>5 DEF Preferring
    <3>2. CASE x = h
      BY <3>2, <2>1, <2>2, <1>2, <1>5 DEF Preferring
    <3>3. CASE x \notin {t, h}
      <4>1. p[x] = n[x]
        BY <3>3, <1>5 DEF Preferring
      <4>2. Beside(J, x) = Beside(L, x)
        BY <3>3, <2>1, <2>2
      <4> QED
        BY <4>1, <4>2, <1>1 DEF Slots, Holds, Taken
    <3> QED
      BY <3>1, <3>2, <3>3
  <2> QED
    BY <2>3, <1>23 DEF Holds, Taken
<1>26. ASSUME NEW r \in Vertex, q[r].parent = NoVertex PROVE Ends(q, J, r)
  <2>1. CASE r = t
    BY <2>1, <1>19
  <2>2. CASE r # t
    <3>1. q[r] = j[r]
      BY <2>2, <1>19
    <3>2. r # h /\ b[r].parent = NoVertex
      BY <3>1, <2>2, <1>2, <1>16, <1>26, LctAssumption DEF Linking
    <3>3. B.hd[r] # B.hd[t] /\ B.hd[r] # B.hd[h]
      BY <3>2, <2>2, <1>2, <1>10, <1>12, OneRoot
    <3>4. L.hd[r] # L.hd[v] /\ L.hd[r] # h
      BY <3>3, <1>2, <1>10
    <3>5. q[r] = n[r] /\ b[r] = n[r]
      BY <3>4, <1>24
    <3>6. Ends(n, L, r)
      BY <3>5, <1>1, <1>26 DEF Rooted
    <3>7. B.hi[r] = L.hi[r]
      <4>1. A.hi[r] = L.hi[r]
        BY <3>4, <1>2, <1>7 DEF Splaying
      <4>2. A.hd[r] # A.hd[h]
        BY <3>4, <1>2, <1>8
      <4>3. B.hi[r] = A.hi[r]
        BY <4>2, <1>9 DEF Splaying
      <4> QED
        BY <4>1, <4>3
    <3>8. J.hi[r] = L.hi[r]
      BY <3>4, <3>7, <2>2, <1>22
    <3>9. \A u \in Vertex : L.hd[u] = L.hd[r] => J.hd[u] = L.hd[u] /\ J.pos[u] = L.pos[u]
      BY <3>4, <1>22
    <3> QED
      BY <3>5, <3>6, <3>8, <3>9, EndsStay
  <2> QED
    BY <2>1, <2>2
<1>27. ASSUME NEW S \in SUBSET Vertex, Caches(n, L, S) PROVE Caches(q, J, S)
  <2> DEFINE T == S \cup {t, h}
             U == (T \ {t}) \ {h}
  <2>1. T \in SUBSET Vertex /\ T \ {t} \in SUBSET Vertex /\ U \in SUBSET Vertex /\ U \subseteq S
    BY <1>2
  <2>2. Caches(p, L, T)
    BY <1>2, <1>5, <1>27, PreferredCaches
  <2> HIDE DEF T
  <2>3. Caches(a, A, T \ {t})
    BY <2>1, <2>2, <1>8
  <2>4. Caches(b, B, U)
    BY <2>1, <2>3, <1>10
  <2> HIDE DEF U
  <2>5. Caches(b, B, S)
    BY <2>1, <2>4, CachesMore
  <2>6. Caches(j, J, S)
    BY <2>5, <1>2, <1>10, <1>12, <1>13, <1>15, <1>16, JoinedCaches
  <2>7. \A x \in Vertex : q[x].max = j[x].max
    BY <1>19
  <2> QED
    BY <2>6, <2>7, <1>19, CachesStay
<1>28. q[t].parent = NoVertex
  BY <1>2, <1>18, <1>19 DEF SamePointers
<1>29. Sound(q, J)
  BY <1>19, <1>25, <1>26 DEF Sound, Rooted
<1>30. Attaching(n, L, q, J, v, t, h)
  BY <1>2, <1>22, <1>23, <1>24, <1>27, <1>28, <1>29 DEF Attaching
<1> QED
  BY <1>4, <1>30

-----------------------------------------------------------------------------
(* Reverse.                                                                *)

\* The path of r is turned round, t was its last node.
Reversing(L, r, t, V) ==
  /\ V \in Layouts
  /\ \A x \in Vertex : L.hd[x] = L.hd[r] =>
       /\ V.hd[x] = t /\ V.pos[x] = -L.pos[x] /\ V.lo[x] = -L.hi[x] /\ V.hi[x] = -L.lo[x]
       /\ V.flip[x] = ~L.flip[x]
  /\ \A x \in Vertex : L.hd[x] # L.hd[r] =>
       /\ V.hd[x] = L.hd[x] /\ V.pos[x] = L.pos[x] /\ V.lo[x] = L.lo[x] /\ V.hi[x] = L.hi[x]
       /\ V.flip[x] = L.flip[x]

\* Such a layout exists.
LEMMA ReversingExists ==
  ASSUME NEW L \in Layouts, NEW r \in Vertex, NEW t \in Vertex
  PROVE  \E V : Reversing(L, r, t, V)
<1> DEFINE b(x) == L.hd[x] = L.hd[r]
           V == [hd |-> [x \in Vertex |-> IF b(x) THEN t ELSE L.hd[x]],
                 pos |-> [x \in Vertex |-> IF b(x) THEN -L.pos[x] ELSE L.pos[x]],
                 lo |-> [x \in Vertex |-> IF b(x) THEN -L.hi[x] ELSE L.lo[x]],
                 hi |-> [x \in Vertex |-> IF b(x) THEN -L.lo[x] ELSE L.hi[x]],
                 flip |-> [x \in Vertex |-> IF b(x) THEN ~L.flip[x] ELSE L.flip[x]]]
<1>1. \A x \in Vertex : /\ L.hd[x] \in Vertex /\ L.pos[x] \in Int /\ L.lo[x] \in Int
                        /\ L.hi[x] \in Int /\ L.flip[x] \in BOOLEAN
  BY LayoutFields
<1>2. V \in Layouts
  <2>1. /\ [x \in Vertex |-> IF b(x) THEN t ELSE L.hd[x]] \in [Vertex -> Vertex]
        /\ [x \in Vertex |-> IF b(x) THEN ~L.flip[x] ELSE L.flip[x]] \in [Vertex -> BOOLEAN]
    <3> HIDE DEF b
    <3> QED
      BY <1>1
  <2>2. [x \in Vertex |-> IF b(x) THEN -L.pos[x] ELSE L.pos[x]] \in [Vertex -> Int]
    <3> HIDE DEF b
    <3> QED
      BY <1>1
  <2>3. [x \in Vertex |-> IF b(x) THEN -L.hi[x] ELSE L.lo[x]] \in [Vertex -> Int]
    <3> HIDE DEF b
    <3> QED
      BY <1>1
  <2>4. [x \in Vertex |-> IF b(x) THEN -L.lo[x] ELSE L.hi[x]] \in [Vertex -> Int]
    <3> HIDE DEF b
    <3> QED
      BY <1>1
  <2> HIDE DEF b
  <2> QED
    BY <2>1, <2>2, <2>3, <2>4 DEF Layouts
<1>3. Reversing(L, r, t, V)
  BY <1>2 DEF Reversing
<1> QED
  BY <1>3

\* The splay tree of a path that is turned round, by a reversal at its root.
LEMMA ReversedShape ==
  ASSUME NEW n, NEW L, Shape(n, L), NEW r \in Vertex, n[r].parent = NoVertex,
         NEW t \in Vertex, L.hd[t] = L.hd[r], L.pos[t] = L.hi[r],
         NEW V, Reversing(L, r, t, V), NEW m \in Nodes,
         \A x \in Vertex : /\ m[x].left = n[x].left /\ m[x].right = n[x].right
                           /\ m[x].parent = n[x].parent
                           /\ x # r => m[x].reversed = n[x].reversed,
         m[r].reversed = ~n[r].reversed
  PROVE  Shape(m, V)
<1>1. \A y \in Vertex : /\ L.pos[y] \in Int /\ L.lo[y] \in Int /\ L.hi[y] \in Int
                        /\ L.hd[y] \in Vertex /\ L.hd[L.hd[y]] = L.hd[y]
                        /\ L.lo[y] <= L.pos[y] /\ L.pos[y] <= L.hi[y]
                        /\ L.flip[y] \in BOOLEAN
  BY LayoutFields DEF Shape, Spans
<1>2. \A x \in Vertex : L.hd[x] = L.hd[r] =>
       /\ V.hd[x] = t /\ V.pos[x] = -L.pos[x] /\ V.lo[x] = -L.hi[x] /\ V.hi[x] = -L.lo[x]
       /\ V.flip[x] = ~L.flip[x]
  BY DEF Reversing
<1>3. \A x \in Vertex : L.hd[x] # L.hd[r] =>
       /\ V.hd[x] = L.hd[x] /\ V.pos[x] = L.pos[x] /\ V.lo[x] = L.lo[x] /\ V.hi[x] = L.hi[x]
       /\ V.flip[x] = L.flip[x]
  BY DEF Reversing
<1>4. \A x \in Vertex : L.hd[x] # L.hd[r] => V.hd[x] # t
  <2> SUFFICES ASSUME NEW x \in Vertex, L.hd[x] = t PROVE L.hd[x] = L.hd[r]
    BY <1>3
  <2>1. L.hd[t] = t
    BY <1>1
  <2> QED
    BY <2>1
<1>5. \A x, y \in Vertex : V.hd[x] = V.hd[y] <=> L.hd[x] = L.hd[y]
  BY <1>2, <1>3, <1>4
<1>6. \A x, y \in Vertex : Within(V, x, y) <=> Within(L, x, y)
  <2> SUFFICES ASSUME NEW x \in Vertex, NEW y \in Vertex, L.hd[x] = L.hd[y]
               PROVE  Within(V, x, y) <=> Within(L, x, y)
    BY <1>5 DEF Within
  <2>1. CASE L.hd[x] = L.hd[r]
    <3>1. /\ V.hd[x] = V.hd[y] /\ V.pos[x] = -L.pos[x]
          /\ V.lo[y] = -L.hi[y] /\ V.hi[y] = -L.lo[y]
          /\ L.pos[x] \in Int /\ L.lo[y] \in Int /\ L.hi[y] \in Int
      BY <2>1, <1>1, <1>2
    <3>2. /\ V.lo[y] <= V.pos[x] <=> L.pos[x] <= L.hi[y]
          /\ V.pos[x] <= V.hi[y] <=> L.lo[y] <= L.pos[x]
      BY <3>1
    <3> QED
      BY <3>1, <3>2 DEF Within
  <2>2. CASE L.hd[x] # L.hd[r]
    BY <2>2, <1>3 DEF Within
  <2> QED
    BY <2>1, <2>2
<1>7. Spans(V)
  <2>1. \A x \in Vertex : V.lo[x] <= V.pos[x] /\ V.pos[x] <= V.hi[x]
    BY <1>1, <1>2, <1>3
  <2>2. ASSUME NEW x \in Vertex, NEW y \in Vertex, V.hd[x] = V.hd[y], V.pos[x] = V.pos[y]
        PROVE x = y
    <3>1. L.hd[x] = L.hd[y] /\ L.pos[x] = L.pos[y]
      BY <2>2, <1>1, <1>2, <1>3, <1>5
    <3> QED
      BY <3>1 DEF Shape, Spans
  <2>3. ASSUME NEW x \in Vertex, NEW y \in Vertex, x # y
        PROVE  Apart(V, x, y) \/ Inside(V, x, y) \/ Inside(V, y, x)
    <3>1. Apart(L, x, y) \/ Inside(L, x, y) \/ Inside(L, y, x)
      BY <2>3 DEF Shape, Spans
    <3>2. CASE L.hd[x] # L.hd[y]
      BY <3>2, <1>5 DEF Apart
    <3>3. CASE L.hd[x] = L.hd[y] /\ L.hd[x] = L.hd[r]
      <4>1. /\ V.hd[x] = V.hd[y] /\ V.lo[x] = -L.hi[x] /\ V.hi[x] = -L.lo[x]
            /\ V.lo[y] = -L.hi[y] /\ V.hi[y] = -L.lo[y]
            /\ L.lo[x] \in Int /\ L.hi[x] \in Int /\ L.lo[y] \in Int /\ L.hi[y] \in Int
        BY <3>3, <1>1, <1>2
      <4>2. Apart(L, x, y) => Apart(V, x, y)
        BY <4>1, <3>3 DEF Apart
      <4>3. Inside(L, x, y) => Inside(V, x, y)
        BY <4>1, <3>3, <1>6 DEF Inside
      <4>4. Inside(L, y, x) => Inside(V, y, x)
        BY <4>1, <3>3, <1>6 DEF Inside
      <4> QED
        BY <3>1, <4>2, <4>3, <4>4
    <3>4. CASE L.hd[x] = L.hd[y] /\ L.hd[x] # L.hd[r]
      BY <3>1, <3>4, <1>3, <1>6 DEF Apart, Inside
    <3> QED
      BY <3>2, <3>3, <3>4
  <2>4. ASSUME NEW x \in Vertex, NEW i \in Int, V.lo[x] <= i, i <= V.hi[x]
        PROVE  \E u \in Vertex : V.hd[u] = V.hd[x] /\ V.pos[u] = i
    <3>0. \A y \in Vertex, k \in Int : L.lo[y] <= k /\ k <= L.hi[y] =>
            \E u \in Vertex : L.hd[u] = L.hd[y] /\ L.pos[u] = k
      BY DEF Shape, Spans
    <3>1. CASE L.hd[x] = L.hd[r]
      <4>1. -i \in Int /\ L.lo[x] <= -i /\ -i <= L.hi[x]
        BY <3>1, <2>4, <1>1, <1>2
      <4>2. PICK u \in Vertex : L.hd[u] = L.hd[x] /\ L.pos[u] = -i
        BY <3>0, <4>1
      <4>3. V.pos[u] = i
        BY <4>2, <3>1, <1>2
      <4> QED
        BY <4>2, <4>3, <1>5
    <3>2. CASE L.hd[x] # L.hd[r]
      <4>1. PICK u \in Vertex : L.hd[u] = L.hd[x] /\ L.pos[u] = i
        BY <3>0, <3>2, <2>4, <1>3
      <4> QED
        BY <4>1, <3>2, <1>3
    <3> QED
      BY <3>1, <3>2
  <2>5. ASSUME NEW x \in Vertex PROVE V.hd[V.hd[x]] = V.hd[x]
    BY <1>1, <1>2, <1>3
  <2> QED
    BY <2>1, <2>2, <2>3, <2>4, <2>5 DEF Spans
<1>8. ASSUME NEW x \in Vertex, NEW c \in Some, NEW lo \in Int, NEW hi \in Int, NEW k, NEW l,
             c = n[x].left \/ c = n[x].right, ChildOf(n, L, x, c, lo, hi),
             L.hd[x] = L.hd[r] => k = -hi /\ l = -lo,
             L.hd[x] # L.hd[r] => k = lo /\ l = hi
      PROVE  ChildOf(m, V, x, c, k, l)
  <2>1. CASE c = NoVertex
    BY <2>1, <1>8 DEF ChildOf
  <2>2. CASE c # NoVertex
    <3>1. c \in Vertex /\ n[c].parent = x /\ L.hd[c] = L.hd[x]
      BY <2>2, <1>8, ChildIs
    <3>2. c # r
      BY <3>1, LctAssumption
    <3>3. L.lo[c] = lo /\ L.hi[c] = hi /\ L.flip[c] = (L.flip[x] # n[c].reversed)
      BY <2>2, <1>8 DEF ChildOf
    <3>4. n[c].reversed \in BOOLEAN
      BY <3>1, NodeFields DEF Shape
    <3>5. V.flip[c] = (V.flip[x] # m[c].reversed)
      BY <3>1, <3>2, <3>3, <3>4, <1>1, <1>2, <1>3
    <3> QED
      BY <2>2, <3>1, <3>2, <3>3, <3>5, <1>2, <1>3, <1>8 DEF ChildOf
  <2> QED
    BY <2>1, <2>2
<1>9. Children(m, V)
  <2> SUFFICES ASSUME NEW x \in Vertex
               PROVE  /\ ChildOf(m, V, x, Early(m, V, x), V.lo[x], V.pos[x] - 1)
                      /\ ChildOf(m, V, x, Late(m, V, x), V.pos[x] + 1, V.hi[x])
    BY DEF Children
  <2> DEFINE a == Early(n, L, x)
             b == Late(n, L, x)
  <2>0. /\ a = n[x].left \/ a = n[x].right
        /\ b = n[x].left \/ b = n[x].right
        /\ a \in Some /\ b \in Some
    BY NodeFields DEF Early, Late, Shape
  <2>1. /\ ChildOf(n, L, x, a, L.lo[x], L.pos[x] - 1)
        /\ ChildOf(n, L, x, b, L.pos[x] + 1, L.hi[x])
    BY DEF Shape, Children
  <2>2. CASE L.hd[x] = L.hd[r]
    <3>1. Early(m, V, x) = b /\ Late(m, V, x) = a
      BY <2>2, <1>1, <1>2 DEF Early, Late
    <3> HIDE DEF a, b
    <3>2. /\ L.lo[x] \in Int /\ L.pos[x] - 1 \in Int /\ L.pos[x] + 1 \in Int /\ L.hi[x] \in Int
          /\ V.lo[x] = -L.hi[x] /\ V.pos[x] - 1 = -(L.pos[x] + 1)
          /\ V.pos[x] + 1 = -(L.pos[x] - 1) /\ V.hi[x] = -L.lo[x]
      BY <2>2, <1>1, <1>2
    <3>3. ChildOf(m, V, x, b, V.lo[x], V.pos[x] - 1)
      BY <2>0, <2>1, <2>2, <3>2, <1>8
    <3>4. ChildOf(m, V, x, a, V.pos[x] + 1, V.hi[x])
      BY <2>0, <2>1, <2>2, <3>2, <1>8
    <3> QED
      BY <3>1, <3>3, <3>4
  <2>3. CASE L.hd[x] # L.hd[r]
    <3>1. Early(m, V, x) = a /\ Late(m, V, x) = b
      BY <2>3, <1>3 DEF Early, Late
    <3> HIDE DEF a, b
    <3>2. /\ L.lo[x] \in Int /\ L.pos[x] - 1 \in Int /\ L.pos[x] + 1 \in Int /\ L.hi[x] \in Int
          /\ V.lo[x] = L.lo[x] /\ V.pos[x] = L.pos[x] /\ V.hi[x] = L.hi[x]
      BY <2>3, <1>1, <1>3
    <3>3. ChildOf(m, V, x, a, V.lo[x], V.pos[x] - 1)
      BY <2>0, <2>1, <2>3, <3>2, <1>8
    <3>4. ChildOf(m, V, x, b, V.pos[x] + 1, V.hi[x])
      BY <2>0, <2>1, <2>3, <3>2, <1>8
    <3> QED
      BY <3>1, <3>3, <3>4
  <2> QED
    BY <2>2, <2>3
<1>10. Parents(m, V)
  <2> SUFFICES ASSUME NEW x \in Vertex
               PROVE  IF m[x].parent = NoVertex
                      THEN /\ V.flip[x] = m[x].reversed
                           /\ \A u \in Vertex : V.hd[u] = V.hd[x] => Within(V, u, x)
                           /\ V.pos[V.hd[x]] = V.lo[x]
                      ELSE x = m[m[x].parent].left \/ x = m[m[x].parent].right
    BY DEF Parents
  <2>1. CASE n[x].parent = NoVertex
    <3>1. /\ L.flip[x] = n[x].reversed
          /\ \A u \in Vertex : L.hd[u] = L.hd[x] => Within(L, u, x)
          /\ L.pos[L.hd[x]] = L.lo[x]
      BY <2>1 DEF Shape, Parents
    <3>2. \A u \in Vertex : V.hd[u] = V.hd[x] => Within(V, u, x)
      BY <3>1, <1>5, <1>6
    <3>3. CASE x = r
      <4>1. V.pos[V.hd[r]] = V.lo[r]
        BY <1>2
      <4> QED
        BY <3>1, <3>2, <3>3, <4>1, <2>1, <1>2
    <3>4. CASE x # r
      <4>1. L.hd[x] # L.hd[r]
        BY <3>4, <2>1, OneRoot
      <4>2. V.pos[V.hd[x]] = V.lo[x]
        BY <4>1, <3>1, <1>1, <1>3
      <4> QED
        BY <3>1, <3>2, <3>4, <4>1, <4>2, <2>1, <1>3
    <3> QED
      BY <3>3, <3>4
  <2>2. CASE n[x].parent # NoVertex
    <3>1. n[x].parent \in Vertex /\ (x = n[n[x].parent].left \/ x = n[n[x].parent].right)
      BY <2>2, ParentIs
    <3> QED
      BY <3>1, <2>2
  <2> QED
    BY <2>1, <2>2
<1> QED
  BY <1>7, <1>9, <1>10 DEF Shape, Reversing

\* A path: nodes and the root of a splay tree.
Paths == [nodes : Nodes, root : Vertex]

\* The path of r leads from its last node t to its first.
Flipping(n, L, m, K, r, t) ==
  /\ Sound(m, K) /\ m[r].parent = NoVertex
  /\ \A x \in Vertex : L.hd[x] = L.hd[r] => K.hd[x] = t /\ K.pos[x] = -L.pos[x]
  /\ \A x \in Vertex : L.hd[x] # L.hd[r] => K.hd[x] = L.hd[x] /\ K.pos[x] = L.pos[x]
  /\ \A x \in Vertex : /\ m[x].edges = n[x].edges /\ m[x].dparent = n[x].dparent
                       /\ L.hd[x] # L.hd[r] => m[x] = n[x]
  /\ \A S \in SUBSET Vertex : Caches(n, L, S) => Caches(m, K, S)

\* reverse turns a path round.
LEMMA ReverseIs ==
  ASSUME NEW path \in Paths, NEW n, n = path.nodes, NEW r, r = path.root,
         NEW L, Sound(n, L), n[r].parent = NoVertex, NEW t, t = n[r].tail
  PROVE  /\ ReversePath(path).root = r /\ ReversePath(path) \in Paths
         /\ \E K : Flipping(n, L, ReversePath(path).nodes, K, r, t)
<1> DEFINE m == [n EXCEPT ![r].reversed = ~@]
           q == RecomputeEnds(m, r)
           s == [n[r] EXCEPT !.reversed = ~n[r].reversed]
<1>1. Shape(n, L) /\ Slots(n, L) /\ Rooted(n, L)
  BY DEF Sound
<1>2. r \in Vertex /\ n \in Nodes
  BY DEF Paths
<1>3. n[r] \in Node
  BY <1>2, NodeFields
<1>5. m = [n EXCEPT ![r] = s]
  OBVIOUS
<1>6. /\ s \in Node /\ s.left = n[r].left /\ s.right = n[r].right /\ s.parent = n[r].parent
      /\ s.reversed = ~n[r].reversed /\ s.dparent = n[r].dparent /\ s.preferred = n[r].preferred
      /\ s.edges = n[r].edges /\ s.max = n[r].max
  BY <1>3 DEF Node
<1>29. ReversePath(path) = [path EXCEPT !.nodes = q]
  <2>1. Turn(path.nodes, path.root) = m
    BY <1>2, LctAssumption DEF Turn
  <2> QED
    BY <2>1 DEF ReversePath
<1> HIDE DEF s, m
<1>7. m \in Nodes /\ m[r] = s /\ \A x \in Vertex \ {r} : m[x] = n[x]
  BY <1>2, <1>5, <1>6 DEF Nodes
<1>8. t \in Vertex /\ L.hd[t] = L.hd[r] /\ L.pos[t] = L.hi[r]
  BY <1>1, <1>2 DEF Rooted, Ends
<1>9. PICK V : Reversing(L, r, t, V)
  BY <1>1, <1>2, <1>8, ReversingExists DEF Shape
<1>10. \A x \in Vertex : /\ m[x].left = n[x].left /\ m[x].right = n[x].right
                         /\ m[x].parent = n[x].parent
                         /\ x # r => m[x].reversed = n[x].reversed
  BY <1>6, <1>7
<1>11. m[r].reversed = ~n[r].reversed
  BY <1>6, <1>7
<1>12. Shape(m, V)
  BY <1>1, <1>2, <1>7, <1>8, <1>9, <1>10, <1>11, ReversedShape
<1>13. Kept(n, m) /\ \A x \in Vertex : m[x].max = n[x].max
  BY <1>6, <1>7 DEF Kept
<1>14. m[r].parent = NoVertex
  BY <1>2, <1>10
<1>15. /\ SamePointers(m, q) /\ Kept(m, q) /\ Shape(q, V)
       /\ \A x \in Vertex \ {r} : q[x] = m[x]
       /\ q[r].max = m[r].max /\ Ends(q, V, r)
  BY <1>2, <1>12, <1>14, EndsAgain
<1> HIDE DEF q
<1>16. \A x \in Vertex : /\ L.pos[x] \in Int /\ L.lo[x] \in Int /\ L.hi[x] \in Int
  BY <1>1, LayoutFields DEF Shape
<1>17. /\ \A x \in Vertex : L.hd[x] = L.hd[r] =>
            V.hd[x] = t /\ V.pos[x] = -L.pos[x] /\ V.lo[x] = -L.hi[x] /\ V.hi[x] = -L.lo[x]
       /\ \A x \in Vertex : L.hd[x] # L.hd[r] =>
            V.hd[x] = L.hd[x] /\ V.pos[x] = L.pos[x] /\ V.lo[x] = L.lo[x] /\ V.hi[x] = L.hi[x]
  BY <1>9 DEF Reversing
<1>18. \A x \in Vertex : L.hd[x] # L.hd[r] => V.hd[x] # t
  <2> SUFFICES ASSUME NEW x \in Vertex, L.hd[x] = t PROVE L.hd[x] = L.hd[r]
    BY <1>17
  <2>1. L.hd[t] = t
    BY <1>1 DEF Shape, Spans
  <2> QED
    BY <2>1, <1>8
<1>19. \A x, y \in Vertex : V.hd[x] = V.hd[y] <=> L.hd[x] = L.hd[y]
  BY <1>17, <1>18
<1>20. ASSUME NEW x \in Vertex PROVE Beside(V, x) = Beside(L, x)
  <2>1. ASSUME NEW y \in Vertex
        PROVE  /\ V.hd[y] = V.hd[x]
               /\ V.pos[y] = V.pos[x] + 1 \/ V.pos[y] = V.pos[x] - 1
               <=> /\ L.hd[y] = L.hd[x]
                   /\ L.pos[y] = L.pos[x] + 1 \/ L.pos[y] = L.pos[x] - 1
    <3>1. CASE L.hd[y] # L.hd[x]
      BY <3>1, <1>19
    <3>2. CASE L.hd[y] = L.hd[x] /\ L.hd[x] = L.hd[r]
      BY <3>2, <1>16, <1>17
    <3>3. CASE L.hd[y] = L.hd[x] /\ L.hd[x] # L.hd[r]
      BY <3>3, <1>17
    <3> QED
      BY <3>1, <3>2, <3>3
  <2>2. {y \in Vertex : /\ V.hd[y] = V.hd[x]
                        /\ V.pos[y] = V.pos[x] + 1 \/ V.pos[y] = V.pos[x] - 1}
        = {y \in Vertex : /\ L.hd[y] = L.hd[x]
                          /\ L.pos[y] = L.pos[x] + 1 \/ L.pos[y] = L.pos[x] - 1}
    BY <2>1
  <2> QED
    BY <2>2 DEF Beside
<1>21. Slots(q, V)
  <2>1. \A x \in Vertex : q[x].preferred = n[x].preferred
    BY <1>13, <1>15 DEF Kept
  <2> QED
    BY <2>1, <1>1, <1>20 DEF Slots, Holds, Taken
<1>22. ASSUME NEW x \in Vertex, q[x].parent = NoVertex PROVE Ends(q, V, x)
  <2>1. CASE x = r
    BY <2>1, <1>15
  <2>2. CASE x # r
    <3>1. q[x] = n[x]
      BY <2>2, <1>7, <1>15
    <3>2. Ends(n, L, x)
      BY <3>1, <1>1, <1>22 DEF Rooted
    <3>3. L.hd[x] # L.hd[r]
      BY <3>1, <2>2, <1>1, <1>2, <1>22, OneRoot
    <3>4. V.hi[x] = L.hi[x]
      BY <3>3, <1>17
    <3>5. \A u \in Vertex : L.hd[u] = L.hd[x] => V.hd[u] = L.hd[u] /\ V.pos[u] = L.pos[u]
      BY <3>3, <1>17
    <3> QED
      BY <3>1, <3>2, <3>4, <3>5, EndsStay
  <2> QED
    BY <2>1, <2>2
<1>23. \A x, y \in Vertex : Within(V, x, y) <=> Within(L, x, y)
  <2> SUFFICES ASSUME NEW x \in Vertex, NEW y \in Vertex, L.hd[x] = L.hd[y]
               PROVE  Within(V, x, y) <=> Within(L, x, y)
    BY <1>19 DEF Within
  <2>1. CASE L.hd[x] = L.hd[r]
    <3>1. /\ V.hd[x] = V.hd[y] /\ V.pos[x] = -L.pos[x]
          /\ V.lo[y] = -L.hi[y] /\ V.hi[y] = -L.lo[y]
          /\ L.pos[x] \in Int /\ L.lo[y] \in Int /\ L.hi[y] \in Int
      BY <2>1, <1>16, <1>17
    <3>2. /\ V.lo[y] <= V.pos[x] <=> L.pos[x] <= L.hi[y]
          /\ V.pos[x] <= V.hi[y] <=> L.lo[y] <= L.pos[x]
      BY <3>1
    <3> QED
      BY <3>1, <3>2 DEF Within
  <2>2. CASE L.hd[x] # L.hd[r]
    BY <2>2, <1>17 DEF Within
  <2> QED
    BY <2>1, <2>2
<1>24. ASSUME NEW S \in SUBSET Vertex, Caches(n, L, S) PROVE Caches(q, V, S)
  <2>1. Caches(m, V, S)
    <3> SUFFICES ASSUME NEW x \in Vertex, \A z \in S : ~Within(V, z, x)
                 PROVE  Heaviest(m, V, x)
      BY DEF Caches
    <3>1. \A z \in S : ~Within(L, z, x)
      BY <1>23
    <3>2. Heaviest(n, L, x)
      BY <3>1, <1>24 DEF Caches
    <3> QED
      BY <3>2, <1>13, <1>23, HeaviestStays
  <2>2. \A x \in Vertex : q[x].max = m[x].max
    BY <1>15
  <2> QED
    BY <2>1, <2>2, <1>15, CachesStay
<1>25. \A x \in Vertex : /\ q[x].edges = n[x].edges /\ q[x].dparent = n[x].dparent
                         /\ L.hd[x] # L.hd[r] => q[x] = n[x]
  <2>1. \A x \in Vertex : q[x].edges = n[x].edges /\ q[x].dparent = n[x].dparent
    BY <1>13, <1>15 DEF Kept
  <2>2. ASSUME NEW x \in Vertex, L.hd[x] # L.hd[r] PROVE q[x] = n[x]
    <3>1. x # r
      BY <2>2
    <3> QED
      BY <3>1, <1>7, <1>15
  <2> QED
    BY <2>1, <2>2
<1>26. Sound(q, V)
  BY <1>15, <1>21, <1>22 DEF Sound, Rooted
<1>27. q[r].parent = NoVertex
  BY <1>2, <1>14, <1>15 DEF SamePointers
<1>28. Flipping(n, L, q, V, r, t)
  BY <1>17, <1>24, <1>25, <1>26, <1>27 DEF Flipping
<1>30. q \in Nodes
  BY <1>15 DEF SamePointers
<1>31. /\ ReversePath(path) \in Paths
       /\ ReversePath(path).root = r /\ ReversePath(path).nodes = q
  BY <1>2, <1>29, <1>30 DEF Paths
<1> QED
  BY <1>28, <1>31

-----------------------------------------------------------------------------
(* The forest over the paths.                                              *)

\* up leads from a vertex to the one above it in its tree: to the one before
\* it on its path, from the head of the path to the one dparent names.
Carries(n, L, up) ==
  /\ up \in [Vertex -> Some]
  /\ \A x \in Vertex : x = L.hd[x] => up[x] = n[x].dparent
  /\ \A x \in Vertex : x # L.hd[x] =>
       /\ up[x] \in Vertex /\ L.hd[up[x]] = L.hd[x] /\ L.pos[up[x]] = L.pos[x] - 1
       /\ n[x].dparent = NoVertex

\* B gives the root of the tree of each vertex; R grows on the way down.
Ranked(up, B, R, C) ==
  /\ B \in [Vertex -> Vertex] /\ C \in Nat /\ R \in [Vertex -> 0 .. C]
  /\ \A x \in Vertex : up[x] # NoVertex => B[up[x]] = B[x] /\ R[up[x]] < R[x]
  /\ \A x \in Vertex : up[x] = NoVertex => B[x] = x

\* v is the last vertex of its path.
LastOf(L, v) == \A u \in Vertex : L.hd[u] = L.hd[v] => L.pos[u] <= L.pos[v]

\* The head of a path is its first vertex.
LEMMA HeadFirst ==
  ASSUME NEW n, NEW L, Shape(n, L), NEW x \in Vertex
  PROVE  /\ L.hd[x] \in Vertex /\ L.hd[L.hd[x]] = L.hd[x]
         /\ L.pos[L.hd[x]] \in Int /\ L.pos[x] \in Int /\ L.pos[L.hd[x]] <= L.pos[x]
<1>1. PICK r \in Vertex : n[r].parent = NoVertex /\ L.hd[r] = L.hd[x]
  BY RootExists
<1> QED
  BY <1>1, RootSpan

\* A path is in one tree, and leads down.
LEMMA PathDown ==
  ASSUME NEW n, NEW L, Shape(n, L), NEW up, Carries(n, L, up),
         NEW B, NEW R, NEW C, Ranked(up, B, R, C),
         NEW x \in Vertex, NEW y \in Vertex, L.hd[x] = L.hd[y]
  PROVE  B[x] = B[y] /\ (L.pos[x] < L.pos[y] => R[x] < R[y])
<1> DEFINE P(k) == \A a, b \in Vertex : L.hd[a] = L.hd[b] /\ L.pos[b] = L.pos[a] + k =>
                     B[a] = B[b] /\ R[a] + k <= R[b]
           T == {k \in Nat : P(k)}
<1>1. \A a \in Vertex : R[a] \in Int /\ L.pos[a] \in Int
  <2>1. C \in Nat /\ R \in [Vertex -> 0 .. C]
    BY DEF Ranked
  <2> QED
    BY <2>1, LayoutFields DEF Shape
<1>2. P(0)
  <2> SUFFICES ASSUME NEW a \in Vertex, NEW b \in Vertex, L.hd[a] = L.hd[b], L.pos[b] = L.pos[a] + 0
               PROVE  B[a] = B[b] /\ R[a] + 0 <= R[b]
    OBVIOUS
  <2>1. a = b
    BY <1>1 DEF Shape, Spans
  <2> QED
    BY <2>1, <1>1
<1>3. ASSUME NEW k \in Nat, P(k) PROVE P(k + 1)
  <2> SUFFICES ASSUME NEW a \in Vertex, NEW b \in Vertex, L.hd[a] = L.hd[b],
                      L.pos[b] = L.pos[a] + (k + 1)
               PROVE  B[a] = B[b] /\ R[a] + (k + 1) <= R[b]
    OBVIOUS
  <2>1. b # L.hd[b]
    BY <1>1, HeadFirst
  <2>2. up[b] \in Vertex /\ L.hd[up[b]] = L.hd[b] /\ L.pos[up[b]] = L.pos[b] - 1
    BY <2>1 DEF Carries
  <2>3. L.pos[up[b]] = L.pos[a] + k
    BY <2>2, <1>1
  <2>4. B[a] = B[up[b]] /\ R[a] + k <= R[up[b]]
    BY <2>2, <2>3, <1>3
  <2>5. B[up[b]] = B[b] /\ R[up[b]] < R[b]
    BY <2>2, LctAssumption DEF Ranked
  <2> QED
    BY <2>2, <2>4, <2>5, <1>1
<1>4. \A k \in Nat : k \in T
  <2>1. 0 \in T
    BY <1>2
  <2>2. \A k \in Nat : k \in T => k + 1 \in T
    BY <1>3
  <2> HIDE DEF T
  <2> QED
    BY <2>1, <2>2, Induction
<1>5. CASE L.pos[x] <= L.pos[y]
  <2>1. L.pos[y] - L.pos[x] \in Nat /\ L.pos[y] = L.pos[x] + (L.pos[y] - L.pos[x])
    BY <1>1, <1>5
  <2>2. P(L.pos[y] - L.pos[x])
    BY <2>1, <1>4
  <2> HIDE DEF P
  <2>3. B[x] = B[y] /\ R[x] + (L.pos[y] - L.pos[x]) <= R[y]
    BY <2>1, <2>2 DEF P
  <2> QED
    BY <2>3, <1>1, <1>5
<1>6. CASE L.pos[y] < L.pos[x]
  <2>1. L.pos[x] - L.pos[y] \in Nat /\ L.pos[x] = L.pos[y] + (L.pos[x] - L.pos[y])
    BY <1>1, <1>6
  <2>2. P(L.pos[x] - L.pos[y])
    BY <2>1, <1>4
  <2> HIDE DEF P
  <2>3. B[y] = B[x]
    BY <2>1, <2>2 DEF P
  <2> QED
    BY <2>3, <1>1, <1>6
<1> QED
  BY <1>1, <1>5, <1>6

\* Splitting a path changes no tree.
LEMMA SplitCarries ==
  ASSUME NEW n, NEW L, Sound(n, L), NEW v \in Vertex, NEW m, NEW K, Splitting(n, L, m, K, v),
         NEW up, Carries(n, L, up)
  PROVE  /\ Carries(m, K, up) /\ LastOf(K, v)
         /\ K.hd[v] = L.hd[v] /\ K.pos[v] = L.pos[v]
<1>1. Shape(n, L) /\ Shape(m, K)
  BY DEF Splitting, Sound
<1>2. \A x \in Vertex : L.pos[x] \in Int /\ K.pos[x] \in Int
  BY <1>1, LayoutFields DEF Shape
<1>3. /\ K.pos = L.pos
      /\ \A x \in Vertex : L.hd[x] = L.hd[v] /\ L.pos[x] > L.pos[v] => K.hd[x] \in NextOf(L, v)
      /\ \A x \in Vertex : ~(L.hd[x] = L.hd[v] /\ L.pos[x] > L.pos[v]) => K.hd[x] = L.hd[x]
      /\ \A x \in Vertex : m[x].dparent = IF x \in NextOf(L, v) THEN v ELSE n[x].dparent
  BY DEF Splitting
<1>4. K.hd[v] = L.hd[v]
  BY <1>2, <1>3
<1>5. \A x \in NextOf(L, v) : /\ x \in Vertex /\ L.hd[x] = L.hd[v] /\ L.pos[x] = L.pos[v] + 1
                              /\ K.hd[x] = x /\ x # L.hd[x] /\ up[x] = v
  <2> SUFFICES ASSUME NEW x \in NextOf(L, v)
               PROVE  /\ x \in Vertex /\ L.hd[x] = L.hd[v] /\ L.pos[x] = L.pos[v] + 1
                      /\ K.hd[x] = x /\ x # L.hd[x] /\ up[x] = v
    OBVIOUS
  <2>1. x \in Vertex /\ L.hd[x] = L.hd[v] /\ L.pos[x] = L.pos[v] + 1
    BY DEF NextOf
  <2>2. K.hd[x] \in NextOf(L, v)
    BY <2>1, <1>2, <1>3
  <2>3. K.hd[x] = x
    BY <2>1, <2>2, <1>1 DEF NextOf, Shape, Spans
  <2>4. x # L.hd[x]
    BY <2>1, <1>1, <1>2, HeadFirst
  <2>5. up[x] \in Vertex /\ L.hd[up[x]] = L.hd[v] /\ L.pos[up[x]] = L.pos[v]
    BY <2>1, <2>4, <1>2 DEF Carries
  <2>6. up[x] = v
    BY <2>5, <1>1 DEF Shape, Spans
  <2> QED
    BY <2>1, <2>3, <2>4, <2>6
<1>6. LastOf(K, v)
  <2> SUFFICES ASSUME NEW u \in Vertex, K.hd[u] = K.hd[v], L.pos[u] > L.pos[v] PROVE FALSE
    BY <1>2, <1>3 DEF LastOf
  <2>1. K.pos[K.hd[v]] <= K.pos[v]
    BY <1>1, HeadFirst
  <2>2. L.hd[u] = L.hd[v]
    BY <1>3, <1>4
  <2>3. K.hd[u] \in NextOf(L, v)
    BY <2>2, <1>3
  <2>4. L.pos[K.hd[v]] = L.pos[v] + 1
    BY <2>3, <1>5
  <2> QED
    BY <2>1, <2>4, <1>2, <1>3
<1>7. ASSUME NEW x \in Vertex, x = K.hd[x] PROVE up[x] = m[x].dparent
  <2>1. CASE x \in NextOf(L, v)
    BY <2>1, <1>3, <1>5
  <2>2. CASE x \notin NextOf(L, v)
    <3>1. ~(L.hd[x] = L.hd[v] /\ L.pos[x] > L.pos[v])
      BY <2>2, <1>3, <1>7
    <3>2. x = L.hd[x]
      BY <3>1, <1>3, <1>7
    <3> QED
      BY <2>2, <3>2, <1>3 DEF Carries
  <2> QED
    BY <2>1, <2>2
<1>8. ASSUME NEW x \in Vertex, x # K.hd[x]
      PROVE  /\ up[x] \in Vertex /\ K.hd[up[x]] = K.hd[x] /\ K.pos[up[x]] = K.pos[x] - 1
             /\ m[x].dparent = NoVertex
  <2>1. x \notin NextOf(L, v)
    BY <1>5, <1>8
  <2>2. x # L.hd[x]
    <3>1. CASE L.hd[x] = L.hd[v] /\ L.pos[x] > L.pos[v]
      BY <3>1, <1>1, <1>2, HeadFirst
    <3>2. CASE ~(L.hd[x] = L.hd[v] /\ L.pos[x] > L.pos[v])
      BY <3>2, <1>3, <1>8
    <3> QED
      BY <3>1, <3>2
  <2>3. /\ up[x] \in Vertex /\ L.hd[up[x]] = L.hd[x] /\ L.pos[up[x]] = L.pos[x] - 1
        /\ n[x].dparent = NoVertex
    BY <2>2 DEF Carries
  <2>4. K.hd[up[x]] = K.hd[x]
    <3>1. CASE L.hd[x] = L.hd[v] /\ L.pos[x] > L.pos[v]
      <4>1. L.pos[x] # L.pos[v] + 1
        BY <2>1, <3>1 DEF NextOf
      <4>2. L.pos[up[x]] > L.pos[v]
        BY <4>1, <2>3, <3>1, <1>2
      <4>3. K.hd[x] \in NextOf(L, v) /\ K.hd[up[x]] \in NextOf(L, v)
        BY <4>2, <2>3, <3>1, <1>3
      <4> QED
        BY <4>3, <1>1 DEF NextOf, Shape, Spans
    <3>2. CASE ~(L.hd[x] = L.hd[v] /\ L.pos[x] > L.pos[v])
      <4>1. ~(L.hd[up[x]] = L.hd[v] /\ L.pos[up[x]] > L.pos[v])
        BY <2>3, <3>2, <1>2
      <4> QED
        BY <4>1, <2>3, <3>2, <1>3
    <3> QED
      BY <3>1, <3>2
  <2> QED
    BY <2>1, <2>3, <2>4, <1>3
<1>9. Carries(m, K, up)
  BY <1>7, <1>8 DEF Carries
<1> QED
  BY <1>3, <1>4, <1>6, <1>9

\* Joining two paths puts the head of the second below the end of the first.
LEMMA JoinCarries ==
  ASSUME NEW n, NEW L, Sound(n, L), NEW v \in Vertex, NEW t \in Vertex, L.hd[t] = L.hd[v],
         NEW h \in Vertex, L.hd[h] = h, h # L.hd[v],
         NEW m, NEW K, Attaching(n, L, m, K, v, t, h),
         NEW up, Carries(n, L, up), up[h] = NoVertex,
         NEW g \in [Vertex -> Some], g[h] = t, \A x \in Vertex \ {h} : g[x] = up[x]
  PROVE  Carries(m, K, g)
<1>1. Shape(n, L) /\ Shape(m, K)
  BY DEF Attaching, Sound
<1>2. \A x \in Vertex : L.pos[x] \in Int /\ K.pos[x] \in Int
  BY <1>1, LayoutFields DEF Shape
<1>3. /\ \A x \in Vertex : L.hd[x] # h => K.hd[x] = L.hd[x] /\ K.pos[x] = L.pos[x]
      /\ \A x \in Vertex : L.hd[x] = h =>
           K.hd[x] = L.hd[v] /\ K.pos[x] = L.pos[t] + 1 + (L.pos[x] - L.pos[h])
      /\ \A x \in Vertex : m[x].dparent = n[x].dparent
  BY DEF Attaching
<1>4. g[h] = t /\ \A x \in Vertex \ {h} : g[x] = up[x]
  OBVIOUS
<1>5. ASSUME NEW x \in Vertex, x = K.hd[x] PROVE g[x] = m[x].dparent
  <2>1. x = L.hd[x]
    <3>1. CASE L.hd[x] = h
      <4>1. x = L.hd[v]
        BY <3>1, <1>3, <1>5
      <4>2. L.hd[x] = L.hd[v]
        BY <4>1, <1>1, HeadFirst
      <4> QED
        BY <3>1, <4>2
    <3>2. CASE L.hd[x] # h
      BY <3>2, <1>3, <1>5
    <3> QED
      BY <3>1, <3>2
  <2>2. x # h
    BY <1>3, <1>5
  <2> QED
    BY <2>1, <2>2, <1>3, <1>4 DEF Carries
<1>6. ASSUME NEW x \in Vertex, x # K.hd[x]
      PROVE  /\ g[x] \in Vertex /\ K.hd[g[x]] = K.hd[x] /\ K.pos[g[x]] = K.pos[x] - 1
             /\ m[x].dparent = NoVertex
  <2>1. CASE x = h
    <3>1. n[x].dparent = NoVertex
      BY <2>1 DEF Carries
    <3> QED
      BY <2>1, <3>1, <1>2, <1>3, <1>4
  <2>2. CASE x # h
    <3>1. x # L.hd[x]
      BY <2>2, <1>3, <1>6
    <3>2. /\ up[x] \in Vertex /\ L.hd[up[x]] = L.hd[x] /\ L.pos[up[x]] = L.pos[x] - 1
          /\ n[x].dparent = NoVertex /\ g[x] = up[x]
      BY <2>2, <3>1, <1>4 DEF Carries
    <3> DEFINE y == up[x]
    <3> HIDE DEF y
    <3>3. y \in Vertex /\ L.hd[y] = L.hd[x] /\ L.pos[y] = L.pos[x] - 1 /\ g[x] = y
      BY <3>2 DEF y
    <3>4. CASE L.hd[x] = h
      <4>1. K.hd[x] = L.hd[v] /\ K.hd[y] = L.hd[v]
        BY <3>3, <3>4, <1>3
      <4>2. /\ K.pos[x] = L.pos[t] + 1 + (L.pos[x] - L.pos[h])
            /\ K.pos[y] = L.pos[t] + 1 + (L.pos[y] - L.pos[h])
        BY <3>3, <3>4, <1>3
      <4>3. K.pos[y] = K.pos[x] - 1
        BY <4>2, <3>3, <1>2
      <4> QED
        BY <4>1, <4>3, <3>2, <3>3, <1>3
    <3>5. CASE L.hd[x] # h
      BY <3>2, <3>3, <3>5, <1>2, <1>3
    <3> QED
      BY <3>4, <3>5
  <2> QED
    BY <2>1, <2>2
<1> QED
  BY <1>4, <1>5, <1>6 DEF Carries

\* The way up when the path of r, from its head to its end t, is turned round.
Turned(L, up, r, t, g) ==
  /\ g \in [Vertex -> Some] /\ g[t] = NoVertex
  /\ \A x \in Vertex : L.hd[x] = L.hd[r] /\ x # t =>
       g[x] \in Vertex /\ L.hd[g[x]] = L.hd[r] /\ L.pos[g[x]] = L.pos[x] + 1
  /\ \A x \in Vertex : L.hd[x] # L.hd[r] => g[x] = up[x]

\* There is such a way up.
LEMMA TurnedExists ==
  ASSUME NEW n, NEW L, Shape(n, L), NEW up \in [Vertex -> Some],
         NEW r \in Vertex, n[r].parent = NoVertex,
         NEW t \in Vertex, L.hd[t] = L.hd[r], LastOf(L, t)
  PROVE  \E g : Turned(L, up, r, t, g)
<1> DEFINE next(x) == At(L, L.hd[r], L.pos[x] + 1)
           g == [x \in Vertex |-> IF x = t THEN NoVertex
                                  ELSE IF L.hd[x] = L.hd[r] THEN next(x) ELSE up[x]]
<1>1. ASSUME NEW x \in Vertex, L.hd[x] = L.hd[r], x # t
      PROVE  next(x) \in Vertex /\ L.hd[next(x)] = L.hd[r] /\ L.pos[next(x)] = L.pos[x] + 1
  <2>1. /\ L.pos[x] \in Int /\ L.pos[t] \in Int /\ L.lo[r] \in Int /\ L.hi[r] \in Int
        /\ L.lo[r] <= L.pos[x] /\ L.pos[t] <= L.hi[r]
    BY <1>1, RootSpan
  <2>2. L.pos[x] <= L.pos[t] /\ L.pos[x] # L.pos[t]
    BY <1>1 DEF LastOf, Shape, Spans
  <2>3. L.pos[x] + 1 \in Int /\ L.lo[r] <= L.pos[x] + 1 /\ L.pos[x] + 1 <= L.hi[r]
    BY <2>1, <2>2
  <2> QED
    BY <2>3, AtIs
<1> HIDE DEF next
<1>2. g \in [Vertex -> Some]
  BY <1>1 DEF Some
<1>3. /\ g[t] = NoVertex
      /\ \A x \in Vertex : L.hd[x] = L.hd[r] /\ x # t => g[x] = next(x)
      /\ \A x \in Vertex : L.hd[x] # L.hd[r] => g[x] = up[x]
  OBVIOUS
<1> HIDE DEF g
<1>4. Turned(L, up, r, t, g)
  BY <1>1, <1>2, <1>3 DEF Turned
<1> QED
  BY <1>4

\* Turning a path round turns the ways up round.
LEMMA ReverseCarries ==
  ASSUME NEW n, NEW L, Sound(n, L), NEW r \in Vertex, n[r].parent = NoVertex,
         NEW t \in Vertex, L.hd[t] = L.hd[r], LastOf(L, t), n[L.hd[r]].dparent = NoVertex,
         NEW m, NEW K, Flipping(n, L, m, K, r, t),
         NEW up, Carries(n, L, up), NEW g, Turned(L, up, r, t, g)
  PROVE  Carries(m, K, g)
<1>1. Shape(n, L) /\ Shape(m, K)
  BY DEF Flipping, Sound
<1>2. \A x \in Vertex : L.pos[x] \in Int /\ K.pos[x] \in Int
  BY <1>1, LayoutFields DEF Shape
<1>3. /\ \A x \in Vertex : L.hd[x] = L.hd[r] => K.hd[x] = t /\ K.pos[x] = -L.pos[x]
      /\ \A x \in Vertex : L.hd[x] # L.hd[r] => K.hd[x] = L.hd[x] /\ K.pos[x] = L.pos[x]
      /\ \A x \in Vertex : m[x].dparent = n[x].dparent
  BY DEF Flipping
<1>4. \A x \in Vertex : L.hd[x] = L.hd[r] => n[x].dparent = NoVertex
  BY DEF Carries
<1>5. ASSUME NEW x \in Vertex, x = K.hd[x] PROVE g[x] = m[x].dparent
  <2>1. CASE L.hd[x] = L.hd[r]
    <3>1. x = t
      BY <2>1, <1>3, <1>5
    <3> QED
      BY <2>1, <3>1, <1>3, <1>4 DEF Turned
  <2>2. CASE L.hd[x] # L.hd[r]
    <3>1. x = L.hd[x]
      BY <2>2, <1>3, <1>5
    <3> QED
      BY <2>2, <3>1, <1>3 DEF Turned, Carries
  <2> QED
    BY <2>1, <2>2
<1>6. ASSUME NEW x \in Vertex, x # K.hd[x]
      PROVE  /\ g[x] \in Vertex /\ K.hd[g[x]] = K.hd[x] /\ K.pos[g[x]] = K.pos[x] - 1
             /\ m[x].dparent = NoVertex
  <2>1. CASE L.hd[x] = L.hd[r]
    <3>1. x # t
      BY <2>1, <1>3, <1>6
    <3>2. g[x] \in Vertex /\ L.hd[g[x]] = L.hd[r] /\ L.pos[g[x]] = L.pos[x] + 1
      BY <2>1, <3>1 DEF Turned
    <3> QED
      BY <2>1, <3>2, <1>2, <1>3, <1>4
  <2>2. CASE L.hd[x] # L.hd[r]
    <3>1. x # L.hd[x] /\ g[x] = up[x]
      BY <2>2, <1>3, <1>6 DEF Turned
    <3>2. /\ up[x] \in Vertex /\ L.hd[up[x]] = L.hd[x] /\ L.pos[up[x]] = L.pos[x] - 1
          /\ n[x].dparent = NoVertex
      BY <3>1 DEF Carries
    <3> QED
      BY <2>2, <3>1, <3>2, <1>3
  <2> QED
    BY <2>1, <2>2
<1> QED
  BY <1>5, <1>6 DEF Carries, Turned

-----------------------------------------------------------------------------
(* Expose.                                                                 *)

\* The pointer from a head to the path above it is set.
SetDparent(n, h, c) == [n EXCEPT ![h].dparent = c]

\* What stays when the dparent of one node is set.
LEMMA SetDparentIs ==
  ASSUME NEW n, NEW L, Sound(n, L), NEW h \in Vertex, NEW c \in Some,
         NEW m, m = SetDparent(n, h, c)
  PROVE  /\ Sound(m, L) /\ m[h].dparent = c
         /\ \A x \in Vertex : /\ m[x].parent = n[x].parent /\ m[x].edges = n[x].edges
                              /\ m[x].head = n[x].head /\ m[x].tail = n[x].tail
                              /\ m[x].preferred = n[x].preferred /\ m[x].max = n[x].max
                              /\ x # h => m[x] = n[x]
         /\ \A S \in SUBSET Vertex : Caches(n, L, S) => Caches(m, L, S)
<1> DEFINE r == [n[h] EXCEPT !.dparent = c]
<1>1. n \in Nodes /\ Shape(n, L)
  BY DEF Sound, Shape
<1>2. n[h] \in Node
  BY <1>1, NodeFields
<1>3. m = [n EXCEPT ![h] = r]
  BY DEF SetDparent
<1>4. /\ r \in Node /\ r.left = n[h].left /\ r.right = n[h].right /\ r.parent = n[h].parent
      /\ r.reversed = n[h].reversed /\ r.dparent = c /\ r.preferred = n[h].preferred
      /\ r.edges = n[h].edges /\ r.max = n[h].max /\ r.head = n[h].head /\ r.tail = n[h].tail
  BY <1>2 DEF Node, Some
<1> HIDE DEF r
<1>5. m \in Nodes /\ m[h] = r /\ \A x \in Vertex \ {h} : m[x] = n[x]
  BY <1>1, <1>3, <1>4 DEF Nodes
<1>6. \A x \in Vertex : /\ m[x].parent = n[x].parent /\ m[x].edges = n[x].edges
                        /\ m[x].head = n[x].head /\ m[x].tail = n[x].tail
                        /\ m[x].preferred = n[x].preferred /\ m[x].max = n[x].max
                        /\ x # h => m[x] = n[x]
  BY <1>4, <1>5
<1>7. SamePointers(n, m)
  BY <1>4, <1>5 DEF SamePointers
<1>8. Shape(m, L)
  BY <1>1, <1>7, ShapeStays
<1>9. Slots(m, L)
  BY <1>6 DEF Sound, Slots, Holds, Taken
<1>10. Rooted(m, L)
  BY <1>6 DEF Sound, Rooted, Ends
<1>11. ASSUME NEW S \in SUBSET Vertex, Caches(n, L, S) PROVE Caches(m, L, S)
  <2>1. \A u \in Vertex : Own(m, u) = Own(n, u)
    BY <1>6 DEF Own
  <2>2. ASSUME NEW x \in Vertex, Heaviest(n, L, x) PROVE Heaviest(m, L, x)
    <3>1. m[x].max = n[x].max
      BY <1>6
    <3> QED
      BY <3>1, <2>1, <2>2 DEF Heaviest
  <2> QED
    BY <2>2, <1>11 DEF Caches
<1>12. Sound(m, L)
  BY <1>8, <1>9, <1>10 DEF Sound
<1> QED
  BY <1>4, <1>5, <1>6, <1>11, <1>12

\* While v is exposed: m and r are the nodes and the root of its path, which it
\* ends.  The trees stay as they were, the other trees down to their pointers.
Exposing(n, L, up, B, v, m, r, K) ==
  /\ Sound(m, K) /\ Carries(m, K, up)
  /\ m[r].parent = NoVertex /\ K.hd[r] = K.hd[v] /\ LastOf(K, v)
  /\ \A x \in Vertex : m[x].edges = n[x].edges
  /\ \A x \in Vertex : B[x] # B[v] =>
       m[x] = n[x] /\ K.hd[x] = L.hd[x] /\ K.pos[x] = L.pos[x]
  /\ \A S \in SUBSET Vertex : Caches(n, L, S) => Caches(m, K, S \ ({v} \cup NextOf(L, v)))

\* The last vertex of a path is the tail its root knows.
LEMMA TailIs ==
  ASSUME NEW n, NEW L, Sound(n, L), NEW r \in Vertex, n[r].parent = NoVertex,
         NEW t \in Vertex, L.hd[t] = L.hd[r], LastOf(L, t)
  PROVE  n[r].tail = t
<1>1. Shape(n, L) /\ Ends(n, L, r)
  BY DEF Sound, Rooted
<1>2. L.pos[t] = L.hi[r]
  BY <1>1, LastIs DEF LastOf
<1> QED
  BY <1>1, <1>2 DEF Ends, Shape, Spans

\* One splice brings the head of the path further up.
LEMMA SpliceIs ==
  ASSUME NEW n0, NEW L0, NEW up, NEW B, NEW R, NEW C, Ranked(up, B, R, C),
         NEW v \in Vertex, NEW n, NEW p \in Vertex, NEW L, Exposing(n0, L0, up, B, v, n, p, L),
         NEW z, z = Above(n, p), z # NoVertex,
         NEW q, q = Splice(n, p)
  PROVE  /\ q.root \in Vertex
         /\ \E M : /\ Exposing(n0, L0, up, B, v, q.nodes, q.root, M)
                   /\ R[M.hd[v]] < R[L.hd[v]]
<1> DEFINE h == L.hd[v]
           s == Split(n, z).nodes
           d == SetDparent(s, h, NoVertex)
           j == Join(d, z, p)
<1>1. /\ Sound(n, L) /\ Carries(n, L, up) /\ n[p].parent = NoVertex /\ L.hd[p] = h /\ LastOf(L, v)
      /\ Shape(n, L)
  BY DEF Exposing, Sound
<1>2. h \in Vertex /\ L.hd[h] = h /\ L.pos[h] <= L.pos[v]
  BY <1>1, HeadFirst
<1>3. n[p].head = h
  BY <1>1 DEF Sound, Rooted, Ends
<1>4. z = n[h].dparent /\ up[h] = z
  BY <1>1, <1>2, <1>3 DEF Above, Carries
<1>5. z \in Vertex
  BY <1>1, <1>2, <1>4 DEF Carries, Some
<1>6. B[h] = B[v] /\ B[z] = B[v] /\ R[z] < R[h]
  <2>1. B[h] = B[v]
    BY <1>1, <1>2, PathDown
  <2> QED
    BY <2>1, <1>2, <1>4 DEF Ranked
<1>7. \A x \in Vertex : L.pos[x] \in Int /\ R[x] \in Int
  <2>1. C \in Nat /\ R \in [Vertex -> 0 .. C]
    BY DEF Ranked
  <2> QED
    BY <2>1, <1>1, LayoutFields DEF Shape
<1> HIDE DEF h
<1>8. L.hd[z] # h
  <2> SUFFICES ASSUME L.hd[z] = h PROVE FALSE
    OBVIOUS
  <2>1. L.pos[h] <= L.pos[z]
    BY <1>1, <1>5, HeadFirst
  <2>2. L.pos[h] < L.pos[z] => R[h] < R[z]
    BY <1>1, <1>2, <1>5, PathDown
  <2>3. L.pos[h] = L.pos[z] => h = z
    BY <1>1, <1>2, <1>5 DEF Shape, Spans
  <2> QED
    BY <2>1, <2>2, <2>3, <1>2, <1>5, <1>6, <1>7
<1>9. PICK K : Splitting(n, L, s, K, z) /\ Split(n, z).root = z
  BY <1>1, <1>5, SplitIs
<1>10. Carries(s, K, up) /\ LastOf(K, z) /\ K.hd[z] = L.hd[z] /\ K.pos[z] = L.pos[z]
  BY <1>1, <1>5, <1>9, SplitCarries
<1>11. Splice(n, p) = JoinBelow(Split(n, z), p)
  BY DEF Splice
<1> HIDE DEF s
<1>12. /\ Sound(s, K) /\ s[z].parent = NoVertex /\ K.pos = L.pos
       /\ \A x \in Vertex : L.hd[x] # L.hd[z] => s[x] = n[x] /\ K.hd[x] = L.hd[x]
       /\ \A x \in Vertex : s[x].edges = n[x].edges
       /\ \A x \in Vertex : L.hd[x] = L.hd[z] => K.hd[x] # h
  <2>1. ASSUME NEW x \in Vertex, L.hd[x] = L.hd[z] PROVE K.hd[x] # h
    <3>1. K.hd[x] \in NextOf(L, z) \/ K.hd[x] = L.hd[x]
      BY <1>9 DEF Splitting
    <3>2. \A y \in NextOf(L, z) : L.hd[y] = L.hd[z]
      BY DEF NextOf
    <3> QED
      BY <3>1, <3>2, <2>1, <1>2, <1>8
  <2> QED
    BY <2>1, <1>9 DEF Splitting
<1>13. s[p] = n[p] /\ K.hd[p] = h /\ K.hd[v] = h /\ K.hd[h] = h
  BY <1>1, <1>2, <1>8, <1>12 DEF h
<1>14. s[p].head = h /\ s[p].parent = NoVertex
  BY <1>1, <1>3, <1>13
<1>15. Splice(n, p) = j
  BY <1>9, <1>11, <1>14 DEF JoinBelow, SetDparent, s
<1>16. /\ Sound(d, K) /\ d[h].dparent = NoVertex
       /\ \A x \in Vertex : /\ d[x].parent = s[x].parent /\ d[x].edges = s[x].edges
                            /\ x # h => d[x] = s[x]
       /\ \A S \in SUBSET Vertex : Caches(s, K, S) => Caches(d, K, S)
  <2>1. NoVertex \in Some
    BY DEF Some
  <2> HIDE DEF d
  <2>2. d = SetDparent(s, h, NoVertex)
    BY DEF d
  <2> QED
    BY <2>1, <2>2, <1>2, <1>12, SetDparentIs
<1> HIDE DEF d
<1>17. d[z].tail = z
  BY <1>5, <1>10, <1>12, <1>16, TailIs
<1>18. K.hd[p] # K.hd[z]
  BY <1>8, <1>10, <1>13
<1>19. d[z].parent = NoVertex /\ d[p].parent = NoVertex
  BY <1>5, <1>12, <1>14, <1>16
<1>20. PICK M : Attaching(d, K, j.nodes, M, z, z, h)
  BY <1>5, <1>13, <1>16, <1>17, <1>18, <1>19, JoinIs
<1>21. j.root = z
  BY <1>5, <1>13, <1>16, <1>17, <1>18, <1>19, JoinIs
<1> HIDE DEF j
<1>22. Carries(j.nodes, M, up)
  <2> DEFINE g == [up EXCEPT ![h] = NoVertex]
  <2>1. up \in [Vertex -> Some]
    BY <1>1 DEF Carries
  <2>2. g \in [Vertex -> Some] /\ g[h] = NoVertex /\ \A x \in Vertex \ {h} : g[x] = up[x]
    BY <2>1, <1>2 DEF Some
  <2>3. up[h] = z /\ \A x \in Vertex \ {h} : up[x] = g[x]
    BY <2>2, <1>4
  <2> HIDE DEF g
  <2>4. Carries(d, K, g)
    <3>1. ASSUME NEW x \in Vertex, x = K.hd[x] PROVE g[x] = d[x].dparent
      BY <3>1, <2>2, <1>10, <1>16 DEF Carries
    <3>2. ASSUME NEW x \in Vertex, x # K.hd[x]
          PROVE  /\ g[x] \in Vertex /\ K.hd[g[x]] = K.hd[x] /\ K.pos[g[x]] = K.pos[x] - 1
                 /\ d[x].dparent = NoVertex
      <4>1. x # h
        BY <3>2, <1>13
      <4> QED
        BY <4>1, <3>2, <2>2, <1>10, <1>16 DEF Carries
    <3> QED
      BY <3>1, <3>2, <2>2 DEF Carries
  <2>5. h # K.hd[z]
    BY <1>13, <1>18
  <2> QED
    BY <2>1, <2>2, <2>3, <2>4, <2>5, <1>2, <1>5, <1>13, <1>16, <1>20, JoinCarries
<1>23. /\ Sound(j.nodes, M) /\ j.nodes[z].parent = NoVertex
       /\ \A x \in Vertex : K.hd[x] # h => M.hd[x] = K.hd[x] /\ M.pos[x] = K.pos[x]
       /\ \A x \in Vertex : K.hd[x] = h =>
            M.hd[x] = K.hd[z] /\ M.pos[x] = K.pos[z] + 1 + (K.pos[x] - K.pos[h])
       /\ \A x \in Vertex : /\ j.nodes[x].edges = d[x].edges
                            /\ K.hd[x] # K.hd[z] /\ K.hd[x] # h => j.nodes[x] = d[x]
       /\ \A S \in SUBSET Vertex : Caches(d, K, S) => Caches(j.nodes, M, S)
  BY <1>20 DEF Attaching
<1>24. M.hd[z] = L.hd[z] /\ M.hd[v] = L.hd[z]
  BY <1>5, <1>8, <1>10, <1>13, <1>23
<1>25. LastOf(M, v)
  <2> SUFFICES ASSUME NEW u \in Vertex, M.hd[u] = M.hd[v] PROVE M.pos[u] <= M.pos[v]
    BY DEF LastOf
  <2>1. M.pos[v] = L.pos[z] + 1 + (L.pos[v] - L.pos[h])
    BY <1>12, <1>13, <1>23
  <2>2. CASE K.hd[u] = h
    <3>1. L.hd[u] = h
      BY <2>2, <1>12
    <3>2. L.pos[u] <= L.pos[v]
      BY <3>1, <1>1 DEF LastOf, h
    <3>3. M.pos[u] = L.pos[z] + 1 + (L.pos[u] - L.pos[h])
      BY <2>2, <1>12, <1>23
    <3> QED
      BY <3>2, <3>3, <2>1, <1>2, <1>5, <1>7
  <2>3. CASE K.hd[u] # h
    <3>1. K.hd[u] = K.hd[z] /\ M.pos[u] = L.pos[u]
      BY <2>3, <1>10, <1>12, <1>23, <1>24
    <3>2. L.pos[u] <= L.pos[z]
      BY <3>1, <1>10, <1>12 DEF LastOf
    <3> QED
      BY <3>1, <3>2, <2>1, <1>2, <1>5, <1>7
  <2> QED
    BY <2>2, <2>3
<1>26. \A x \in Vertex : j.nodes[x].edges = n0[x].edges
  BY <1>12, <1>16, <1>23 DEF Exposing
<1>27. ASSUME NEW x \in Vertex, B[x] # B[v]
       PROVE  j.nodes[x] = n0[x] /\ M.hd[x] = L0.hd[x] /\ M.pos[x] = L0.pos[x]
  <2>1. L.hd[x] # L.hd[z]
    BY <1>1, <1>5, <1>6, <1>27, PathDown
  <2>2. L.hd[x] # h
    BY <1>1, <1>2, <1>6, <1>27, PathDown
  <2>3. x # h
    BY <1>6, <1>27
  <2>4. j.nodes[x] = n[x] /\ M.hd[x] = L.hd[x] /\ M.pos[x] = L.pos[x]
    BY <2>1, <2>2, <2>3, <1>10, <1>12, <1>16, <1>23
  <2> QED
    BY <2>4, <1>27 DEF Exposing
<1>28. ASSUME NEW S \in SUBSET Vertex, Caches(n0, L0, S)
       PROVE  Caches(j.nodes, M, S \ ({v} \cup NextOf(L0, v)))
  <2> DEFINE T == S \ ({v} \cup NextOf(L0, v))
  <2>1. Caches(n, L, T)
    BY <1>28 DEF Exposing
  <2>2. T \in SUBSET Vertex
    OBVIOUS
  <2> HIDE DEF T
  <2>3. Caches(s, K, T \ ({z} \cup NextOf(L, z)))
    BY <2>1, <2>2, <1>9 DEF Splitting
  <2>4. Caches(s, K, T)
    <3>1. T \ ({z} \cup NextOf(L, z)) \subseteq T
      OBVIOUS
    <3> QED
      BY <3>1, <2>3, CachesMore
  <2>5. Caches(j.nodes, M, T)
    BY <2>2, <2>4, <1>16, <1>23
  <2> QED
    BY <2>5 DEF T
<1>29. Exposing(n0, L0, up, B, v, j.nodes, z, M)
  BY <1>22, <1>23, <1>24, <1>25, <1>26, <1>27, <1>28 DEF Exposing
<1>30. R[M.hd[v]] < R[h]
  <2>1. L.hd[L.hd[z]] = L.hd[z] /\ L.pos[L.hd[z]] <= L.pos[z] /\ L.hd[z] \in Vertex
    BY <1>1, <1>5, HeadFirst
  <2>2. L.pos[L.hd[z]] < L.pos[z] => R[L.hd[z]] < R[z]
    BY <2>1, <1>1, <1>5, PathDown
  <2>3. L.pos[L.hd[z]] = L.pos[z] => L.hd[z] = z
    BY <2>1, <1>1, <1>5 DEF Shape, Spans
  <2> QED
    BY <2>1, <2>2, <2>3, <1>2, <1>5, <1>6, <1>7, <1>24
<1> QED
  BY <1>5, <1>15, <1>21, <1>29, <1>30 DEF h

\* join and split_right return the root of a path with its nodes.
LEMMA PathsAre ==
  /\ \A n, v, w : Join(n, v, w).nodes \in Nodes /\ Join(n, v, w).root \in Vertex
                    => Join(n, v, w) \in Paths
  /\ \A n, v : Split(n, v).nodes \in Nodes /\ Split(n, v).root \in Vertex
                 => Split(n, v) \in Paths
<1>1. ASSUME NEW n, NEW v, NEW w
      PROVE  Join(n, v, w) = [nodes |-> Join(n, v, w).nodes, root |-> Join(n, v, w).root]
  BY DEF Join
<1>2. ASSUME NEW n, NEW v
      PROVE  Split(n, v) = [nodes |-> Split(n, v).nodes, root |-> Split(n, v).root]
  BY DEF Split
<1>3. \A a, b : a \in Nodes /\ b \in Vertex => [nodes |-> a, root |-> b] \in Paths
  BY DEF Paths
<1>4. ASSUME NEW n, NEW v, NEW w, Join(n, v, w).nodes \in Nodes, Join(n, v, w).root \in Vertex
      PROVE  Join(n, v, w) \in Paths
  <2> DEFINE a == Join(n, v, w).nodes
             b == Join(n, v, w).root
  <2>1. Join(n, v, w) = [nodes |-> a, root |-> b]
    BY <1>1
  <2>2. a \in Nodes /\ b \in Vertex
    BY <1>4
  <2> HIDE DEF a, b
  <2>3. [nodes |-> a, root |-> b] \in Paths
    BY <2>2, <1>3
  <2> QED
    BY <2>1, <2>3
<1>5. ASSUME NEW n, NEW v, Split(n, v).nodes \in Nodes, Split(n, v).root \in Vertex
      PROVE  Split(n, v) \in Paths
  <2> DEFINE a == Split(n, v).nodes
             b == Split(n, v).root
  <2>1. Split(n, v) = [nodes |-> a, root |-> b]
    BY <1>2
  <2>2. a \in Nodes /\ b \in Vertex
    BY <1>5
  <2> HIDE DEF a, b
  <2>3. [nodes |-> a, root |-> b] \in Paths
    BY <2>2, <1>3
  <2> QED
    BY <2>1, <2>3
<1> QED
  BY <1>4, <1>5

\* Splice gives a path.
LEMMA SplicePath ==
  ASSUME NEW n, NEW p, Splice(n, p).nodes \in Nodes, Splice(n, p).root \in Vertex
  PROVE  Splice(n, p) \in Paths
<1> DEFINE s == Split(n, Above(n, p))
           d == [s.nodes EXCEPT ![s.nodes[p].head].dparent = NoVertex]
<1>1. Splice(n, p) = Join(d, s.root, p)
  BY DEF Splice, JoinBelow
<1> HIDE DEF s, d
<1> QED
  BY <1>1, PathsAre

\* The paths that j rounds of expose's loop go through.
Trips(path, j, f) == f = [i \in 0 .. j |-> IF i = 0 THEN path ELSE Spliced(f[i - 1])]

\* The rounds of expose exist as a sequence.
LEMMA TripsExist ==
  ASSUME NEW path
  PROVE  \A j \in Nat : \E f : Trips(path, j, f)
<1> DEFINE T == {j \in Nat : \E f : Trips(path, j, f)}
<1>1. 0 \in T
  <2> DEFINE f == [i \in 0 .. 0 |-> path]
  <2>1. f = [i \in 0 .. 0 |-> IF i = 0 THEN path ELSE Spliced(f[i - 1])]
    OBVIOUS
  <2> HIDE DEF f
  <2> QED
    BY <2>1 DEF Trips
<1>2. ASSUME NEW j \in Nat, j \in T
      PROVE  j + 1 \in T
  <2>1. PICK f : f = [i \in 0 .. j |-> IF i = 0 THEN path ELSE Spliced(f[i - 1])]
    BY <1>2 DEF Trips
  <2> DEFINE g == [i \in 0 .. j + 1 |-> IF i = j + 1 THEN Spliced(f[j]) ELSE f[i]]
             h == [i \in 0 .. j + 1 |-> IF i = 0 THEN path ELSE Spliced(g[i - 1])]
  <2>2. ASSUME NEW i \in 0 .. j + 1 PROVE g[i] = IF i = 0 THEN path ELSE Spliced(g[i - 1])
    <3>1. CASE i = j + 1
      <4>1. i # 0 /\ i - 1 = j /\ j \in 0 .. j + 1 /\ j # j + 1
        BY <3>1
      <4>2. g[i - 1] = f[j]
        BY <4>1
      <4>3. g[i] = Spliced(f[j])
        BY <3>1
      <4> QED
        BY <4>1, <4>2, <4>3
    <3>2. CASE i # j + 1
      <4>1. i \in 0 .. j
        BY <3>2
      <4>2. g[i] = f[i]
        BY <3>2
      <4>3. f[i] = IF i = 0 THEN path ELSE Spliced(f[i - 1])
        BY <4>1, <2>1
      <4>4. i # 0 => g[i - 1] = f[i - 1]
        BY <4>1
      <4> QED
        BY <4>2, <4>3, <4>4
    <3> QED
      BY <3>1, <3>2
  <2>3. DOMAIN g = 0 .. j + 1
    OBVIOUS
  <2>4. g = h
    BY <2>2
  <2> HIDE DEF g
  <2>5. \E k : Trips(path, j + 1, k)
    BY <2>4 DEF Trips
  <2> QED
    BY <2>5
<1> HIDE DEF T
<1>3. \A j \in Nat : j \in T
  BY <1>1, <1>2, Induction
<1> QED
  BY <1>3 DEF T

\* v is exposed: its path leads to the root of its tree.
Exposed(n, L, up, B, v, m, r, K) ==
  /\ Exposing(n, L, up, B, v, m, r, K)
  /\ K.hd[v] = B[v] /\ up[B[v]] = NoVertex /\ m[B[v]].dparent = NoVertex

\* Splicing up ends at the root of the tree.
LEMMA SpliceUpIs ==
  ASSUME NEW n0, NEW L0, NEW up, NEW B, NEW R, NEW C, Ranked(up, B, R, C),
         NEW v \in Vertex, NEW path \in Paths, NEW L,
         Exposing(n0, L0, up, B, v, path.nodes, path.root, L),
         NEW q, q = SpliceUp(path)
  PROVE  q \in Paths /\ \E K : Exposed(n0, L0, up, B, v, q.nodes, q.root, K)
<1> DEFINE N == Cardinality(Vertex)
           Left(h) == {x \in Vertex : R[x] < R[h]}
<1>1. IsFiniteSet(Vertex) /\ N \in Nat
  BY VertexAssumption, FS_CardinalityType
<1>2. \A x \in Vertex : R[x] \in Int
  <2>1. C \in Nat /\ R \in [Vertex -> 0 .. C]
    BY DEF Ranked
  <2> QED
    BY <2>1
<1>3. ASSUME NEW h \in Vertex
      PROVE  IsFiniteSet(Left(h)) /\ Cardinality(Left(h)) \in Nat /\ Cardinality(Left(h)) < N
  <2>1. Left(h) \subseteq Vertex /\ Left(h) # Vertex
    BY <1>2
  <2> HIDE DEF Left
  <2> QED
    BY <2>1, <1>1, FS_Subset, FS_CardinalityType
<1>4. ASSUME NEW h \in Vertex, NEW k \in Vertex, R[k] < R[h]
      PROVE  Cardinality(Left(k)) < Cardinality(Left(h))
  <2>1. Left(k) \subseteq Left(h) /\ Left(k) # Left(h)
    BY <1>2, <1>4
  <2>2. IsFiniteSet(Left(h))
    BY <1>3
  <2>3. Cardinality(Left(h)) \in Nat /\ Cardinality(Left(k)) \in Nat
    BY <1>3
  <2> HIDE DEF Left
  <2> QED
    BY <2>1, <2>2, <2>3, FS_Subset
<1> HIDE DEF N
<1>5. PICK f : Trips(path, N, f)
  BY <1>1, TripsExist
<1>6. /\ f[0] = path
      /\ \A i \in 0 .. N : i # 0 => f[i] = Spliced(f[i - 1])
  BY <1>1, <1>5 DEF Trips
<1>7. q = f[N]
  <2> DEFINE g[i \in 0 .. N] == IF i = 0 THEN path ELSE Spliced(g[i - 1])
  <2>1. SpliceUp(path) = g[N]
    BY DEF SpliceUp, N
  <2>2. g = CHOOSE k : Trips(path, N, k)
    BY DEF Trips
  <2>3. Trips(path, N, g)
    BY <2>2, <1>5
  <2> HIDE DEF g
  <2>4. /\ g[0] = path
        /\ \A i \in 0 .. N : i # 0 => g[i] = Spliced(g[i - 1])
    BY <2>3, <1>1 DEF Trips
  <2> DEFINE T == {i \in Nat : i \in 0 .. N => g[i] = f[i]}
  <2>5. 0 \in T
    BY <2>4, <1>6
  <2>6. ASSUME NEW i \in Nat, i \in T PROVE i + 1 \in T
    <3> SUFFICES ASSUME i + 1 \in 0 .. N PROVE g[i + 1] = f[i + 1]
      OBVIOUS
    <3>1. i \in 0 .. N /\ i + 1 # 0 /\ (i + 1) - 1 = i
      BY <1>1
    <3> QED
      BY <3>1, <2>4, <2>6, <1>6
  <2>7. \A i \in Nat : i \in T
    <3> HIDE DEF T
    <3> QED
      BY <2>5, <2>6, Induction
  <2> QED
    BY <2>1, <2>7, <1>1
<1> DEFINE P(i) == /\ f[i] \in Paths
                   /\ \E K : /\ Exposing(n0, L0, up, B, v, f[i].nodes, f[i].root, K)
                             /\ \/ Above(f[i].nodes, f[i].root) = NoVertex
                                \/ Cardinality(Left(K.hd[v])) + i < N
           U == {i \in Nat : i <= N => P(i)}
<1>8. P(0)
  <2>1. L.hd[v] \in Vertex
    <3>1. Shape(path.nodes, L)
      BY DEF Exposing, Sound
    <3> QED
      BY <3>1, HeadFirst
  <2>2. Cardinality(Left(L.hd[v])) + 0 < N
    BY <2>1, <1>3
  <2> QED
    BY <2>2, <1>6
<1>9. ASSUME NEW i \in Nat, i + 1 <= N, P(i) PROVE P(i + 1)
  <2>1. f[i + 1] = Spliced(f[i])
    <3>1. i + 1 \in 0 .. N /\ i + 1 # 0 /\ (i + 1) - 1 = i
      BY <1>1, <1>9
    <3> QED
      BY <3>1, <1>6
  <2> DEFINE m == f[i].nodes
             r == f[i].root
             s == Splice(m, r)
  <2>2. f[i] \in Paths /\ m \in Nodes /\ r \in Vertex
    BY <1>9 DEF Paths
  <2>3. PICK K : /\ Exposing(n0, L0, up, B, v, m, r, K)
                 /\ \/ Above(m, r) = NoVertex
                    \/ Cardinality(Left(K.hd[v])) + i < N
    BY <1>9
  <2>4. CASE Above(m, r) = NoVertex
    <3>1. Spliced(f[i]) = f[i]
      BY <2>4 DEF Spliced
    <3> QED
      BY <2>1, <2>2, <2>3, <2>4, <3>1
  <2>5. CASE Above(m, r) # NoVertex
    <3>1. Spliced(f[i]) = s
      BY <2>5 DEF Spliced
    <3> HIDE DEF P, Left, m, r
    <3>2. /\ s.root \in Vertex
          /\ \E M : /\ Exposing(n0, L0, up, B, v, s.nodes, s.root, M)
                    /\ R[M.hd[v]] < R[K.hd[v]]
      BY <2>2, <2>3, <2>5, SpliceIs
    <3>3. PICK M : /\ Exposing(n0, L0, up, B, v, s.nodes, s.root, M)
                   /\ R[M.hd[v]] < R[K.hd[v]]
      BY <3>2
    <3>4. Shape(m, K) /\ Shape(s.nodes, M)
      BY <2>3, <3>3 DEF Exposing, Sound
    <3>5. s \in Paths
      BY <3>2, <3>4, SplicePath DEF Shape
    <3>6. K.hd[v] \in Vertex /\ M.hd[v] \in Vertex
      BY <3>4, HeadFirst
    <3>7. Cardinality(Left(M.hd[v])) < Cardinality(Left(K.hd[v]))
      BY <3>3, <3>6, <1>4
    <3>8. Cardinality(Left(M.hd[v])) \in Nat /\ Cardinality(Left(K.hd[v])) \in Nat
      BY <3>6, <1>3
    <3>9. Cardinality(Left(M.hd[v])) + (i + 1) < N
      BY <3>7, <3>8, <2>3, <2>5, <1>1
    <3> HIDE DEF s
    <3>10. f[i + 1] = s
      BY <2>1, <3>1
    <3> QED
      BY <3>3, <3>5, <3>9, <3>10 DEF P
  <2> QED
    BY <2>4, <2>5
<1> HIDE DEF P
<1>10. \A i \in Nat : i \in U
  <2>1. 0 \in U
    BY <1>8
  <2>2. ASSUME NEW i \in Nat, i \in U PROVE i + 1 \in U
    BY <2>2, <1>1, <1>9
  <2> HIDE DEF U
  <2> QED
    BY <2>1, <2>2, Induction
<1>11. P(N)
  BY <1>1, <1>10
<1>12. q \in Paths
  BY <1>7, <1>11 DEF P
<1>13. PICK K : /\ Exposing(n0, L0, up, B, v, q.nodes, q.root, K)
                /\ \/ Above(q.nodes, q.root) = NoVertex
                   \/ Cardinality(Left(K.hd[v])) + N < N
  BY <1>7, <1>11 DEF P
<1> DEFINE h == K.hd[v]
           m == q.nodes
           r == q.root
<1>14. /\ Sound(m, K) /\ Carries(m, K, up) /\ m[r].parent = NoVertex /\ K.hd[r] = h
       /\ Shape(m, K) /\ r \in Vertex
  BY <1>12, <1>13 DEF Exposing, Sound, Paths
<1>15. h \in Vertex /\ K.hd[h] = h
  BY <1>14, HeadFirst
<1>16. Above(m, r) = NoVertex
  <2>1. Cardinality(Left(h)) \in Nat
    BY <1>15, <1>3
  <2> QED
    BY <2>1, <1>1, <1>13
<1> HIDE DEF h, m, r
<1>17. m[h].dparent = NoVertex /\ up[h] = NoVertex
  BY <1>14, <1>15, <1>16 DEF Sound, Rooted, Ends, Above, Carries
<1>18. B[h] = h
  BY <1>15, <1>17 DEF Ranked
<1>19. B[v] = B[h]
  <2>1. K.hd[h] = K.hd[v]
    BY <1>15 DEF h
  <2>2. Shape(m, K) /\ Carries(m, K, up) /\ h \in Vertex
    BY <1>14, <1>15
  <2>3. B[h] = B[v] /\ (K.pos[h] < K.pos[v] => R[h] < R[v])
    BY ONLY <2>1, <2>2, v \in Vertex, Ranked(up, B, R, C), PathDown
  <2> QED
    BY <2>3
<1>20. Exposed(n0, L0, up, B, v, q.nodes, q.root, K)
  BY <1>13, <1>17, <1>18, <1>19 DEF Exposed, h, m
<1> QED
  BY <1>12, <1>20

\* expose makes the way from the root of the tree down to v one path.
LEMMA ExposeIs ==
  ASSUME NEW n, NEW L, Sound(n, L), NEW up, Carries(n, L, up),
         NEW B, NEW R, NEW C, Ranked(up, B, R, C),
         NEW v \in Vertex, NEW q, q = Expose(n, v)
  PROVE  q \in Paths /\ \E K : Exposed(n, L, up, B, v, q.nodes, q.root, K)
<1> DEFINE s == Split(n, v)
<1>1. s.root = v /\ \E K : Splitting(n, L, s.nodes, K, v)
  BY SplitIs
<1>2. PICK K : Splitting(n, L, s.nodes, K, v)
  BY <1>1
<1>3. Shape(n, L) /\ Sound(s.nodes, K) /\ Shape(s.nodes, K)
  BY <1>2 DEF Splitting, Sound
<1>4. s \in Paths
  BY <1>1, <1>3, PathsAre DEF Shape
<1>5. q = SpliceUp(s)
  BY DEF Expose
<1> HIDE DEF s
<1>6. Carries(s.nodes, K, up) /\ LastOf(K, v) /\ K.hd[v] = L.hd[v] /\ K.pos[v] = L.pos[v]
  BY <1>2, SplitCarries
<1>7. ASSUME NEW x \in Vertex, B[x] # B[v]
      PROVE  s.nodes[x] = n[x] /\ K.hd[x] = L.hd[x] /\ K.pos[x] = L.pos[x]
  <2>1. L.hd[x] # L.hd[v]
    BY <1>3, <1>7, PathDown
  <2> QED
    BY <2>1, <1>2 DEF Splitting
<1>8. Exposing(n, L, up, B, v, s.nodes, s.root, K)
  BY <1>1, <1>2, <1>3, <1>6, <1>7 DEF Exposing, Splitting
<1> QED
  BY <1>4, <1>5, <1>8, SpliceUpIs

-----------------------------------------------------------------------------
(* Evert.                                                                  *)

\* The edges of the trees.
TreeEdges(up) == {{x, up[x]} : x \in {y \in Vertex : up[y] # NoVertex}}

\* Every second vertex of an edge is above the first or below it.
LEMMA TreeEdgesAre ==
  ASSUME NEW up \in [Vertex -> Some], NEW x \in Vertex, NEW y \in Vertex
  PROVE  {x, y} \in TreeEdges(up) <=> up[x] = y \/ up[y] = x
<1>1. NoVertex \notin Vertex
  BY LctAssumption
<1>2. ASSUME {x, y} \in TreeEdges(up) PROVE up[x] = y \/ up[y] = x
  <2>1. PICK a \in Vertex : up[a] # NoVertex /\ {x, y} = {a, up[a]}
    BY <1>2 DEF TreeEdges
  <2>2. (x = a /\ y = up[a]) \/ (x = up[a] /\ y = a)
    BY <2>1, PairIsPair
  <2> QED
    BY <2>2
<1>3. ASSUME up[x] = y PROVE {x, y} \in TreeEdges(up)
  BY <1>1, <1>3 DEF TreeEdges
<1>4. ASSUME up[y] = x PROVE {x, y} \in TreeEdges(up)
  <2>1. {y, x} \in TreeEdges(up)
    BY <1>1, <1>4 DEF TreeEdges
  <2>2. {y, x} = {x, y}
    OBVIOUS
  <2> QED
    BY <2>1, <2>2
<1> QED
  BY <1>2, <1>3, <1>4

\* Ways up that agree on every pair have the same edges.
LEMMA TreeEdgesSame ==
  ASSUME NEW up \in [Vertex -> Some], NEW g \in [Vertex -> Some],
         \A x, y \in Vertex : up[x] = y \/ up[y] = x <=> g[x] = y \/ g[y] = x
  PROVE  TreeEdges(g) = TreeEdges(up)
<1>1. ASSUME NEW f \in [Vertex -> Some], NEW e \in TreeEdges(f)
      PROVE  \E x, y \in Vertex : e = {x, y} /\ f[x] = y
  BY DEF TreeEdges, Some
<1>2. ASSUME NEW e \in TreeEdges(up) PROVE e \in TreeEdges(g)
  <2>1. PICK x, y \in Vertex : e = {x, y} /\ up[x] = y
    BY <1>1
  <2> QED
    BY <2>1, TreeEdgesAre
<1>3. ASSUME NEW e \in TreeEdges(g) PROVE e \in TreeEdges(up)
  <2>1. PICK x, y \in Vertex : e = {x, y} /\ g[x] = y
    BY <1>1
  <2> QED
    BY <2>1, TreeEdgesAre
<1> QED
  BY <1>2, <1>3

\* The turned path has the same edges, and a tree is turned with it.
LEMMA TurnedTree ==
  ASSUME NEW n, NEW L, Shape(n, L), NEW up, Carries(n, L, up),
         NEW B, NEW R, NEW C, Ranked(up, B, R, C),
         NEW v \in Vertex, LastOf(L, v), L.hd[v] = B[v], up[B[v]] = NoVertex,
         NEW r, L.hd[r] = L.hd[v], NEW g, Turned(L, up, r, v, g),
         NEW B2 \in [Vertex -> Vertex], \A x \in Vertex : B2[x] = IF B[x] = B[v] THEN v ELSE B[x]
  PROVE  /\ TreeEdges(g) = TreeEdges(up)
         /\ \E R2, C2 : Ranked(g, B2, R2, C2)
         /\ \A w \in Vertex : up[v] = w \/ up[w] = v => g[w] = v
<1>1. /\ C \in Nat /\ R \in [Vertex -> 0 .. C] /\ B \in [Vertex -> Vertex]
      /\ \A x \in Vertex : up[x] # NoVertex => B[up[x]] = B[x] /\ R[up[x]] < R[x]
      /\ \A x \in Vertex : up[x] = NoVertex => B[x] = x
  BY DEF Ranked
<1>2. \A x \in Vertex : R[x] \in Int /\ 0 <= R[x] /\ R[x] <= C /\ L.pos[x] \in Int
  BY <1>1, LayoutFields DEF Shape
<1>3. /\ g \in [Vertex -> Some] /\ g[v] = NoVertex
      /\ \A x \in Vertex : L.hd[x] = L.hd[v] /\ x # v =>
           g[x] \in Vertex /\ L.hd[g[x]] = L.hd[v] /\ L.pos[g[x]] = L.pos[x] + 1
      /\ \A x \in Vertex : L.hd[x] # L.hd[v] => g[x] = up[x]
  BY DEF Turned
<1>4. up \in [Vertex -> Some] /\ NoVertex \notin Vertex
  BY LctAssumption DEF Carries
<1>5. \A x \in Vertex : x # L.hd[x] =>
        up[x] \in Vertex /\ L.hd[up[x]] = L.hd[x] /\ L.pos[up[x]] = L.pos[x] - 1
  BY DEF Carries
<1>6. \A x, y \in Vertex : L.hd[x] = L.hd[y] /\ L.pos[x] = L.pos[y] => x = y
  BY DEF Shape, Spans
<1>7. ASSUME NEW x \in Vertex, NEW y \in Vertex, L.hd[x] = L.hd[v]
      PROVE  g[x] = y <=> L.hd[y] = L.hd[v] /\ up[y] = x
  <2>1. ASSUME g[x] = y PROVE L.hd[y] = L.hd[v] /\ up[y] = x
    <3>1. x # v
      BY <2>1, <1>3, <1>4
    <3>2. L.hd[y] = L.hd[v] /\ L.pos[y] = L.pos[x] + 1
      BY <2>1, <3>1, <1>3, <1>7
    <3>3. y # L.hd[y]
      <4>1. L.pos[L.hd[x]] <= L.pos[x]
        BY HeadFirst
      <4> QED
        BY <4>1, <3>2, <1>2, <1>7
    <3>4. up[y] \in Vertex /\ L.hd[up[y]] = L.hd[x] /\ L.pos[up[y]] = L.pos[x]
      BY <3>2, <3>3, <1>2, <1>5, <1>7
    <3> QED
      BY <3>2, <3>4, <1>6
  <2>2. ASSUME L.hd[y] = L.hd[v], up[y] = x PROVE g[x] = y
    <3>1. y # L.hd[y]
      BY <2>2, <1>4
    <3>2. L.pos[x] = L.pos[y] - 1
      BY <2>2, <3>1, <1>5
    <3>3. L.pos[y] <= L.pos[v]
      BY <2>2 DEF LastOf
    <3>4. x # v
      BY <3>2, <3>3, <1>2
    <3>5. g[x] \in Vertex /\ L.hd[g[x]] = L.hd[y] /\ L.pos[g[x]] = L.pos[y]
      BY <2>2, <3>2, <3>4, <1>2, <1>3, <1>7
    <3> QED
      BY <3>5, <1>6
  <2> QED
    BY <2>1, <2>2
<1>8. TreeEdges(g) = TreeEdges(up)
  <2>1. ASSUME NEW x \in Vertex, NEW y \in Vertex
        PROVE  up[x] = y \/ up[y] = x <=> g[x] = y \/ g[y] = x
    <3>1. CASE L.hd[x] = L.hd[v] /\ L.hd[y] = L.hd[v]
      BY <3>1, <1>7
    <3>2. CASE L.hd[x] = L.hd[v] /\ L.hd[y] # L.hd[v]
      <4>1. g[x] # y /\ g[y] = up[y]
        BY <3>2, <1>3, <1>7
      <4>2. up[x] # y
        <5>1. x = L.hd[x] => up[x] = NoVertex
          BY <3>2
        <5> QED
          BY <5>1, <3>2, <1>4, <1>5
      <4> QED
        BY <4>1, <4>2
    <3>3. CASE L.hd[x] # L.hd[v] /\ L.hd[y] = L.hd[v]
      <4>1. g[y] # x /\ g[x] = up[x]
        BY <3>3, <1>3, <1>7
      <4>2. up[y] # x
        <5>1. y = L.hd[y] => up[y] = NoVertex
          BY <3>3
        <5> QED
          BY <5>1, <3>3, <1>4, <1>5
      <4> QED
        BY <4>1, <4>2
    <3>4. CASE L.hd[x] # L.hd[v] /\ L.hd[y] # L.hd[v]
      BY <3>4, <1>3
    <3> QED
      BY <3>1, <3>2, <3>3, <3>4
  <2> QED
    BY <2>1, <1>3, <1>4, TreeEdgesSame
<1>9. \A x \in Vertex : L.hd[x] = L.hd[v] => B[x] = B[v]
  BY PathDown
<1>10. \A x \in Vertex : B2[x] = IF B[x] = B[v] THEN v ELSE B[x]
  OBVIOUS
<1> DEFINE R2 == [x \in Vertex |-> IF L.hd[x] = L.hd[v] THEN C - R[x] ELSE R[x] + C + 1]
           C2 == 2 * C + 1
<1>12. \A x \in Vertex : R2[x] = IF L.hd[x] = L.hd[v] THEN C - R[x] ELSE R[x] + C + 1
  OBVIOUS
<1>13. C2 \in Nat /\ R2 \in [Vertex -> 0 .. C2]
  <2>1. \A x \in Vertex : (IF L.hd[x] = L.hd[v] THEN C - R[x] ELSE R[x] + C + 1) \in 0 .. C2
    BY <1>1, <1>2
  <2> QED
    BY <2>1, <1>1
<1> HIDE DEF R2, C2
<1>14. ASSUME NEW x \in Vertex, g[x] # NoVertex
       PROVE  B2[g[x]] = B2[x] /\ R2[g[x]] < R2[x]
  <2>1. g[x] \in Vertex
    BY <1>3, <1>14 DEF Some
  <2>2. CASE L.hd[x] = L.hd[v]
    <3>1. L.hd[g[x]] = L.hd[v] /\ up[g[x]] = x
      BY <2>1, <2>2, <1>7
    <3>2. B[g[x]] = B[x] /\ R[x] < R[g[x]]
      BY <2>1, <3>1, <1>1, <1>4
    <3> QED
      BY <2>1, <2>2, <3>1, <3>2, <1>1, <1>2, <1>10, <1>12
  <2>3. CASE L.hd[x] # L.hd[v]
    <3>1. B[g[x]] = B[x] /\ R[g[x]] < R[x]
      BY <2>1, <2>3, <1>1, <1>3, <1>4
    <3>2. R2[x] = R[x] + C + 1
      BY <2>3, <1>12
    <3>3. R2[g[x]] = C - R[g[x]] \/ R2[g[x]] = R[g[x]] + C + 1
      BY <2>1, <1>12
    <3>4. R2[g[x]] < R2[x]
      BY <2>1, <3>1, <3>2, <3>3, <1>1, <1>2
    <3> QED
      BY <2>1, <3>1, <3>4, <1>10
  <2> QED
    BY <2>2, <2>3
<1>15. ASSUME NEW x \in Vertex, g[x] = NoVertex PROVE B2[x] = x
  <2>1. CASE L.hd[x] = L.hd[v]
    <3>1. x = v
      BY <2>1, <1>3, <1>4, <1>15
    <3> QED
      BY <3>1, <1>10
  <2>2. CASE L.hd[x] # L.hd[v]
    <3>1. B[x] = x
      BY <2>2, <1>1, <1>3, <1>15
    <3>2. B[x] # B[v]
      <4>1. L.hd[L.hd[v]] = L.hd[v]
        BY HeadFirst
      <4> QED
        BY <4>1, <3>1, <2>2
    <3> QED
      BY <3>1, <3>2, <1>10
  <2> QED
    BY <2>1, <2>2
<1>16. Ranked(g, B2, R2, C2)
  BY <1>13, <1>14, <1>15 DEF Ranked
<1>17. ASSUME NEW w \in Vertex, up[v] = w \/ up[w] = v PROVE g[w] = v
  <2>1. CASE up[v] = w
    <3>1. L.hd[w] = L.hd[v]
      BY <2>1, <1>4, <1>5
    <3> QED
      BY <2>1, <3>1, <1>7
  <2>2. CASE up[w] = v
    <3>1. L.hd[w] # L.hd[v]
      <4> SUFFICES ASSUME L.hd[w] = L.hd[v] PROVE FALSE
        OBVIOUS
      <4>1. w # L.hd[w]
        BY <2>2, <1>4
      <4>2. L.pos[v] = L.pos[w] - 1 /\ L.pos[w] <= L.pos[v]
        BY <2>2, <4>1, <1>5 DEF LastOf
      <4> QED
        BY <4>2, <1>2
    <3> QED
      BY <2>2, <3>1, <1>3
  <2> QED
    BY <1>17, <2>1, <2>2
<1> QED
  BY <1>8, <1>16, <1>17

\* v is the root of its tree, and its path is the one to where the root was.
Everted(n, L, up, B, v, m, r, K, g, B2) ==
  /\ Sound(m, K) /\ Carries(m, K, g) /\ \E R2, C2 : Ranked(g, B2, R2, C2)
  /\ r \in Vertex /\ m[r].parent = NoVertex /\ K.hd[r] = v /\ K.hd[v] = v /\ g[v] = NoVertex
  /\ TreeEdges(g) = TreeEdges(up)
  /\ \A x \in Vertex : B2[x] = IF B[x] = B[v] THEN v ELSE B[x]
  /\ \A w \in Vertex : up[v] = w \/ up[w] = v => g[w] = v
  /\ \A w \in Vertex : up[v] = w => w \in NextOf(K, v)
  /\ \A x \in Vertex : m[x].edges = n[x].edges
  /\ \A x \in Vertex : B[x] # B[v] =>
       m[x] = n[x] /\ K.hd[x] = L.hd[x] /\ K.pos[x] = L.pos[x] /\ g[x] = up[x]
  /\ \A S \in SUBSET Vertex : Caches(n, L, S) => Caches(m, K, S \ ({v} \cup NextOf(L, v)))

\* evert turns the tree of v, and no other.
LEMMA EvertIs ==
  ASSUME NEW n, NEW L, Sound(n, L), NEW up, Carries(n, L, up),
         NEW B, NEW R, NEW C, Ranked(up, B, R, C),
         NEW v \in Vertex, NEW q, q = Evert(n, v)
  PROVE  \E K, g, B2 : Everted(n, L, up, B, v, q.nodes, q.root, K, g, B2)
<1> DEFINE path == Expose(n, v)
           s == path.nodes
           r == path.root
<1>1. q = ReversePath(path)
  BY DEF Evert
<1>2. path \in Paths /\ \E K : Exposed(n, L, up, B, v, s, r, K)
  BY ExposeIs
<1>3. r \in Vertex
  BY <1>2 DEF Paths
<1>4. PICK M : Exposed(n, L, up, B, v, s, r, M)
  BY <1>2
<1> HIDE DEF path
<1>5. /\ Sound(s, M) /\ Carries(s, M, up) /\ s[r].parent = NoVertex /\ M.hd[r] = M.hd[v]
      /\ LastOf(M, v) /\ M.hd[v] = B[v] /\ up[B[v]] = NoVertex /\ s[B[v]].dparent = NoVertex
      /\ Shape(s, M) /\ \A x \in Vertex : s[x].edges = n[x].edges
  BY <1>4 DEF Exposed, Exposing, Sound
<1>6. s[r].tail = v
  BY <1>3, <1>5, TailIs
<1>7. q.root = r /\ \E K : Flipping(s, M, q.nodes, K, r, v)
  BY <1>1, <1>2, <1>5, <1>6, ReverseIs
<1>8. PICK K : Flipping(s, M, q.nodes, K, r, v)
  BY <1>7
<1> HIDE DEF s, r
<1>9. up \in [Vertex -> Some]
  BY DEF Carries
<1>10. PICK g : Turned(M, up, r, v, g)
  BY <1>3, <1>5, <1>9, TurnedExists
<1> DEFINE B2 == [x \in Vertex |-> IF B[x] = B[v] THEN v ELSE B[x]]
<1>11. \A x \in Vertex : B2[x] = IF B[x] = B[v] THEN v ELSE B[x]
  OBVIOUS
<1>12. /\ TreeEdges(g) = TreeEdges(up)
       /\ \E R2, C2 : Ranked(g, B2, R2, C2)
       /\ \A w \in Vertex : up[v] = w \/ up[w] = v => g[w] = v
  <2>1. B2 \in [Vertex -> Vertex]
    BY DEF Ranked
  <2> HIDE DEF B2
  <2> QED
    BY <2>1, <1>3, <1>5, <1>10, <1>11, TurnedTree
<1> HIDE DEF B2
<1>13. Carries(q.nodes, K, g)
  BY <1>3, <1>5, <1>8, <1>10, ReverseCarries
<1>14. /\ Sound(q.nodes, K) /\ q.nodes[r].parent = NoVertex
       /\ \A x \in Vertex : M.hd[x] = M.hd[r] => K.hd[x] = v /\ K.pos[x] = -M.pos[x]
       /\ \A x \in Vertex : M.hd[x] # M.hd[r] =>
            K.hd[x] = M.hd[x] /\ K.pos[x] = M.pos[x] /\ q.nodes[x] = s[x]
       /\ \A x \in Vertex : q.nodes[x].edges = s[x].edges
       /\ \A S \in SUBSET Vertex : Caches(s, M, S) => Caches(q.nodes, K, S)
  BY <1>8 DEF Flipping
<1>15. K.hd[r] = v /\ K.hd[v] = v /\ g[v] = NoVertex
  BY <1>3, <1>5, <1>10, <1>14 DEF Turned
<1>16. ASSUME NEW w \in Vertex, up[v] = w PROVE w \in NextOf(K, v)
  <2>1. v # M.hd[v]
    BY <1>5, <1>16, LctAssumption
  <2>2. M.hd[w] = M.hd[v] /\ M.pos[w] = M.pos[v] - 1
    BY <2>1, <1>5, <1>16 DEF Carries
  <2>3. M.pos[v] \in Int
    BY <1>5, HeadFirst
  <2>4. K.hd[w] = K.hd[v] /\ K.pos[w] = K.pos[v] + 1
    BY <2>2, <2>3, <1>5, <1>14
  <2> QED
    BY <2>4 DEF NextOf
<1>17. ASSUME NEW x \in Vertex, B[x] # B[v]
       PROVE  /\ q.nodes[x] = n[x] /\ K.hd[x] = L.hd[x] /\ K.pos[x] = L.pos[x]
              /\ g[x] = up[x]
  <2>1. M.hd[x] # M.hd[v]
    BY <1>5, <1>17, PathDown
  <2>2. s[x] = n[x] /\ M.hd[x] = L.hd[x] /\ M.pos[x] = L.pos[x]
    BY <1>4, <1>17 DEF Exposed, Exposing
  <2>3. q.nodes[x] = s[x] /\ K.hd[x] = M.hd[x] /\ K.pos[x] = M.pos[x]
    BY <2>1, <1>5, <1>14
  <2>4. g[x] = up[x]
    BY <2>1, <1>5, <1>10 DEF Turned
  <2> QED
    BY <2>2, <2>3, <2>4
<1>18. ASSUME NEW S \in SUBSET Vertex, Caches(n, L, S)
       PROVE  Caches(q.nodes, K, S \ ({v} \cup NextOf(L, v)))
  BY <1>4, <1>14, <1>18 DEF Exposed, Exposing
<1>19. \A x \in Vertex : q.nodes[x].edges = n[x].edges
  BY <1>5, <1>14
<1>20. Everted(n, L, up, B, v, q.nodes, q.root, K, g, B2)
  BY <1>3, <1>7, <1>11, <1>12, <1>13, <1>14, <1>15, <1>16, <1>17, <1>18, <1>19 DEF Everted
<1> QED
  BY <1>20

-----------------------------------------------------------------------------
(* The edges of a node.                                                    *)

\* What the map edges of a node may hold.
EdgeMaps == UNION {[F -> Weight] : F \in SUBSET Edge}

\* The map edges of a node is set.
SetEdges(n, x, f) == [n EXCEPT ![x].edges = f]

\* f gives the preferred edges of x the weights that they have.
SameOn(n, L, x, f) ==
  \A e \in Beside(L, x) : /\ e \in DOMAIN f <=> e \in DOMAIN n[x].edges
                          /\ e \in DOMAIN f => f[e] = n[x].edges[e]

\* A change of the edges of one node.
SettingEdges(n, L, h, f, m) ==
  /\ Sound(m, L) /\ m[h].edges = f
  /\ \A x \in Vertex : /\ m[x].parent = n[x].parent /\ m[x].dparent = n[x].dparent
                       /\ x # h => m[x] = n[x]
  /\ \A S \in SUBSET Vertex : Caches(n, L, S) => Caches(m, L, S \cup {h})
  /\ SameOn(n, L, h, f) => \A S \in SUBSET Vertex : Caches(n, L, S) => Caches(m, L, S)

\* What stays when the edges of one node are set.
LEMMA SetEdgesIs ==
  ASSUME NEW n, NEW L, Sound(n, L), NEW h \in Vertex, NEW f \in EdgeMaps,
         NEW m, m = SetEdges(n, h, f)
  PROVE  SettingEdges(n, L, h, f, m)
<1> DEFINE r == [n[h] EXCEPT !.edges = f]
<1>1. n \in Nodes /\ Shape(n, L)
  BY DEF Sound, Shape
<1>2. n[h] \in Node
  BY <1>1, NodeFields
<1>3. m = [n EXCEPT ![h] = r]
  BY DEF SetEdges
<1>4. /\ r \in Node /\ r.left = n[h].left /\ r.right = n[h].right /\ r.parent = n[h].parent
      /\ r.reversed = n[h].reversed /\ r.dparent = n[h].dparent /\ r.preferred = n[h].preferred
      /\ r.edges = f /\ r.max = n[h].max /\ r.head = n[h].head /\ r.tail = n[h].tail
  BY <1>2 DEF Node, EdgeMaps
<1> HIDE DEF r
<1>5. m \in Nodes /\ m[h] = r /\ \A x \in Vertex \ {h} : m[x] = n[x]
  BY <1>1, <1>3, <1>4 DEF Nodes
<1>6. \A x \in Vertex : /\ m[x].parent = n[x].parent /\ m[x].dparent = n[x].dparent
                        /\ m[x].head = n[x].head /\ m[x].tail = n[x].tail
                        /\ m[x].preferred = n[x].preferred /\ m[x].max = n[x].max
                        /\ x # h => m[x] = n[x]
  BY <1>4, <1>5
<1>7. SamePointers(n, m)
  BY <1>4, <1>5 DEF SamePointers
<1>8. Shape(m, L)
  BY <1>1, <1>7, ShapeStays
<1>9. Slots(m, L)
  BY <1>6 DEF Sound, Slots, Holds, Taken
<1>10. Rooted(m, L)
  BY <1>6 DEF Sound, Rooted, Ends
<1>11. Sound(m, L)
  BY <1>8, <1>9, <1>10 DEF Sound
<1>12. \A u \in Vertex : u # h => Own(m, u) = Own(n, u)
  BY <1>6 DEF Own
<1>13. ASSUME NEW x \in Vertex, Heaviest(n, L, x), ~Within(L, h, x) \/ Own(m, h) = Own(n, h)
       PROVE  Heaviest(m, L, x)
  <2>1. m[x].max = n[x].max
    BY <1>6
  <2>2. \A u \in Vertex : Within(L, u, x) => Own(m, u) = Own(n, u)
    BY <1>12, <1>13
  <2> QED
    BY <2>1, <2>2, <1>13 DEF Heaviest
<1>14. ASSUME NEW S \in SUBSET Vertex, Caches(n, L, S) PROVE Caches(m, L, S \cup {h})
  BY <1>13, <1>14 DEF Caches
<1>15. ASSUME SameOn(n, L, h, f), NEW S \in SUBSET Vertex, Caches(n, L, S)
       PROVE  Caches(m, L, S)
  <2> DEFINE p == {n[h].preferred[1], n[h].preferred[2]}
  <2>1. p \ {NoEdge} = Beside(L, h)
    BY DEF Sound, Slots, Holds, Taken
  <2>2. DOMAIN n[h].edges \subseteq Edge /\ DOMAIN f \subseteq Edge /\ NoEdge \notin Edge
    BY <1>1, NodeFields, NoEdgeIs DEF EdgeMaps
  <2>3. Own(n, h) = {<<n[h].edges[e], e>> : e \in p \cap DOMAIN n[h].edges}
    BY DEF Own
  <2>4. Own(m, h) = {<<f[e], e>> : e \in p \cap DOMAIN f}
    BY <1>4, <1>5 DEF Own
  <2> HIDE DEF p
  <2>5. \A e \in p : /\ e \in DOMAIN f <=> e \in DOMAIN n[h].edges
                     /\ e \in DOMAIN f => f[e] = n[h].edges[e]
    BY <2>1, <2>2, <1>15 DEF SameOn
  <2>6. Own(m, h) = Own(n, h)
    BY <2>3, <2>4, <2>5
  <2> QED
    BY <2>6, <1>13, <1>15 DEF Caches
<1> QED
  BY <1>4, <1>5, <1>6, <1>11, <1>14, <1>15 DEF SettingEdges

-----------------------------------------------------------------------------
(* The calls.                                                              *)

\* The nodes know the edges of the trees that they are ends of, and agree about
\* the weights.
Weighed(n, F) ==
  /\ \A x \in Vertex : DOMAIN n[x].edges = {e \in F : x \in e}
  /\ \A x, y \in Vertex, e \in F : x \in e /\ y \in e => n[x].edges[e] = n[y].edges[e]

\* The inductive invariant: L is the layout of the paths, up the way up in the
\* trees, B gives the root of each tree.
Whole(n, L, up, B) ==
  /\ Sound(n, L) /\ Carries(n, L, up) /\ \E R, C : Ranked(up, B, R, C)
  /\ Caches(n, L, {}) /\ Weighed(n, TreeEdges(up))

\* The nodes carry the forest F.
Carry(n, F) == \E L, up, B : Whole(n, L, up, B) /\ TreeEdges(up) = F

\* The edges of trees are edges.
LEMMA TreeEdgesIn ==
  ASSUME NEW up \in [Vertex -> Some], NEW B, NEW R, NEW C, Ranked(up, B, R, C)
  PROVE  TreeEdges(up) \subseteq Edge
<1> SUFFICES ASSUME NEW x \in Vertex, up[x] # NoVertex PROVE {x, up[x]} \in Edge
  BY DEF TreeEdges
<1>1. up[x] \in Vertex
  BY DEF Some
<1>2. C \in Nat /\ R \in [Vertex -> 0 .. C] /\ R[up[x]] < R[x]
  BY DEF Ranked
<1>3. up[x] # x
  BY <1>2
<1> QED
  BY <1>1, <1>3 DEF Edge

\* Exposing keeps the invariant, and all of the forest.
LEMMA ExposeKeeps ==
  ASSUME NEW n, NEW L, NEW up, NEW B, Whole(n, L, up, B), NEW v \in Vertex,
         NEW q, q = Expose(n, v)
  PROVE  /\ q \in Paths
         /\ \E K : Exposed(n, L, up, B, v, q.nodes, q.root, K) /\ Whole(q.nodes, K, up, B)
<1>1. PICK R, C : Ranked(up, B, R, C)
  BY DEF Whole
<1>2. q \in Paths /\ \E K : Exposed(n, L, up, B, v, q.nodes, q.root, K)
  BY <1>1, ExposeIs DEF Whole
<1>3. PICK K : Exposed(n, L, up, B, v, q.nodes, q.root, K)
  BY <1>2
<1>4. Caches(q.nodes, K, {})
  <2>1. Caches(n, L, {}) /\ {} \in SUBSET Vertex
    BY DEF Whole
  <2>2. Caches(q.nodes, K, {} \ ({v} \cup NextOf(L, v)))
    BY <2>1, <1>3 DEF Exposed, Exposing
  <2>3. {} \ ({v} \cup NextOf(L, v)) = {}
    OBVIOUS
  <2> QED
    BY <2>2, <2>3
<1>5. Weighed(q.nodes, TreeEdges(up))
  BY <1>3 DEF Whole, Weighed, Exposed, Exposing
<1>6. Whole(q.nodes, K, up, B)
  BY <1>1, <1>3, <1>4, <1>5 DEF Whole, Exposed, Exposing
<1> QED
  BY <1>2, <1>3, <1>6

\* Everting keeps the invariant, and the edges of the forest.
LEMMA EvertKeeps ==
  ASSUME NEW n, NEW L, NEW up, NEW B, Whole(n, L, up, B), NEW v \in Vertex,
         NEW q, q = Evert(n, v)
  PROVE  \E K, g, B2 : /\ Everted(n, L, up, B, v, q.nodes, q.root, K, g, B2)
                       /\ Whole(q.nodes, K, g, B2)
<1>1. PICK R, C : Ranked(up, B, R, C)
  BY DEF Whole
<1>2. PICK K, g, B2 : Everted(n, L, up, B, v, q.nodes, q.root, K, g, B2)
  BY <1>1, EvertIs DEF Whole
<1>3. Caches(q.nodes, K, {})
  <2>1. Caches(n, L, {}) /\ {} \in SUBSET Vertex
    BY DEF Whole
  <2>2. Caches(q.nodes, K, {} \ ({v} \cup NextOf(L, v)))
    BY <2>1, <1>2 DEF Everted
  <2>3. {} \ ({v} \cup NextOf(L, v)) = {}
    OBVIOUS
  <2> QED
    BY <2>2, <2>3
<1>4. TreeEdges(g) = TreeEdges(up)
  BY <1>2 DEF Everted
<1>5. Weighed(q.nodes, TreeEdges(g))
  BY <1>2, <1>4 DEF Whole, Weighed, Everted
<1>6. Whole(q.nodes, K, g, B2)
  BY <1>2, <1>3, <1>5 DEF Whole, Everted
<1> QED
  BY <1>2, <1>6

\* A map with one edge more, or one edge less.
PutEdge(f, e, weight) == [d \in DOMAIN f \cup {e} |-> IF d = e THEN weight ELSE f[d]]
DropEdge(f, e) == [d \in DOMAIN f \ {e} |-> f[d]]

\* What an edge map becomes.
LEMMA EdgeMapsAre ==
  ASSUME NEW f \in EdgeMaps, NEW e \in Edge
  PROVE  /\ \A weight \in Weight : PutEdge(f, e, weight) \in EdgeMaps
         /\ DropEdge(f, e) \in EdgeMaps
<1>1. PICK F \in SUBSET Edge : f \in [F -> Weight]
  BY DEF EdgeMaps
<1>2. ASSUME NEW weight \in Weight PROVE PutEdge(f, e, weight) \in [F \cup {e} -> Weight]
  BY <1>1 DEF PutEdge
<1>3. DropEdge(f, e) \in [F \ {e} -> Weight]
  BY <1>1 DEF DropEdge
<1>4. F \cup {e} \in SUBSET Edge /\ F \ {e} \in SUBSET Edge
  OBVIOUS
<1> QED
  BY <1>2, <1>3, <1>4 DEF EdgeMaps

\* Edges that are none of the path do not matter to its maxima.
LEMMA SameOnOthers ==
  ASSUME NEW n, NEW L, NEW x \in Vertex, NEW e, e \notin Beside(L, x), NEW weight
  PROVE  /\ SameOn(n, L, x, PutEdge(n[x].edges, e, weight))
         /\ SameOn(n, L, x, DropEdge(n[x].edges, e))
<1> DEFINE f == n[x].edges
<1>1. SameOn(n, L, x, PutEdge(f, e, weight))
  BY DEF SameOn, PutEdge
<1>2. SameOn(n, L, x, DropEdge(f, e))
  BY DEF SameOn, DropEdge
<1> QED
  BY <1>1, <1>2

\* The node's own ways up are the same when dparent is.
LEMMA CarriesStays ==
  ASSUME NEW n, NEW m, NEW L, NEW up, Carries(n, L, up),
         \A x \in Vertex : m[x].dparent = n[x].dparent
  PROVE  Carries(m, L, up)
BY DEF Carries

\* Nodes whose edges at v and at w, of different paths or neither's, are set.
SettingBoth(n, L, v, w, f, h, m) ==
  /\ Sound(m, L)
  /\ m[v].edges = f /\ m[w].edges = h
  /\ \A x \in Vertex : /\ m[x].dparent = n[x].dparent
                       /\ x \notin {v, w} => m[x].edges = n[x].edges
  /\ \A S \in SUBSET Vertex : Caches(n, L, S) => Caches(m, L, S \cup {v, w})
  /\ SameOn(n, L, v, f) /\ SameOn(n, L, w, h) =>
       \A S \in SUBSET Vertex : Caches(n, L, S) => Caches(m, L, S)

\* Both ends of an edge are told.
LEMMA SettingBothIs ==
  ASSUME NEW n, NEW L, Sound(n, L), NEW v \in Vertex, NEW w \in Vertex, v # w,
         NEW f \in EdgeMaps, NEW h \in EdgeMaps,
         NEW p, p = SetEdges(n, v, f), NEW m, m = SetEdges(p, w, h)
  PROVE  p[w] = n[w] /\ SettingBoth(n, L, v, w, f, h, m)
<1>1. /\ Sound(p, L) /\ p[v].edges = f
      /\ \A x \in Vertex : /\ p[x].parent = n[x].parent /\ p[x].dparent = n[x].dparent
                           /\ x # v => p[x] = n[x]
      /\ \A S \in SUBSET Vertex : Caches(n, L, S) => Caches(p, L, S \cup {v})
      /\ SameOn(n, L, v, f) => \A S \in SUBSET Vertex : Caches(n, L, S) => Caches(p, L, S)
  <2>1. SettingEdges(n, L, v, f, p)
    BY SetEdgesIs
  <2> QED
    BY <2>1 DEF SettingEdges
<1>2. /\ Sound(m, L) /\ m[w].edges = h
      /\ \A x \in Vertex : /\ m[x].parent = p[x].parent /\ m[x].dparent = p[x].dparent
                           /\ x # w => m[x] = p[x]
      /\ \A S \in SUBSET Vertex : Caches(p, L, S) => Caches(m, L, S \cup {w})
      /\ SameOn(p, L, w, h) => \A S \in SUBSET Vertex : Caches(p, L, S) => Caches(m, L, S)
  <2>1. SettingEdges(p, L, w, h, m)
    BY <1>1, SetEdgesIs
  <2> QED
    BY <2>1 DEF SettingEdges
<1>3. p[w] = n[w]
  BY <1>1
<1>4. SameOn(n, L, w, h) => SameOn(p, L, w, h)
  BY <1>3 DEF SameOn
<1>5. ASSUME NEW S \in SUBSET Vertex, Caches(n, L, S) PROVE Caches(m, L, S \cup {v, w})
  <2>1. Caches(p, L, S \cup {v}) /\ S \cup {v} \in SUBSET Vertex
    BY <1>1, <1>5
  <2>2. Caches(m, L, (S \cup {v}) \cup {w})
    BY <2>1, <1>2
  <2>3. (S \cup {v}) \cup {w} = S \cup {v, w}
    OBVIOUS
  <2> QED
    BY <2>2, <2>3
<1>6. SettingBoth(n, L, v, w, f, h, m)
  BY <1>1, <1>2, <1>4, <1>5 DEF SettingBoth
<1> QED
  BY <1>3, <1>6

\* The tree of w below v.
LEMMA LinkedTree ==
  ASSUME NEW up \in [Vertex -> Some], NEW B, NEW R, NEW C, Ranked(up, B, R, C),
         NEW v \in Vertex, NEW w \in Vertex, up[w] = NoVertex, B[v] # w,
         NEW g \in [Vertex -> Some], g[w] = v, \A x \in Vertex \ {w} : g[x] = up[x]
  PROVE  /\ TreeEdges(g) = TreeEdges(up) \cup {{v, w}}
         /\ \E A, R2, C2 : Ranked(g, A, R2, C2)
<1>1. /\ C \in Nat /\ R \in [Vertex -> 0 .. C] /\ B \in [Vertex -> Vertex]
      /\ \A x \in Vertex : up[x] # NoVertex => B[up[x]] = B[x] /\ R[up[x]] < R[x]
      /\ \A x \in Vertex : up[x] = NoVertex => B[x] = x
  BY DEF Ranked
<1>2. \A x \in Vertex : R[x] \in Int /\ 0 <= R[x] /\ R[x] <= C
  BY <1>1
<1>3. NoVertex \notin Vertex
  BY LctAssumption
<1>4. TreeEdges(g) = TreeEdges(up) \cup {{v, w}}
  <2>1. ASSUME NEW e \in TreeEdges(g) PROVE e \in TreeEdges(up) \cup {{v, w}}
    <3>1. PICK x \in Vertex : g[x] # NoVertex /\ e = {x, g[x]}
      BY DEF TreeEdges
    <3>2. CASE x = w
      <4>1. e = {v, w}
        BY <3>1, <3>2
      <4> QED
        BY <4>1
    <3>3. CASE x # w
      BY <3>1, <3>3 DEF TreeEdges
    <3> QED
      BY <3>2, <3>3
  <2>2. ASSUME NEW e \in TreeEdges(up) PROVE e \in TreeEdges(g)
    <3>1. PICK x \in Vertex : up[x] # NoVertex /\ e = {x, up[x]}
      BY DEF TreeEdges
    <3>2. g[x] = up[x]
      BY <3>1
    <3> QED
      BY <3>1, <3>2 DEF TreeEdges
  <2>3. {v, w} \in TreeEdges(g)
    BY TreeEdgesAre
  <2> QED
    BY <2>1, <2>2, <2>3
<1> DEFINE A == [x \in Vertex |-> IF B[x] = w THEN B[v] ELSE B[x]]
           R2 == [x \in Vertex |-> IF B[x] = w THEN R[x] + C + 1 ELSE R[x]]
           C2 == 2 * C + 1
<1>5. \A x \in Vertex : /\ A[x] = IF B[x] = w THEN B[v] ELSE B[x]
                        /\ R2[x] = IF B[x] = w THEN R[x] + C + 1 ELSE R[x]
  OBVIOUS
<1>6. A \in [Vertex -> Vertex] /\ C2 \in Nat /\ R2 \in [Vertex -> 0 .. C2]
  <2>1. \A x \in Vertex : (IF B[x] = w THEN R[x] + C + 1 ELSE R[x]) \in 0 .. C2
    BY <1>1, <1>2
  <2> QED
    BY <2>1, <1>1
<1> HIDE DEF A, R2, C2
<1>7. ASSUME NEW x \in Vertex, g[x] # NoVertex PROVE A[g[x]] = A[x] /\ R2[g[x]] < R2[x]
  <2>1. CASE x = w
    <3>1. B[x] = w /\ g[x] = v
      BY <2>1, <1>1
    <3> QED
      BY <3>1, <1>1, <1>2, <1>5
  <2>2. CASE x # w
    <3>1. g[x] = up[x] /\ g[x] \in Vertex
      BY <2>2, <1>7 DEF Some
    <3>2. B[g[x]] = B[x] /\ R[g[x]] < R[x]
      BY <3>1, <1>1, <1>7
    <3> QED
      BY <3>1, <3>2, <1>1, <1>2, <1>5
  <2> QED
    BY <2>1, <2>2
<1>8. ASSUME NEW x \in Vertex, g[x] = NoVertex PROVE A[x] = x
  <2>1. x # w
    BY <1>3, <1>8
  <2>2. B[x] = x
    BY <2>1, <1>1, <1>8
  <2> QED
    BY <2>1, <2>2, <1>5
<1>9. Ranked(g, A, R2, C2)
  BY <1>6, <1>7, <1>8 DEF Ranked
<1> QED
  BY <1>4, <1>9

\* A pair of vertices of different paths is beside neither.
LEMMA BesideNot ==
  ASSUME NEW L, NEW v \in Vertex, NEW w \in Vertex, L.hd[v] # L.hd[w]
  PROVE  {v, w} \notin Beside(L, v) /\ {v, w} \notin Beside(L, w)
<1>1. ASSUME NEW x, NEW e \in Beside(L, x) PROVE \E y \in Vertex : e = {x, y} /\ L.hd[y] = L.hd[x]
  BY DEF Beside
<1>2. {v, w} \notin Beside(L, v)
  <2> SUFFICES ASSUME {v, w} \in Beside(L, v) PROVE FALSE
    OBVIOUS
  <2>1. PICK y \in Vertex : {v, w} = {v, y} /\ L.hd[y] = L.hd[v]
    BY <1>1
  <2>2. y = w \/ (v = y /\ w = v)
    BY <2>1, PairIsPair
  <2> QED
    BY <2>1, <2>2
<1>3. {v, w} \notin Beside(L, w)
  <2> SUFFICES ASSUME {v, w} \in Beside(L, w) PROVE FALSE
    OBVIOUS
  <2>1. PICK y \in Vertex : {v, w} = {w, y} /\ L.hd[y] = L.hd[w]
    BY <1>1
  <2>2. y = v \/ (v = w /\ w = y)
    BY <2>1, PairIsPair
  <2> QED
    BY <2>1, <2>2
<1> QED
  BY <1>2, <1>3

\* The edges that the nodes know when {v, w} is linked.
Told(n, v, w, weight, m) ==
  \A x \in Vertex :
    m[x].edges = IF x \in {v, w} THEN PutEdge(n[x].edges, {v, w}, weight) ELSE n[x].edges

\* What the nodes know is what the forest has.
LEMMA WeighedTold ==
  ASSUME NEW n, NEW F, Weighed(n, F), NEW v \in Vertex, NEW w \in Vertex,
         NEW weight, NEW m, Told(n, v, w, weight, m), {v, w} \notin F
  PROVE  Weighed(m, F \cup {{v, w}})
<1> DEFINE e == {v, w}
<1>1. \A x \in Vertex : DOMAIN n[x].edges = {d \in F : x \in d}
  BY DEF Weighed
<1>2. ASSUME NEW x \in Vertex
      PROVE  /\ DOMAIN m[x].edges = {d \in F \cup {e} : x \in d}
             /\ \A d \in F : x \in d => m[x].edges[d] = n[x].edges[d]
             /\ x \in e => m[x].edges[e] = weight
  <2>1. CASE x \in {v, w}
    <3>1. m[x].edges = PutEdge(n[x].edges, e, weight)
      BY <2>1 DEF Told
    <3>2. DOMAIN m[x].edges = DOMAIN n[x].edges \cup {e}
      BY <3>1 DEF PutEdge
    <3>3. \A d \in DOMAIN n[x].edges \cup {e} :
             m[x].edges[d] = IF d = e THEN weight ELSE n[x].edges[d]
      BY <3>1 DEF PutEdge
    <3> HIDE DEF e
    <3>4. x \in e
      BY <2>1 DEF e
    <3>5. e \notin F
      BY DEF e
    <3> QED
      BY <3>2, <3>3, <3>4, <3>5, <1>1
  <2>2. CASE x \notin {v, w}
    <3>1. m[x].edges = n[x].edges
      BY <2>2 DEF Told
    <3>2. x \notin e
      BY <2>2
    <3> HIDE DEF e
    <3> QED
      BY <3>1, <3>2, <1>1
  <2> QED
    BY <2>1, <2>2
<1> HIDE DEF e
<1>3. \A x, y \in Vertex, d \in F \cup {e} : x \in d /\ y \in d => m[x].edges[d] = m[y].edges[d]
  BY <1>2 DEF Weighed
<1>4. Weighed(m, F \cup {e})
  BY <1>2, <1>3 DEF Weighed
<1> QED
  BY <1>4 DEF e

\* link puts the edge into the forest, and changes nothing else of it.
LEMMA LinkKeeps ==
  ASSUME NEW n, NEW L, NEW up, NEW B, Whole(n, L, up, B),
         NEW v \in Vertex, NEW w \in Vertex, B[v] # B[w], NEW weight \in Weight,
         NEW m, m = Linked(n, v, w, weight)
  PROVE  /\ Carry(m, TreeEdges(up) \cup {{v, w}})
         /\ Told(n, v, w, weight, m)
<1> DEFINE e == {v, w}
           f == PutEdge(n[v].edges, e, weight)
           p == SetEdges(n, v, f)
           h == PutEdge(p[w].edges, e, weight)
           s == SetEdges(p, w, h)
           a == Expose(s, v)
           b == Evert(a.nodes, w)
           j == Join(b.nodes, a.root, b.root)
<1>1. m = j.nodes
  BY DEF Linked, SetEdges, PutEdge
<1> HIDE DEF j, b, a, s, h, p, f
<1>2. PICK R, C : Ranked(up, B, R, C)
  BY DEF Whole
<1>3. /\ Sound(n, L) /\ Carries(n, L, up) /\ Caches(n, L, {}) /\ Weighed(n, TreeEdges(up))
      /\ Shape(n, L) /\ n \in Nodes /\ up \in [Vertex -> Some]
  BY DEF Whole, Sound, Shape, Carries
<1>4. v # w /\ e \in Edge
  BY DEF Edge
<1>5. L.hd[v] # L.hd[w]
  BY <1>2, <1>3, PathDown
<1>6. e \notin Beside(L, v) /\ e \notin Beside(L, w)
  BY <1>5, BesideNot
<1>7. n[v].edges \in EdgeMaps /\ n[w].edges \in EdgeMaps
  <2>1. \A x \in Vertex : n[x] \in Node
    BY <1>3, NodeFields
  <2> QED
    BY <2>1 DEF Node, EdgeMaps
<1> HIDE DEF e
<1>8. f \in EdgeMaps
  BY <1>4, <1>7, EdgeMapsAre DEF f
<1>9. p[w] = n[w]
  <2>1. SettingEdges(n, L, v, f, p)
    BY <1>3, <1>8, SetEdgesIs DEF p
  <2> QED
    BY <2>1, <1>4 DEF SettingEdges
<1>10. h = PutEdge(n[w].edges, e, weight)
  BY <1>9 DEF h
<1>11. h \in EdgeMaps
  BY <1>4, <1>7, <1>10, EdgeMapsAre
<1>12. SettingBoth(n, L, v, w, f, h, s)
  BY <1>3, <1>4, <1>8, <1>11, SettingBothIs DEF p, s
<1>13. SameOn(n, L, v, f) /\ SameOn(n, L, w, h)
  BY <1>6, <1>10, SameOnOthers DEF f
<1>14. Sound(s, L) /\ Carries(s, L, up) /\ Caches(s, L, {})
  <2>1. {} \in SUBSET Vertex
    OBVIOUS
  <2>2. \A x \in Vertex : s[x].dparent = n[x].dparent
    BY <1>12 DEF SettingBoth
  <2> QED
    BY <2>1, <2>2, <1>3, <1>12, <1>13, CarriesStays DEF SettingBoth
<1>15. a \in Paths /\ \E K : Exposed(s, L, up, B, v, a.nodes, a.root, K)
  BY <1>2, <1>14, ExposeIs DEF a
<1>16. PICK K1 : Exposed(s, L, up, B, v, a.nodes, a.root, K1)
  BY <1>15
<1> DEFINE r1 == a.root
           r2 == b.root
<1>17. /\ Sound(a.nodes, K1) /\ Carries(a.nodes, K1, up) /\ a.nodes[r1].parent = NoVertex
       /\ K1.hd[r1] = K1.hd[v] /\ LastOf(K1, v) /\ K1.hd[v] = B[v] /\ up[B[v]] = NoVertex
       /\ r1 \in Vertex /\ Shape(a.nodes, K1)
       /\ \A x \in Vertex : a.nodes[x].edges = s[x].edges
  BY <1>15, <1>16 DEF Exposed, Exposing, Paths, Sound
<1>18. Caches(a.nodes, K1, {})
  <2>1. {} \in SUBSET Vertex
    OBVIOUS
  <2>2. Caches(a.nodes, K1, {} \ ({v} \cup NextOf(L, v)))
    BY <2>1, <1>14, <1>16 DEF Exposed, Exposing
  <2>3. {} \ ({v} \cup NextOf(L, v)) = {}
    OBVIOUS
  <2> QED
    BY <2>2, <2>3
<1>19. PICK K2, g, B2 : Everted(a.nodes, K1, up, B, w, b.nodes, b.root, K2, g, B2)
  BY <1>2, <1>17, EvertIs DEF b
<1>20. /\ Sound(b.nodes, K2) /\ Carries(b.nodes, K2, g) /\ \E R2, C2 : Ranked(g, B2, R2, C2)
       /\ r2 \in Vertex /\ b.nodes[r2].parent = NoVertex /\ K2.hd[r2] = w /\ K2.hd[w] = w
       /\ g[w] = NoVertex /\ TreeEdges(g) = TreeEdges(up)
       /\ \A x \in Vertex : B2[x] = IF B[x] = B[w] THEN w ELSE B[x]
       /\ \A x \in Vertex : b.nodes[x].edges = a.nodes[x].edges
       /\ \A x \in Vertex : B[x] # B[w] =>
            b.nodes[x] = a.nodes[x] /\ K2.hd[x] = K1.hd[x] /\ K2.pos[x] = K1.pos[x]
       /\ g \in [Vertex -> Some] /\ Shape(b.nodes, K2)
  BY <1>19 DEF Everted, Carries, Sound
<1>21. Caches(b.nodes, K2, {})
  <2>1. {} \in SUBSET Vertex
    OBVIOUS
  <2>2. Caches(b.nodes, K2, {} \ ({w} \cup NextOf(K1, w)))
    BY <2>1, <1>18, <1>19 DEF Everted
  <2>3. {} \ ({w} \cup NextOf(K1, w)) = {}
    OBVIOUS
  <2> QED
    BY <2>2, <2>3
<1> HIDE DEF r1, r2
<1>22. PICK R2, C2 : Ranked(g, B2, R2, C2)
  BY <1>20
<1>23. B[v] # w
  <2>1. B[v] \in Vertex
    BY <1>2 DEF Ranked
  <2>2. B[B[v]] = B[v]
    BY <2>1, <1>2, <1>17 DEF Ranked
  <2> QED
    BY <2>2
<1>24. B2[v] = B[v]
  BY <1>20
<1>25. /\ b.nodes[r1].parent = NoVertex /\ K2.hd[r1] = B[v] /\ K2.hd[v] = B[v]
       /\ K2.pos[v] = K1.pos[v]
  <2>1. B[r1] = B[v]
    BY <1>2, <1>17, PathDown
  <2> QED
    BY <2>1, <1>17, <1>20
<1>26. LastOf(K2, v)
  <2> SUFFICES ASSUME NEW u \in Vertex, K2.hd[u] = K2.hd[v] PROVE K2.pos[u] <= K2.pos[v]
    BY DEF LastOf
  <2>1. B2[u] = B2[v]
    BY <1>20, <1>22, PathDown
  <2>2. B[u] # B[w]
    BY <2>1, <1>20, <1>23, <1>24
  <2>3. K1.hd[u] = K1.hd[v] /\ K2.pos[u] = K1.pos[u]
    BY <2>2, <1>17, <1>20, <1>25
  <2> QED
    BY <2>3, <1>17, <1>25 DEF LastOf
<1>27. b.nodes[r1].tail = v
  BY <1>17, <1>20, <1>25, <1>26, TailIs
<1>28. K2.hd[r2] # K2.hd[r1]
  BY <1>20, <1>23, <1>25
<1>29. j = Join(b.nodes, r1, r2)
  BY DEF j, r1, r2
<1>30. PICK M : Attaching(b.nodes, K2, j.nodes, M, r1, v, w)
  BY <1>17, <1>20, <1>25, <1>27, <1>28, <1>29, JoinIs
<1> DEFINE g2 == [g EXCEPT ![w] = v]
<1>31. g2 \in [Vertex -> Some] /\ g2[w] = v /\ \A x \in Vertex \ {w} : g2[x] = g[x]
  BY <1>20 DEF Some
<1> HIDE DEF g2
<1>32. Carries(j.nodes, M, g2)
  <2>1. K2.hd[v] = K2.hd[r1] /\ w # K2.hd[r1]
    BY <1>23, <1>25
  <2> QED
    BY <2>1, <1>17, <1>20, <1>30, <1>31, JoinCarries
<1>33. /\ TreeEdges(g2) = TreeEdges(g) \cup {{v, w}}
       /\ \E A, R3, C3 : Ranked(g2, A, R3, C3)
  BY <1>20, <1>22, <1>23, <1>24, <1>31, LinkedTree
<1>34. /\ Sound(j.nodes, M) /\ Caches(j.nodes, M, {})
       /\ \A x \in Vertex : j.nodes[x].edges = s[x].edges
  <2>1. {} \in SUBSET Vertex
    OBVIOUS
  <2> QED
    BY <2>1, <1>17, <1>20, <1>21, <1>30 DEF Attaching
<1>35. Told(n, v, w, weight, m)
  <2> SUFFICES ASSUME NEW x \in Vertex
               PROVE m[x].edges = IF x \in {v, w} THEN PutEdge(n[x].edges, {v, w}, weight)
                                  ELSE n[x].edges
    BY DEF Told
  <2>1. m[x].edges = s[x].edges
    BY <1>1, <1>34
  <2>2. s[v].edges = f /\ s[w].edges = h /\ (x \notin {v, w} => s[x].edges = n[x].edges)
    BY <1>12 DEF SettingBoth
  <2> QED
    BY <2>1, <2>2, <1>10 DEF f, e
<1>36. {v, w} \notin TreeEdges(up)
  <2>1. \A x, y \in Vertex : up[x] = y => B[x] = B[y]
    BY <1>2, LctAssumption DEF Ranked
  <2> QED
    BY <2>1, <1>3, TreeEdgesAre
<1>37. Weighed(m, TreeEdges(g2))
  <2>1. Weighed(m, TreeEdges(up) \cup {{v, w}})
    BY <1>3, <1>35, <1>36, WeighedTold
  <2> QED
    BY <2>1, <1>20, <1>33
<1>38. PICK A, R3, C3 : Ranked(g2, A, R3, C3)
  BY <1>33
<1>39. Whole(m, M, g2, A)
  BY <1>1, <1>32, <1>34, <1>37, <1>38 DEF Whole
<1>40. TreeEdges(g2) = TreeEdges(up) \cup {{v, w}}
  BY <1>20, <1>33
<1> QED
  BY <1>35, <1>39, <1>40 DEF Carry

\* w and what is below it.
Descent(up, w) ==
  {x \in Vertex : \A S \in SUBSET Vertex :
     w \in S /\ (\A y \in Vertex : up[y] \in S => y \in S) => x \in S}

\* The tree that w begins when it is taken from below v.
LEMMA CutTree ==
  ASSUME NEW up \in [Vertex -> Some], NEW B, NEW R, NEW C, Ranked(up, B, R, C),
         NEW v \in Vertex, NEW w \in Vertex, up[w] = v,
         NEW g \in [Vertex -> Some], g[w] = NoVertex, \A x \in Vertex \ {w} : g[x] = up[x]
  PROVE  /\ TreeEdges(g) = TreeEdges(up) \ {{v, w}}
         /\ \E A : Ranked(g, A, R, C)
<1>1. /\ C \in Nat /\ R \in [Vertex -> 0 .. C] /\ B \in [Vertex -> Vertex]
      /\ \A x \in Vertex : up[x] # NoVertex => B[up[x]] = B[x] /\ R[up[x]] < R[x]
      /\ \A x \in Vertex : up[x] = NoVertex => B[x] = x
  BY DEF Ranked
<1>2. \A x \in Vertex : R[x] \in Int
  BY <1>1
<1>3. NoVertex \notin Vertex
  BY LctAssumption
<1>4. R[v] < R[w]
  BY <1>1, <1>3
<1>5. TreeEdges(g) = TreeEdges(up) \ {{v, w}}
  <2>1. ASSUME NEW e \in TreeEdges(g) PROVE e \in TreeEdges(up) \ {{v, w}}
    <3>1. PICK x \in Vertex : g[x] # NoVertex /\ e = {x, g[x]}
      BY DEF TreeEdges
    <3>2. x # w /\ g[x] = up[x]
      BY <3>1
    <3>3. e \in TreeEdges(up)
      BY <3>1, <3>2 DEF TreeEdges
    <3>4. e # {v, w}
      <4> SUFFICES ASSUME {x, up[x]} = {v, w} PROVE FALSE
        BY <3>1, <3>2
      <4>1. x = v /\ up[x] = w
        BY <3>2, PairIsPair
      <4>2. R[w] < R[v]
        BY <4>1, <1>1, <1>3
      <4> QED
        BY <4>2, <1>2, <1>4
    <3> QED
      BY <3>3, <3>4
  <2>2. ASSUME NEW e \in TreeEdges(up), e # {v, w} PROVE e \in TreeEdges(g)
    <3>1. PICK x \in Vertex : up[x] # NoVertex /\ e = {x, up[x]}
      BY DEF TreeEdges
    <3>2. x # w
      <4> SUFFICES ASSUME x = w PROVE e = {v, w}
        BY <2>2
      <4> QED
        BY <3>1
    <3>3. g[x] = up[x]
      BY <3>2
    <3> QED
      BY <3>1, <3>3 DEF TreeEdges
  <2> QED
    BY <2>1, <2>2
<1> DEFINE D == Descent(up, w)
<1>6. D \in SUBSET Vertex /\ w \in D
  BY DEF Descent
<1>7. \A y \in Vertex : up[y] \in D => y \in D
  BY DEF Descent
<1>8. \A S \in SUBSET Vertex : w \in S /\ (\A y \in Vertex : up[y] \in S => y \in S) => D \subseteq S
  BY DEF Descent
<1> HIDE DEF D
<1>9. ASSUME NEW x \in D, x # w PROVE up[x] \in D
  <2> SUFFICES ASSUME up[x] \notin D PROVE FALSE
    OBVIOUS
  <2> DEFINE S == D \ {x}
  <2>1. S \in SUBSET Vertex /\ w \in S
    BY <1>6, <1>9
  <2>2. \A y \in Vertex : up[y] \in S => y \in S
    BY <1>7
  <2>3. D \subseteq S
    BY <2>1, <2>2, <1>8
  <2> QED
    BY <2>3
<1> DEFINE A == [x \in Vertex |-> IF x \in D THEN w ELSE B[x]]
<1>10. A \in [Vertex -> Vertex] /\ \A x \in Vertex : A[x] = IF x \in D THEN w ELSE B[x]
  BY <1>1
<1> HIDE DEF A
<1>11. ASSUME NEW x \in Vertex, g[x] # NoVertex PROVE A[g[x]] = A[x] /\ R[g[x]] < R[x]
  <2>1. x # w /\ g[x] = up[x] /\ g[x] \in Vertex
    BY <1>11 DEF Some
  <2>2. B[g[x]] = B[x] /\ R[g[x]] < R[x]
    BY <2>1, <1>1, <1>11
  <2>3. g[x] \in D <=> x \in D
    BY <2>1, <1>7, <1>9
  <2> QED
    BY <2>1, <2>2, <2>3, <1>10
<1>12. ASSUME NEW x \in Vertex, g[x] = NoVertex PROVE A[x] = x
  <2>1. CASE x = w
    BY <2>1, <1>6, <1>10
  <2>2. CASE x # w
    <3>1. up[x] = NoVertex /\ B[x] = x
      BY <2>2, <1>1, <1>12
    <3>2. x \notin D
      BY <2>2, <3>1, <1>3, <1>6, <1>9
    <3> QED
      BY <3>1, <3>2, <1>10
  <2> QED
    BY <2>1, <2>2
<1>13. Ranked(g, A, R, C)
  BY <1>1, <1>10, <1>11, <1>12 DEF Ranked
<1> QED
  BY <1>5, <1>13

\* The edges that the nodes know when {v, w} is cut.
Untold(n, v, w, m) ==
  \A x \in Vertex :
    m[x].edges = IF x \in {v, w} THEN DropEdge(n[x].edges, {v, w}) ELSE n[x].edges

\* What the nodes know is what the forest has.
LEMMA WeighedUntold ==
  ASSUME NEW n, NEW F, Weighed(n, F), NEW v \in Vertex, NEW w \in Vertex,
         NEW m, Untold(n, v, w, m)
  PROVE  Weighed(m, F \ {{v, w}})
<1> DEFINE e == {v, w}
<1>1. \A x \in Vertex : DOMAIN n[x].edges = {d \in F : x \in d}
  BY DEF Weighed
<1>2. ASSUME NEW x \in Vertex
      PROVE  /\ DOMAIN m[x].edges = {d \in F \ {e} : x \in d}
             /\ \A d \in F \ {e} : x \in d => m[x].edges[d] = n[x].edges[d]
  <2>1. CASE x \in {v, w}
    <3>1. m[x].edges = DropEdge(n[x].edges, e)
      BY <2>1 DEF Untold
    <3>2. DOMAIN m[x].edges = DOMAIN n[x].edges \ {e}
      BY <3>1 DEF DropEdge
    <3>3. \A d \in DOMAIN n[x].edges \ {e} : m[x].edges[d] = n[x].edges[d]
      BY <3>1 DEF DropEdge
    <3> HIDE DEF e
    <3> QED
      BY <3>2, <3>3, <1>1
  <2>2. CASE x \notin {v, w}
    <3>1. m[x].edges = n[x].edges
      BY <2>2 DEF Untold
    <3>2. x \notin e
      BY <2>2
    <3> HIDE DEF e
    <3> QED
      BY <3>1, <3>2, <1>1
  <2> QED
    BY <2>1, <2>2
<1> HIDE DEF e
<1>3. \A x, y \in Vertex, d \in F \ {e} : x \in d /\ y \in d => m[x].edges[d] = m[y].edges[d]
  BY <1>2 DEF Weighed
<1>4. Weighed(m, F \ {e})
  BY <1>2, <1>3 DEF Weighed
<1> QED
  BY <1>4 DEF e

\* cut takes the edge from the forest, and changes nothing else of it.
LEMMA CutKeeps ==
  ASSUME NEW n, NEW L, NEW up, NEW B, Whole(n, L, up, B),
         NEW v \in Vertex, NEW w \in Vertex, {v, w} \in TreeEdges(up),
         NEW m, m = WithoutEdge(n, v, w)
  PROVE  /\ Carry(m, TreeEdges(up) \ {{v, w}})
         /\ Untold(n, v, w, m)
<1> DEFINE e == {v, w}
           f == DropEdge(n[v].edges, e)
           p == SetEdges(n, v, f)
           h == DropEdge(p[w].edges, e)
           s == SetEdges(p, w, h)
           a == Evert(s, v)
           b == Expose(a.nodes, v)
<1>1. m = SetDparent(b.nodes, w, NoVertex)
  BY DEF WithoutEdge, DropEdge, SetEdges, SetDparent
<1> HIDE DEF b, a, s, h, p, f
<1>2. PICK R, C : Ranked(up, B, R, C)
  BY DEF Whole
<1>3. /\ Sound(n, L) /\ Carries(n, L, up) /\ Caches(n, L, {}) /\ Weighed(n, TreeEdges(up))
      /\ Shape(n, L) /\ n \in Nodes /\ up \in [Vertex -> Some]
  BY DEF Whole, Sound, Shape, Carries
<1>4. e \in Edge
  BY <1>2, <1>3, TreeEdgesIn
<1>5. v # w
  <2> SUFFICES ASSUME v = w PROVE FALSE
    OBVIOUS
  <2>1. PICK x, y \in Vertex : x # y /\ e = {x, y}
    BY <1>4, EdgeEnds
  <2>2. x = v /\ y = v
    BY <2>1
  <2> QED
    BY <2>1, <2>2
<1>6. up[v] = w \/ up[w] = v
  BY <1>3, TreeEdgesAre
<1>7. n[v].edges \in EdgeMaps /\ n[w].edges \in EdgeMaps
  <2>1. \A x \in Vertex : n[x] \in Node
    BY <1>3, NodeFields
  <2> QED
    BY <2>1 DEF Node, EdgeMaps
<1> HIDE DEF e
<1>8. f \in EdgeMaps
  BY <1>4, <1>7, EdgeMapsAre DEF f
<1>9. p[w] = n[w]
  <2>1. SettingEdges(n, L, v, f, p)
    BY <1>3, <1>8, SetEdgesIs DEF p
  <2> QED
    BY <2>1, <1>5 DEF SettingEdges
<1>10. h = DropEdge(n[w].edges, e)
  BY <1>9 DEF h
<1>11. h \in EdgeMaps
  BY <1>4, <1>7, <1>10, EdgeMapsAre
<1>12. SettingBoth(n, L, v, w, f, h, s)
  BY <1>3, <1>5, <1>8, <1>11, SettingBothIs DEF p, s
<1>13. PICK S \in SUBSET Vertex : /\ Caches(s, L, S)
                                  /\ S = {} \/ (S = {v, w} /\ e \in Beside(L, v))
  <2>1. {} \in SUBSET Vertex
    OBVIOUS
  <2>2. CASE e \in Beside(L, v)
    <3>1. Caches(s, L, {} \cup {v, w})
      BY <2>1, <1>3, <1>12 DEF SettingBoth
    <3>2. {} \cup {v, w} = {v, w} /\ {v, w} \in SUBSET Vertex
      OBVIOUS
    <3> QED
      BY <2>2, <3>1, <3>2
  <2>3. CASE e \notin Beside(L, v)
    <3>1. e \notin Beside(L, w)
      <4> SUFFICES ASSUME {v, w} \in Beside(L, w) PROVE e \in Beside(L, v)
        BY <2>3 DEF e
      <4>1. PICK y \in Vertex : /\ {v, w} = {w, y} /\ L.hd[y] = L.hd[w]
                                /\ L.pos[y] = L.pos[w] + 1 \/ L.pos[y] = L.pos[w] - 1
        BY DEF Beside
      <4>2. y = v
        BY <4>1, <1>5, PairIsPair
      <4>3. L.pos[v] \in Int /\ L.pos[w] \in Int
        BY <1>3, HeadFirst
      <4>4. L.hd[w] = L.hd[v] /\ (L.pos[w] = L.pos[v] + 1 \/ L.pos[w] = L.pos[v] - 1)
        BY <4>1, <4>2, <4>3
      <4> QED
        BY <4>4 DEF Beside, e
    <3>2. SameOn(n, L, v, f) /\ SameOn(n, L, w, h)
      BY <2>3, <3>1, <1>10, SameOnOthers DEF f
    <3> QED
      BY <2>1, <3>2, <1>3, <1>12 DEF SettingBoth
  <2> QED
    BY <2>2, <2>3
<1>14. Sound(s, L) /\ Carries(s, L, up)
  <2>1. \A x \in Vertex : s[x].dparent = n[x].dparent
    BY <1>12 DEF SettingBoth
  <2> QED
    BY <2>1, <1>3, <1>12, CarriesStays DEF SettingBoth
<1>15. PICK K1, g, B1 : Everted(s, L, up, B, v, a.nodes, a.root, K1, g, B1)
  BY <1>2, <1>14, EvertIs DEF a
<1>16. /\ Sound(a.nodes, K1) /\ Carries(a.nodes, K1, g) /\ \E R2, C2 : Ranked(g, B1, R2, C2)
       /\ g[v] = NoVertex /\ TreeEdges(g) = TreeEdges(up) /\ B1[v] = v /\ g[w] = v
       /\ (up[v] = w => w \in NextOf(K1, v))
       /\ \A x \in Vertex : a.nodes[x].edges = s[x].edges
       /\ Caches(a.nodes, K1, S \ ({v} \cup NextOf(L, v)))
       /\ g \in [Vertex -> Some]
  BY <1>6, <1>13, <1>15 DEF Everted, Carries
<1>17. PICK R2, C2 : Ranked(g, B1, R2, C2)
  BY <1>16
<1>18. PICK K2 : Exposed(a.nodes, K1, g, B1, v, b.nodes, b.root, K2)
  BY <1>16, <1>17, ExposeIs DEF b
<1>19. /\ Sound(b.nodes, K2) /\ Carries(b.nodes, K2, g) /\ LastOf(K2, v) /\ K2.hd[v] = v
       /\ \A x \in Vertex : b.nodes[x].edges = a.nodes[x].edges
       /\ Shape(b.nodes, K2)
  BY <1>16, <1>18 DEF Exposed, Exposing, Sound
<1>20. Caches(b.nodes, K2, {})
  <2> DEFINE T == S \ ({v} \cup NextOf(L, v))
             U == T \ ({v} \cup NextOf(K1, v))
  <2>1. T \in SUBSET Vertex
    OBVIOUS
  <2>2. Caches(b.nodes, K2, U)
    BY <2>1, <1>16, <1>18 DEF Exposed, Exposing
  <2>3. U = {}
    <3>1. CASE S = {}
      BY <3>1
    <3>2. CASE S = {v, w} /\ e \in Beside(L, v)
      <4>1. PICK y \in Vertex : /\ {v, w} = {v, y} /\ L.hd[y] = L.hd[v]
                                /\ L.pos[y] = L.pos[v] + 1 \/ L.pos[y] = L.pos[v] - 1
        BY <3>2 DEF Beside, e
      <4>2. y = w
        BY <4>1, <1>5, PairIsPair
      <4>3. CASE L.pos[w] = L.pos[v] + 1
        <5>1. w \in NextOf(L, v)
          BY <4>1, <4>2, <4>3 DEF NextOf
        <5> QED
          BY <5>1, <3>2
      <4>4. CASE L.pos[w] = L.pos[v] - 1
        <5>1. v # L.hd[v]
          BY <4>1, <4>2, <4>4, <1>3, HeadFirst
        <5>2. /\ up[v] \in Vertex /\ L.hd[up[v]] = L.hd[v] /\ L.pos[up[v]] = L.pos[w]
          BY <5>1, <4>4, <1>3 DEF Carries
        <5>3. up[v] = w
          BY <5>2, <4>1, <4>2, <1>3 DEF Shape, Spans
        <5>4. w \in NextOf(K1, v)
          BY <5>3, <1>16
        <5> QED
          BY <5>4, <3>2
      <4> QED
        BY <4>1, <4>2, <4>3, <4>4
    <3> QED
      BY <3>1, <3>2, <1>13
  <2> QED
    BY <2>2, <2>3
<1>21. w = K2.hd[w]
  <2> SUFFICES ASSUME w # K2.hd[w] PROVE FALSE
    OBVIOUS
  <2>1. K2.hd[w] = K2.hd[v] /\ K2.pos[v] = K2.pos[w] - 1
    BY <1>16, <1>19 DEF Carries
  <2>2. K2.pos[w] <= K2.pos[v] /\ K2.pos[w] \in Int
    BY <2>1, <1>19, HeadFirst DEF LastOf
  <2> QED
    BY <2>1, <2>2
<1>22. /\ Sound(m, K2) /\ m[w].dparent = NoVertex
       /\ \A x \in Vertex : m[x].edges = b.nodes[x].edges /\ (x # w => m[x] = b.nodes[x])
       /\ \A T \in SUBSET Vertex : Caches(b.nodes, K2, T) => Caches(m, K2, T)
  <2>1. NoVertex \in Some
    BY DEF Some
  <2> QED
    BY <2>1, <1>1, <1>19, SetDparentIs
<1> DEFINE g2 == [g EXCEPT ![w] = NoVertex]
<1>23. g2 \in [Vertex -> Some] /\ g2[w] = NoVertex /\ \A x \in Vertex \ {w} : g2[x] = g[x]
  BY <1>16 DEF Some
<1> HIDE DEF g2
<1>24. Carries(m, K2, g2)
  <2>1. ASSUME NEW x \in Vertex, x = K2.hd[x] PROVE g2[x] = m[x].dparent
    BY <2>1, <1>19, <1>22, <1>23 DEF Carries
  <2>2. ASSUME NEW x \in Vertex, x # K2.hd[x]
        PROVE  /\ g2[x] \in Vertex /\ K2.hd[g2[x]] = K2.hd[x] /\ K2.pos[g2[x]] = K2.pos[x] - 1
               /\ m[x].dparent = NoVertex
    <3>1. x # w
      BY <2>2, <1>21
    <3> QED
      BY <2>2, <3>1, <1>19, <1>22, <1>23 DEF Carries
  <2> QED
    BY <2>1, <2>2, <1>23 DEF Carries
<1>25. TreeEdges(g2) = TreeEdges(g) \ {{v, w}} /\ \E A : Ranked(g2, A, R2, C2)
  BY <1>16, <1>17, <1>23, CutTree
<1>26. Untold(n, v, w, m)
  <2> SUFFICES ASSUME NEW x \in Vertex
               PROVE m[x].edges = IF x \in {v, w} THEN DropEdge(n[x].edges, {v, w})
                                  ELSE n[x].edges
    BY DEF Untold
  <2>1. m[x].edges = s[x].edges
    BY <1>16, <1>19, <1>22
  <2>2. s[v].edges = f /\ s[w].edges = h /\ (x \notin {v, w} => s[x].edges = n[x].edges)
    BY <1>12 DEF SettingBoth
  <2> QED
    BY <2>1, <2>2, <1>10 DEF f, e
<1>27. TreeEdges(g2) = TreeEdges(up) \ {{v, w}}
  BY <1>16, <1>25
<1>28. Weighed(m, TreeEdges(g2))
  <2>1. Weighed(m, TreeEdges(up) \ {{v, w}})
    BY <1>3, <1>26, WeighedUntold
  <2> QED
    BY <2>1, <1>27
<1>29. Caches(m, K2, {})
  <2>1. {} \in SUBSET Vertex
    OBVIOUS
  <2> QED
    BY <2>1, <1>20, <1>22
<1>30. PICK A : Ranked(g2, A, R2, C2)
  BY <1>25
<1>31. Whole(m, K2, g2, A)
  BY <1>22, <1>24, <1>28, <1>29, <1>30 DEF Whole
<1> QED
  BY <1>26, <1>27, <1>31 DEF Carry

-----------------------------------------------------------------------------
(* The order of a path.                                                    *)

\* The vertices at the positions from a to b, in both directions.
Fore(L, h, a, b) == [i \in 1 .. b - a + 1 |-> At(L, h, a + i - 1)]
\* The vertices of a path from position b back to a.
Back(L, h, a, b) == [i \in 1 .. b - a + 1 |-> At(L, h, b - i + 1)]

\* There is a vertex at each of them.
Filled(L, h, a, b) == \A i \in Int : a <= i /\ i <= b => At(L, h, i) \in Vertex

\* u is s, of length a, followed by t, of length b.
Concat(S, a, b, s, t, u) ==
  /\ u \in [1 .. a + b -> S]
  /\ \A i \in 1 .. a + b : u[i] = IF i <= a THEN s[i] ELSE t[i - a]

\* Sequences put behind one another.
LEMMA ConcatIs ==
  ASSUME NEW S, NEW a \in Nat, NEW b \in Nat, NEW s \in [1 .. a -> S], NEW t \in [1 .. b -> S]
  PROVE  Concat(S, a, b, s, t, s \o t)
<1>1. s \in Seq(S) /\ t \in Seq(S) /\ Len(s) = a /\ Len(t) = b
  <2>1. s \in Seq(S) /\ t \in Seq(S)
    OBVIOUS
  <2>2. DOMAIN s = 1 .. a /\ DOMAIN t = 1 .. b
    OBVIOUS
  <2> QED
    BY <2>1, <2>2, LenProperties
<1>2. /\ s \o t \in Seq(S)
      /\ Len(s \o t) = a + b
      /\ \A i \in 1 .. a + b : (s \o t)[i] = IF i <= a THEN s[i] ELSE t[i - a]
  BY <1>1, ConcatProperties
<1>3. s \o t \in [1 .. a + b -> S]
  BY <1>2, LenProperties
<1> QED
  BY <1>2, <1>3 DEF Concat

\* Two parts of a run with a vertex between them.
LEMMA ForeIs ==
  ASSUME NEW L, NEW h, NEW a \in Int, NEW b \in Int, NEW p \in Int, a <= p, p <= b,
         Filled(L, h, a, b),
         NEW x, x = At(L, h, p)
  PROVE  (Fore(L, h, a, p - 1) \o <<x>>) \o Fore(L, h, p + 1, b) = Fore(L, h, a, b)
<1> DEFINE s == Fore(L, h, a, p - 1)
           t == Fore(L, h, p + 1, b)
           u == Fore(L, h, a, b)
           y == <<x>>
           k == p - a
           l == b - p
<1>1. k \in Nat /\ l \in Nat
  OBVIOUS
<1>2. /\ s \in [1 .. k -> Vertex]
      /\ \A i \in 1 .. k : s[i] = At(L, h, a + i - 1)
  <2>1. (p - 1) - a + 1 = k
    OBVIOUS
  <2>2. \A i \in 1 .. k : At(L, h, a + i - 1) \in Vertex
    BY DEF Filled
  <2>3. s = [i \in 1 .. k |-> At(L, h, a + i - 1)]
    BY <2>1 DEF Fore
  <2> QED
    BY <2>2, <2>3
<1>3. /\ t \in [1 .. l -> Vertex]
      /\ \A i \in 1 .. l : t[i] = At(L, h, p + 1 + i - 1)
  <2>1. b - (p + 1) + 1 = l
    OBVIOUS
  <2>2. \A i \in 1 .. l : At(L, h, p + 1 + i - 1) \in Vertex
    BY DEF Filled
  <2>3. t = [i \in 1 .. l |-> At(L, h, p + 1 + i - 1)]
    BY <2>1 DEF Fore
  <2> QED
    BY <2>2, <2>3
<1>4. /\ u \in [1 .. k + 1 + l -> Vertex]
      /\ \A i \in 1 .. k + 1 + l : u[i] = At(L, h, a + i - 1)
  <2>1. b - a + 1 = k + 1 + l
    OBVIOUS
  <2>2. \A i \in 1 .. k + 1 + l : At(L, h, a + i - 1) \in Vertex
    BY DEF Filled
  <2>3. u = [i \in 1 .. k + 1 + l |-> At(L, h, a + i - 1)]
    BY <2>1 DEF Fore
  <2> QED
    BY <2>2, <2>3
<1>5. y \in [1 .. 1 -> Vertex] /\ y[1] = x
  <2>1. x \in Vertex
    BY DEF Filled
  <2> QED
    BY <2>1
<1> HIDE DEF s, t, u, y
<1>6. /\ s \o y \in [1 .. k + 1 -> Vertex]
      /\ \A i \in 1 .. k + 1 : (s \o y)[i] = IF i <= k THEN s[i] ELSE y[i - k]
  <2> HIDE DEF k
  <2>1. Concat(Vertex, k, 1, s, y, s \o y)
    BY <1>1, <1>2, <1>5, ConcatIs
  <2> QED
    BY <2>1 DEF Concat
<1> DEFINE z == s \o y
<1> HIDE DEF z
<1>7. /\ z \o t \in [1 .. k + 1 + l -> Vertex]
      /\ \A i \in 1 .. k + 1 + l : (z \o t)[i] = IF i <= k + 1 THEN z[i] ELSE t[i - (k + 1)]
  <2> DEFINE c == k + 1
  <2>1. c \in Nat /\ c + l = k + 1 + l
    BY <1>1
  <2>2. z \in [1 .. c -> Vertex]
    BY <1>6 DEF z
  <2> HIDE DEF c, l
  <2>3. Concat(Vertex, c, l, z, t, z \o t)
    BY <2>1, <2>2, <1>1, <1>3, ConcatIs
  <2> QED
    BY <2>1, <2>3 DEF c, Concat
<1> DEFINE q == z \o t
<1> HIDE DEF q
<1>8. ASSUME NEW i \in 1 .. k + 1 + l PROVE q[i] = u[i]
  <2>1. CASE i <= k
    <3>1. q[i] = z[i] /\ z[i] = s[i]
      BY <2>1, <1>6, <1>7 DEF z, q
    <3> QED
      BY <2>1, <3>1, <1>2, <1>4
  <2>2. CASE i = k + 1
    <3>1. q[i] = z[i] /\ z[i] = y[1]
      BY <2>2, <1>6, <1>7 DEF z, q
    <3>2. a + i - 1 = p
      BY <2>2
    <3> QED
      BY <3>1, <3>2, <1>4, <1>5
  <2>3. CASE i > k + 1
    <3>1. q[i] = t[i - (k + 1)] /\ i - (k + 1) \in 1 .. l
      BY <2>3, <1>7 DEF q
    <3>2. p + 1 + (i - (k + 1)) - 1 = a + i - 1
      OBVIOUS
    <3> QED
      BY <3>1, <3>2, <1>3, <1>4
  <2>4. i <= k \/ i = k + 1 \/ i > k + 1
    BY <1>1
  <2> QED
    BY <2>1, <2>2, <2>3, <2>4
<1>9. q = u
  <2>1. q \in [1 .. k + 1 + l -> Vertex]
    BY <1>7 DEF q
  <2> QED
    BY <2>1, <1>4, <1>8
<1> QED
  BY <1>9 DEF z, s, t, u, y, q

\* The same, in the other direction.
LEMMA BackIs ==
  ASSUME NEW L, NEW h, NEW a \in Int, NEW b \in Int, NEW p \in Int, a <= p, p <= b,
         Filled(L, h, a, b),
         NEW x, x = At(L, h, p)
  PROVE  (Back(L, h, p + 1, b) \o <<x>>) \o Back(L, h, a, p - 1) = Back(L, h, a, b)
<1> DEFINE s == Back(L, h, p + 1, b)
           t == Back(L, h, a, p - 1)
           u == Back(L, h, a, b)
           y == <<x>>
           k == b - p
           l == p - a
<1>1. k \in Nat /\ l \in Nat
  OBVIOUS
<1>2. /\ s \in [1 .. k -> Vertex]
      /\ \A i \in 1 .. k : s[i] = At(L, h, b - i + 1)
  <2>1. b - (p + 1) + 1 = k
    OBVIOUS
  <2>2. \A i \in 1 .. k : At(L, h, b - i + 1) \in Vertex
    BY DEF Filled
  <2>3. s = [i \in 1 .. k |-> At(L, h, b - i + 1)]
    BY <2>1 DEF Back
  <2> QED
    BY <2>2, <2>3
<1>3. /\ t \in [1 .. l -> Vertex]
      /\ \A i \in 1 .. l : t[i] = At(L, h, (p - 1) - i + 1)
  <2>1. (p - 1) - a + 1 = l
    OBVIOUS
  <2>2. \A i \in 1 .. l : At(L, h, (p - 1) - i + 1) \in Vertex
    BY DEF Filled
  <2>3. t = [i \in 1 .. l |-> At(L, h, (p - 1) - i + 1)]
    BY <2>1 DEF Back
  <2> QED
    BY <2>2, <2>3
<1>4. /\ u \in [1 .. k + 1 + l -> Vertex]
      /\ \A i \in 1 .. k + 1 + l : u[i] = At(L, h, b - i + 1)
  <2>1. b - a + 1 = k + 1 + l
    OBVIOUS
  <2>2. \A i \in 1 .. k + 1 + l : At(L, h, b - i + 1) \in Vertex
    BY DEF Filled
  <2>3. u = [i \in 1 .. k + 1 + l |-> At(L, h, b - i + 1)]
    BY <2>1 DEF Back
  <2> QED
    BY <2>2, <2>3
<1>5. y \in [1 .. 1 -> Vertex] /\ y[1] = x
  <2>1. x \in Vertex
    BY DEF Filled
  <2> QED
    BY <2>1
<1> HIDE DEF s, t, u, y
<1>6. /\ s \o y \in [1 .. k + 1 -> Vertex]
      /\ \A i \in 1 .. k + 1 : (s \o y)[i] = IF i <= k THEN s[i] ELSE y[i - k]
  <2> HIDE DEF k
  <2>1. Concat(Vertex, k, 1, s, y, s \o y)
    BY <1>1, <1>2, <1>5, ConcatIs
  <2> QED
    BY <2>1 DEF Concat
<1> DEFINE z == s \o y
<1> HIDE DEF z
<1>7. /\ z \o t \in [1 .. k + 1 + l -> Vertex]
      /\ \A i \in 1 .. k + 1 + l : (z \o t)[i] = IF i <= k + 1 THEN z[i] ELSE t[i - (k + 1)]
  <2> DEFINE c == k + 1
  <2>1. c \in Nat /\ c + l = k + 1 + l
    BY <1>1
  <2>2. z \in [1 .. c -> Vertex]
    BY <1>6 DEF z
  <2> HIDE DEF c, l
  <2>3. Concat(Vertex, c, l, z, t, z \o t)
    BY <2>1, <2>2, <1>1, <1>3, ConcatIs
  <2> QED
    BY <2>1, <2>3 DEF c, Concat
<1> DEFINE q == z \o t
<1> HIDE DEF q
<1>8. ASSUME NEW i \in 1 .. k + 1 + l PROVE q[i] = u[i]
  <2>1. CASE i <= k
    <3>1. q[i] = z[i] /\ z[i] = s[i]
      BY <2>1, <1>6, <1>7 DEF z, q
    <3> QED
      BY <2>1, <3>1, <1>2, <1>4
  <2>2. CASE i = k + 1
    <3>1. q[i] = z[i] /\ z[i] = y[1]
      BY <2>2, <1>6, <1>7 DEF z, q
    <3>2. b - i + 1 = p
      BY <2>2
    <3> QED
      BY <3>1, <3>2, <1>4, <1>5
  <2>3. CASE i > k + 1
    <3>1. q[i] = t[i - (k + 1)] /\ i - (k + 1) \in 1 .. l
      BY <2>3, <1>7 DEF q
    <3>2. (p - 1) - (i - (k + 1)) + 1 = b - i + 1
      OBVIOUS
    <3> QED
      BY <3>1, <3>2, <1>3, <1>4
  <2>4. i <= k \/ i = k + 1 \/ i > k + 1
    BY <1>1
  <2> QED
    BY <2>1, <2>2, <2>3, <2>4
<1>9. q = u
  <2>1. q \in [1 .. k + 1 + l -> Vertex]
    BY <1>7 DEF q
  <2> QED
    BY <2>1, <1>4, <1>8
<1> QED
  BY <1>9 DEF z, s, t, u, y, q

\* What PathOrder says of x, from what it says of the children of x.
OrderStep(n, f, x, t) ==
  LET turn == t # n[x].reversed
      below(c) == IF c = NoVertex THEN <<>> ELSE f[c][turn]
  IN  IF turn THEN below(n[x].right) \o <<x>> \o below(n[x].left)
      ELSE below(n[x].left) \o <<x>> \o below(n[x].right)

\* f says of every node what PathOrder should.
OrderSteps(n, f) == \A x \in Vertex, t \in BOOLEAN : f[x][t] = OrderStep(n, f, x, t)
\* f holds what PathOrder says.
OrderTable(n, f) == \A x \in Vertex, t \in BOOLEAN : PathOrder(n, x, t) = f[x][t]

\* G gives each node a value for either direction.
Tables(G) == \E S : G \in [Vertex -> [BOOLEAN -> S]]

\* The recursion has a solution when the steps have one.
LEMMA OrderExists ==
  ASSUME NEW n, NEW G, Tables(G), OrderSteps(n, G)
  PROVE  \E f : OrderSteps(n, f) /\ OrderTable(n, f)
<1> DEFINE E(f) == [x \in Vertex |-> [t \in BOOLEAN |-> OrderStep(n, f, x, t)]]
           g == CHOOSE f : f = E(f)
<1>1. \A x \in Vertex, t \in BOOLEAN : E(G)[x][t] = G[x][t]
  BY DEF OrderSteps
<1>2. G = E(G)
  <2>1. PICK S : G \in [Vertex -> [BOOLEAN -> S]]
    BY DEF Tables
  <2>2. ASSUME NEW x \in Vertex PROVE G[x] = E(G)[x]
    <3>1. G[x] \in [BOOLEAN -> S]
      BY <2>1
    <3>2. E(G)[x] = [t \in BOOLEAN |-> OrderStep(n, G, x, t)]
      OBVIOUS
    <3>3. \A t \in BOOLEAN : G[x][t] = OrderStep(n, G, x, t)
      BY DEF OrderSteps
    <3> QED
      BY <3>1, <3>2, <3>3
  <2> QED
    BY <2>1, <2>2
<1>3. g = E(g)
  <2> HIDE DEF E
  <2> QED
    BY <1>2
<1>4. \A x \in Vertex, t \in BOOLEAN : PathOrder(n, x, t) = g[x][t]
  BY DEF PathOrder, OrderStep
<1>5. OrderSteps(n, g)
  <2>1. ASSUME NEW h, h = E(h) PROVE OrderSteps(n, h)
    <3> SUFFICES ASSUME NEW x \in Vertex, NEW t \in BOOLEAN PROVE h[x][t] = OrderStep(n, h, x, t)
      BY DEF OrderSteps
    <3>1. E(h)[x][t] = OrderStep(n, h, x, t)
      OBVIOUS
    <3> QED
      BY <2>1, <3>1
  <2> HIDE DEF E, g
  <2> QED
    BY <1>3, <2>1
<1>6. OrderTable(n, g)
  BY <1>4 DEF OrderTable
<1> HIDE DEF g
<1> QED
  BY <1>5, <1>6

\* The order of the subtree of x, read in a direction.
OrderOf(n, L, x, t) ==
  IF (t # n[x].reversed) = L.flip[x] THEN Fore(L, L.hd[x], L.lo[x], L.hi[x])
  ELSE Back(L, L.hd[x], L.lo[x], L.hi[x])

\* What a child contributes.
Below(n, L, x, c, turn) == IF c = NoVertex THEN <<>> ELSE OrderOf(n, L, c, turn)

\* No position is between the neighbours.
LEMMA EmptyRuns ==
  ASSUME NEW L, NEW h, NEW a \in Int, NEW b \in Int, a = b + 1
  PROVE  Fore(L, h, a, b) = <<>> /\ Back(L, h, a, b) = <<>>
<1>1. 1 .. b - a + 1 = {}
  OBVIOUS
<1> QED
  BY <1>1 DEF Fore, Back

\* What is read of the two children of x.
BelowAll(n, L, x, turn) ==
  /\ turn = L.flip[x] =>
       /\ Below(n, L, x, Early(n, L, x), turn) = Fore(L, L.hd[x], L.lo[x], L.pos[x] - 1)
       /\ Below(n, L, x, Late(n, L, x), turn) = Fore(L, L.hd[x], L.pos[x] + 1, L.hi[x])
  /\ turn # L.flip[x] =>
       /\ Below(n, L, x, Early(n, L, x), turn) = Back(L, L.hd[x], L.lo[x], L.pos[x] - 1)
       /\ Below(n, L, x, Late(n, L, x), turn) = Back(L, L.hd[x], L.pos[x] + 1, L.hi[x])

\* What is read of a child.
LEMMA BelowIs ==
  ASSUME NEW n, NEW L, Shape(n, L), NEW x \in Vertex, NEW turn \in BOOLEAN
  PROVE  BelowAll(n, L, x, turn)
<1>1. /\ ChildOf(n, L, x, Early(n, L, x), L.lo[x], L.pos[x] - 1)
      /\ ChildOf(n, L, x, Late(n, L, x), L.pos[x] + 1, L.hi[x])
  BY DEF Shape, Children
<1>2. /\ L.flip[x] \in BOOLEAN /\ n[x].reversed \in BOOLEAN
      /\ L.lo[x] \in Int /\ L.pos[x] \in Int /\ L.hi[x] \in Int
      /\ n[x].left \in Some /\ n[x].right \in Some
  BY LayoutFields, NodeFields DEF Shape
<1>3. ASSUME NEW c \in Some, NEW a \in Int, NEW b \in Int, ChildOf(n, L, x, c, a, b)
      PROVE  /\ turn = L.flip[x] => Below(n, L, x, c, turn) = Fore(L, L.hd[x], a, b)
             /\ turn # L.flip[x] => Below(n, L, x, c, turn) = Back(L, L.hd[x], a, b)
  <2>1. CASE c = NoVertex
    <3>1. a = b + 1
      BY <1>3, <2>1 DEF ChildOf
    <3>2. Fore(L, L.hd[x], a, b) = <<>> /\ Back(L, L.hd[x], a, b) = <<>>
      BY <3>1, EmptyRuns
    <3> QED
      BY <2>1, <3>2 DEF Below
  <2>2. CASE c # NoVertex
    <3>1. c \in Vertex
      BY <2>2 DEF Some
    <3>2. /\ L.hd[c] = L.hd[x] /\ L.lo[c] = a /\ L.hi[c] = b
          /\ L.flip[c] = (L.flip[x] # n[c].reversed)
      BY <1>3, <2>2 DEF ChildOf
    <3>3. n[c].reversed \in BOOLEAN
      BY <3>1, NodeFields DEF Shape
    <3>4. ((turn # n[c].reversed) = L.flip[c]) <=> (turn = L.flip[x])
      BY <3>2, <3>3, <1>2
    <3>5. Below(n, L, x, c, turn) = OrderOf(n, L, c, turn)
      BY <2>2 DEF Below
    <3> QED
      BY <3>2, <3>4, <3>5 DEF OrderOf
  <2> QED
    BY <2>1, <2>2
<1>4. Early(n, L, x) \in Some /\ Late(n, L, x) \in Some /\ L.pos[x] - 1 \in Int /\ L.pos[x] + 1 \in Int
  BY <1>2 DEF Early, Late
<1> QED
  BY <1>1, <1>2, <1>3, <1>4 DEF BelowAll

\* A subtree is what is below its root on one side, the root, and the rest.
LEMMA OrderOfIs ==
  ASSUME NEW n, NEW L, Shape(n, L), NEW x \in Vertex, NEW t \in BOOLEAN,
         NEW turn, turn = (t # n[x].reversed)
  PROVE  /\ turn \in BOOLEAN
         /\ turn => (Below(n, L, x, n[x].right, turn) \o <<x>>) \o Below(n, L, x, n[x].left, turn)
                      = OrderOf(n, L, x, t)
         /\ ~turn => (Below(n, L, x, n[x].left, turn) \o <<x>>) \o Below(n, L, x, n[x].right, turn)
                      = OrderOf(n, L, x, t)
<1>1. /\ L.flip[x] \in BOOLEAN /\ n[x].reversed \in BOOLEAN
      /\ L.lo[x] \in Int /\ L.pos[x] \in Int /\ L.hi[x] \in Int
      /\ L.lo[x] <= L.pos[x] /\ L.pos[x] <= L.hi[x]
  BY LayoutFields, NodeFields DEF Shape, Spans
<1>2. turn \in BOOLEAN
  BY <1>1
<1> DEFINE h == L.hd[x]
           a == L.lo[x]
           b == L.hi[x]
           p == L.pos[x]
<1>3. Filled(L, h, a, b)
  BY AtIs DEF Filled
<1>4. x = At(L, h, p)
  BY <1>1, AtIs
<1>5. /\ (Fore(L, h, a, p - 1) \o <<x>>) \o Fore(L, h, p + 1, b) = Fore(L, h, a, b)
      /\ (Back(L, h, p + 1, b) \o <<x>>) \o Back(L, h, a, p - 1) = Back(L, h, a, b)
  <2> HIDE DEF h, a, b, p
  <2>1. a \in Int /\ b \in Int /\ p \in Int /\ a <= p /\ p <= b
    BY <1>1 DEF a, b, p
  <2>2. Filled(L, h, a, b) /\ x = At(L, h, p)
    BY <1>3, <1>4
  <2>3. (Fore(L, h, a, p - 1) \o <<x>>) \o Fore(L, h, p + 1, b) = Fore(L, h, a, b)
    BY ONLY <2>1, <2>2, ForeIs
  <2>4. (Back(L, h, p + 1, b) \o <<x>>) \o Back(L, h, a, p - 1) = Back(L, h, a, b)
    BY ONLY <2>1, <2>2, BackIs
  <2> QED
    BY <2>3, <2>4
<1> DEFINE e == Below(n, L, x, Early(n, L, x), turn)
           l == Below(n, L, x, Late(n, L, x), turn)
<1>6. CASE turn = L.flip[x]
  <2>1. OrderOf(n, L, x, t) = Fore(L, h, a, b)
    BY <1>6 DEF OrderOf
  <2>2. e = Fore(L, h, a, p - 1) /\ l = Fore(L, h, p + 1, b)
    <3>1. BelowAll(n, L, x, turn)
      BY ONLY <1>2, Shape(n, L), x \in Vertex, BelowIs
    <3> QED
      BY <3>1, <1>6 DEF BelowAll
  <2>3. (e \o <<x>>) \o l = OrderOf(n, L, x, t)
    BY <2>1, <2>2, <1>5
  <2>4. CASE turn
    <3>1. e = Below(n, L, x, n[x].right, turn) /\ l = Below(n, L, x, n[x].left, turn)
      BY <2>4, <1>6 DEF Early, Late
    <3> QED
      BY <2>3, <2>4, <3>1
  <2>5. CASE ~turn
    <3>1. e = Below(n, L, x, n[x].left, turn) /\ l = Below(n, L, x, n[x].right, turn)
      BY <2>5, <1>1, <1>2, <1>6 DEF Early, Late
    <3> QED
      BY <2>3, <2>5, <3>1
  <2> QED
    BY <1>2, <2>4, <2>5
<1>7. CASE turn # L.flip[x]
  <2>1. OrderOf(n, L, x, t) = Back(L, h, a, b)
    BY <1>7 DEF OrderOf
  <2>2. e = Back(L, h, a, p - 1) /\ l = Back(L, h, p + 1, b)
    <3>1. BelowAll(n, L, x, turn)
      BY ONLY <1>2, Shape(n, L), x \in Vertex, BelowIs
    <3> QED
      BY <3>1, <1>7 DEF BelowAll
  <2>3. (l \o <<x>>) \o e = OrderOf(n, L, x, t)
    BY <2>1, <2>2, <1>5
  <2>4. CASE turn
    <3>1. l = Below(n, L, x, n[x].right, turn) /\ e = Below(n, L, x, n[x].left, turn)
      BY <2>4, <1>1, <1>2, <1>7 DEF Early, Late
    <3> QED
      BY <2>3, <2>4, <3>1
  <2>5. CASE ~turn
    <3>1. l = Below(n, L, x, n[x].left, turn) /\ e = Below(n, L, x, n[x].right, turn)
      BY <2>5, <1>1, <1>2, <1>7 DEF Early, Late
    <3> QED
      BY <2>3, <2>5, <3>1
  <2> QED
    BY <1>2, <2>4, <2>5
<1> QED
  BY <1>2, <1>6, <1>7

\* Reading a path follows the layout.
LEMMA PathOrderIs ==
  ASSUME NEW n, NEW L, Shape(n, L), NEW v \in Vertex, NEW turned \in BOOLEAN
  PROVE  PathOrder(n, v, turned) = OrderOf(n, L, v, turned)
<1> DEFINE S == {OrderOf(n, L, x, t) : x \in Vertex, t \in BOOLEAN}
           G == [x \in Vertex |-> [t \in BOOLEAN |-> OrderOf(n, L, x, t)]]
<1>1. \A x \in Vertex : /\ L.lo[x] \in Int /\ L.hi[x] \in Int /\ L.pos[x] \in Int
                        /\ L.lo[x] <= L.pos[x] /\ L.pos[x] <= L.hi[x]
                        /\ n[x].left \in Some /\ n[x].right \in Some /\ n[x].reversed \in BOOLEAN
  BY LayoutFields, NodeFields DEF Shape, Spans
<1>2. Tables(G)
  <2>1. G \in [Vertex -> [BOOLEAN -> S]]
    OBVIOUS
  <2> HIDE DEF S, G
  <2> QED
    BY <2>1 DEF Tables
<1>3. \A x \in Vertex, t \in BOOLEAN : G[x][t] = OrderOf(n, L, x, t)
  OBVIOUS
<1> HIDE DEF G
<1>4. OrderSteps(n, G)
  <2> SUFFICES ASSUME NEW x \in Vertex, NEW t \in BOOLEAN PROVE G[x][t] = OrderStep(n, G, x, t)
    BY DEF OrderSteps
  <2> DEFINE turn == t # n[x].reversed
             a == Below(n, L, x, n[x].left, turn)
             b == Below(n, L, x, n[x].right, turn)
             below(c) == IF c = NoVertex THEN <<>> ELSE G[c][turn]
  <2>1. turn \in BOOLEAN
    BY <1>1
  <2>2. OrderStep(n, G, x, t) = IF turn THEN (below(n[x].right) \o <<x>>) \o below(n[x].left)
                                ELSE (below(n[x].left) \o <<x>>) \o below(n[x].right)
    BY DEF OrderStep
  <2>3. turn = (t # n[x].reversed)
    OBVIOUS
  <2>4. below(n[x].left) = a /\ below(n[x].right) = b
    BY <2>1, <1>1, <1>3 DEF Below, Some
  <2>5. /\ turn => (b \o <<x>>) \o a = OrderOf(n, L, x, t)
        /\ ~turn => (a \o <<x>>) \o b = OrderOf(n, L, x, t)
    <3> HIDE DEF turn
    <3> QED
      BY <2>3, OrderOfIs
  <2> HIDE DEF turn, a, b, below
  <2> QED
    BY <2>1, <2>2, <2>4, <2>5, <1>3
<1>5. PICK f : OrderSteps(n, f) /\ OrderTable(n, f)
  BY <1>2, <1>4, OrderExists
<1>6. /\ \A x \in Vertex, t \in BOOLEAN : f[x][t] = OrderStep(n, f, x, t)
      /\ \A x \in Vertex, t \in BOOLEAN : PathOrder(n, x, t) = f[x][t]
      /\ \A x \in Vertex, t \in BOOLEAN : G[x][t] = OrderStep(n, G, x, t)
  BY <1>4, <1>5 DEF OrderSteps, OrderTable
<1> DEFINE T == {j \in Nat : \A x \in Vertex : L.hi[x] - L.lo[x] < j =>
                               \A t \in BOOLEAN : f[x][t] = G[x][t]}
<1>7. 0 \in T
  BY <1>1
<1>8. ASSUME NEW j \in Nat, j \in T
      PROVE  j + 1 \in T
  <2> SUFFICES ASSUME NEW x \in Vertex, L.hi[x] - L.lo[x] < j + 1, NEW t \in BOOLEAN
               PROVE  f[x][t] = G[x][t]
    OBVIOUS
  <2>1. ASSUME NEW c, c = n[x].left \/ c = n[x].right, c # NoVertex, NEW u \in BOOLEAN
        PROVE  f[c][u] = G[c][u]
    <3>1. /\ c \in Vertex
          /\ \/ L.lo[c] = L.lo[x] /\ L.hi[c] = L.pos[x] - 1
             \/ L.lo[c] = L.pos[x] + 1 /\ L.hi[c] = L.hi[x]
      BY <2>1, ChildIs
    <3>2. L.hi[c] - L.lo[c] < j
      BY <3>1, <1>1
    <3> QED
      BY <3>1, <3>2, <1>8
  <2> DEFINE turn == t # n[x].reversed
  <2>2. turn \in BOOLEAN
    BY <1>1
  <2>3. /\ n[x].left # NoVertex => f[n[x].left][turn] = G[n[x].left][turn]
        /\ n[x].right # NoVertex => f[n[x].right][turn] = G[n[x].right][turn]
    BY <2>1, <2>2
  <2>4. OrderStep(n, f, x, t) = OrderStep(n, G, x, t)
    BY <2>3 DEF OrderStep
  <2> QED
    BY <2>4, <1>6
<1> HIDE DEF T
<1>9. \A j \in Nat : j \in T
  BY <1>7, <1>8, Induction
<1>10. L.hi[v] - L.lo[v] + 1 \in Nat /\ L.hi[v] - L.lo[v] < L.hi[v] - L.lo[v] + 1
  BY <1>1
<1>11. f[v][turned] = G[v][turned]
  BY <1>9, <1>10 DEF T
<1> QED
  BY <1>3, <1>6, <1>11

\* path lists the vertices of the path with head h, from its head to its tail.
Along(n, L, r, path) ==
  /\ path = Fore(L, L.hd[r], L.lo[r], L.hi[r])
  /\ Len(path) = L.hi[r] - L.lo[r] + 1 /\ Len(path) \in Nat /\ Len(path) >= 1
  /\ path \in Seq(Vertex) /\ DOMAIN path = 1 .. Len(path)
  /\ \A i \in 1 .. Len(path) : /\ path[i] \in Vertex /\ L.hd[path[i]] = L.hd[r]
                               /\ L.pos[path[i]] = L.lo[r] + i - 1
  /\ \A x \in Vertex : L.hd[x] = L.hd[r] => \E i \in 1 .. Len(path) : path[i] = x
  /\ path[1] = L.hd[r]

\* What is read of a path, at its root.
LEMMA AlongIs ==
  ASSUME NEW n, NEW L, Shape(n, L), NEW r \in Vertex, n[r].parent = NoVertex
  PROVE  Along(n, L, r, PathOrder(n, r, FALSE))
<1> DEFINE h == L.hd[r]
           a == L.lo[r]
           b == L.hi[r]
           k == b - a + 1
           path == PathOrder(n, r, FALSE)
<1>1. /\ a \in Int /\ b \in Int /\ a <= b
      /\ L.flip[r] = n[r].reversed /\ n[r].reversed \in BOOLEAN
      /\ L.pos[h] = a /\ L.hd[h] = h /\ h \in Vertex
      /\ \A u \in Vertex : L.hd[u] = h => Within(L, u, r)
  <2>1. a \in Int /\ b \in Int /\ L.pos[r] \in Int /\ h \in Vertex
    BY LayoutFields DEF Shape
  <2>2. a <= L.pos[r] /\ L.pos[r] <= b /\ L.hd[h] = h
    BY DEF Shape, Spans
  <2>3. L.flip[r] = n[r].reversed /\ \A u \in Vertex : L.hd[u] = h => Within(L, u, r)
    BY DEF Shape, Parents
  <2>4. L.pos[h] = a
    BY DEF Shape, Parents
  <2>5. n[r].reversed \in BOOLEAN
    BY NodeFields DEF Shape
  <2> QED
    BY <2>1, <2>2, <2>3, <2>4, <2>5
<1>2. path = Fore(L, h, a, b)
  <2>1. FALSE \in BOOLEAN
    OBVIOUS
  <2>2. path = OrderOf(n, L, r, FALSE)
    BY <2>1, PathOrderIs
  <2>3. (FALSE # n[r].reversed) = L.flip[r]
    BY <1>1
  <2> QED
    BY <2>2, <2>3 DEF OrderOf
<1> HIDE DEF path
<1>3. k \in Nat /\ k >= 1
  BY <1>1
<1>4. \A i \in Int : a <= i /\ i <= b => At(L, h, i) \in Vertex /\ L.hd[At(L, h, i)] = h
                                          /\ L.pos[At(L, h, i)] = i
  BY AtIs
<1>5. path = [i \in 1 .. k |-> At(L, h, a + i - 1)]
  BY <1>2 DEF Fore
<1>6. \A i \in 1 .. k : /\ path[i] \in Vertex /\ L.hd[path[i]] = h
                        /\ L.pos[path[i]] = a + i - 1
  BY <1>1, <1>4, <1>5
<1>7. path \in [1 .. k -> Vertex]
  BY <1>5, <1>6
<1>8. path \in Seq(Vertex) /\ DOMAIN path = 1 .. k /\ Len(path) = k
  <2>1. path \in Seq(Vertex) /\ DOMAIN path = 1 .. k
    BY <1>3, <1>7
  <2> QED
    BY <2>1, <1>3, LenProperties
<1>9. \A x, y \in Vertex : L.hd[x] = L.hd[y] /\ L.pos[x] = L.pos[y] => x = y
  BY DEF Shape, Spans
<1>10. ASSUME NEW x \in Vertex, L.hd[x] = h PROVE \E i \in 1 .. k : path[i] = x
  <2>1. L.pos[x] \in Int /\ a <= L.pos[x] /\ L.pos[x] <= b
    BY <1>1, <1>10, LayoutFields DEF Shape, Within
  <2>2. L.pos[x] - a + 1 \in 1 .. k
    BY <2>1, <1>1
  <2>3. path[L.pos[x] - a + 1] = x
    BY <2>1, <2>2, <1>1, <1>6, <1>9, <1>10
  <2> QED
    BY <2>2, <2>3
<1>11. path[1] = h
  BY <1>1, <1>3, <1>6, <1>9
<1> QED
  BY <1>2, <1>3, <1>6, <1>8, <1>10, <1>11 DEF Along, path

-----------------------------------------------------------------------------
(* The forest.                                                             *)

\* The edges of a path are the steps up from its vertices other than its head.
LEMMA PreferredIs ==
  ASSUME NEW n, NEW L, Shape(n, L), NEW up, Carries(n, L, up),
         NEW r \in Vertex, NEW path, Along(n, L, r, path)
  PROVE  Preferred(path) = {{x, up[x]} : x \in {y \in Vertex : L.hd[y] = L.hd[r] /\ y # L.hd[r]}}
<1> DEFINE D == {y \in Vertex : L.hd[y] = L.hd[r] /\ y # L.hd[r]}
           k == Len(path)
<1>1. /\ k \in Nat /\ k >= 1
      /\ \A i \in 1 .. k : /\ path[i] \in Vertex /\ L.hd[path[i]] = L.hd[r]
                           /\ L.pos[path[i]] = L.lo[r] + i - 1
      /\ \A x \in Vertex : L.hd[x] = L.hd[r] => \E i \in 1 .. k : path[i] = x
      /\ path[1] = L.hd[r]
  BY DEF Along
<1>2. L.lo[r] \in Int
  BY LayoutFields DEF Shape
<1>3. \A x, y \in Vertex : L.hd[x] = L.hd[y] /\ L.pos[x] = L.pos[y] => x = y
  BY DEF Shape, Spans
<1>4. ASSUME NEW i \in 1 .. k - 1 PROVE path[i + 1] \in D /\ up[path[i + 1]] = path[i]
  <2> DEFINE x == path[i]
             y == path[i + 1]
  <2>1. i \in 1 .. k /\ i + 1 \in 1 .. k /\ 1 \in 1 .. k
    BY <1>1
  <2>2. /\ x \in Vertex /\ L.hd[x] = L.hd[r] /\ L.pos[x] = L.lo[r] + i - 1
        /\ y \in Vertex /\ L.hd[y] = L.hd[r] /\ L.pos[y] = L.lo[r] + (i + 1) - 1
        /\ L.pos[L.hd[r]] = L.lo[r] + 1 - 1
    BY <2>1, <1>1
  <2> HIDE DEF x, y
  <2>3. y # L.hd[r]
    BY <2>2, <1>2
  <2>4. /\ up[y] \in Vertex /\ L.hd[up[y]] = L.hd[y] /\ L.pos[up[y]] = L.pos[y] - 1
    BY <2>2, <2>3 DEF Carries
  <2>5. L.pos[up[y]] = L.pos[x]
    BY <2>2, <2>4, <1>2
  <2>6. up[y] = x
    BY <2>2, <2>4, <2>5, <1>3
  <2> QED
    BY <2>2, <2>3, <2>6 DEF x, y
<1>5. ASSUME NEW e \in Preferred(path) PROVE e \in {{x, up[x]} : x \in D}
  <2>1. PICK i \in 1 .. k - 1 : e = {path[i], path[i + 1]}
    BY DEF Preferred
  <2>2. path[i + 1] \in D /\ up[path[i + 1]] = path[i]
    BY <1>4
  <2>3. e = {path[i + 1], up[path[i + 1]]}
    BY <2>1, <2>2
  <2> HIDE DEF D
  <2> QED
    BY <2>2, <2>3
<1>6. ASSUME NEW x \in D PROVE {x, up[x]} \in Preferred(path)
  <2>1. PICK j \in 1 .. k : path[j] = x
    BY <1>1
  <2>2. j # 1
    BY <2>1, <1>1
  <2>3. j - 1 \in 1 .. k - 1 /\ (j - 1) + 1 = j
    BY <2>2
  <2>4. up[path[(j - 1) + 1]] = path[j - 1]
    BY <2>3, <1>4
  <2>5. {x, up[x]} = {path[j - 1], path[(j - 1) + 1]}
    BY <2>1, <2>3, <2>4
  <2> QED
    BY <2>3, <2>5 DEF Preferred
<1> QED
  BY <1>5, <1>6

\* The edges of the path of r, and the one from its head to the vertex above.
EdgesAt(L, up, r) == {{x, up[x]} : x \in {y \in Vertex : L.hd[y] = L.hd[r] /\ up[y] # NoVertex}}

\* The pointers carry the trees that the ways up are.
LEMMA ForestEdgesAre ==
  ASSUME NEW L, NEW up, Shape(nodes, L), Carries(nodes, L, up)
  PROVE  ForestEdges = TreeEdges(up)
<1> DEFINE E(r) == LET path == PathOf(r)
                       above == nodes[path[1]].dparent
                   IN  Preferred(path) \cup (IF above = NoVertex THEN {} ELSE {{path[1], above}})
<1>1. NoVertex \notin Vertex
  BY LctAssumption
<1>2. ASSUME NEW r \in Roots PROVE E(r) = EdgesAt(L, up, r)
  <2> DEFINE path == PathOf(r)
             h == L.hd[r]
             D == {y \in Vertex : L.hd[y] = h /\ y # h}
             P == {{x, up[x]} : x \in D}
  <2>1. r \in Vertex /\ nodes[r].parent = NoVertex
    BY DEF Roots
  <2>2. Along(nodes, L, r, path)
    BY <2>1, AlongIs DEF PathOf
  <2>3. Preferred(path) = P
    BY <2>1, <2>2, PreferredIs
  <2>4. path[1] = h
    BY <2>2 DEF Along
  <2>5. h \in Vertex /\ L.hd[h] = h
    BY <2>1, HeadFirst
  <2>6. up[h] = nodes[h].dparent
    BY <2>5 DEF Carries
  <2>7. E(r) = P \cup (IF up[h] = NoVertex THEN {} ELSE {{h, up[h]}})
    BY <2>3, <2>4, <2>6
  <2>8. \A x \in D : up[x] \in Vertex
    BY <2>5 DEF Carries
  <2>9. {y \in Vertex : L.hd[y] = h /\ up[y] # NoVertex} = D \cup (IF up[h] = NoVertex THEN {} ELSE {h})
    BY <2>5, <2>8, <1>1
  <2>10. EdgesAt(L, up, r) = {{x, up[x]} : x \in D \cup (IF up[h] = NoVertex THEN {} ELSE {h})}
    BY <2>9 DEF EdgesAt
  <2> HIDE DEF path, D, E
  <2> QED
    BY <2>7, <2>10
<1>3. ForestEdges = UNION {E(r) : r \in Roots}
  BY DEF ForestEdges
<1> HIDE DEF E
<1>4. ForestEdges = UNION {EdgesAt(L, up, r) : r \in Roots}
  BY <1>2, <1>3
<1>5. ASSUME NEW r \in Roots, NEW e \in EdgesAt(L, up, r) PROVE e \in TreeEdges(up)
  BY DEF EdgesAt, TreeEdges
<1>6. ASSUME NEW e \in TreeEdges(up) PROVE \E r \in Roots : e \in EdgesAt(L, up, r)
  <2>1. PICK x \in Vertex : up[x] # NoVertex /\ e = {x, up[x]}
    BY DEF TreeEdges
  <2>2. PICK r \in Vertex : nodes[r].parent = NoVertex /\ L.hd[r] = L.hd[x]
    BY RootExists
  <2>3. r \in Roots /\ e \in EdgesAt(L, up, r)
    BY <2>1, <2>2 DEF Roots, EdgesAt
  <2> QED
    BY <2>3
<1> QED
  BY <1>4, <1>5, <1>6

\* Two vertices are in one tree exactly when their ways up end at one root.
LEMMA RootsAre ==
  ASSUME NEW up \in [Vertex -> Some], NEW B, NEW R, NEW C, Ranked(up, B, R, C),
         NEW x \in Vertex, NEW y \in Vertex
  PROVE  Connected(TreeEdges(up), x, y) <=> B[x] = B[y]
<1> DEFINE F == TreeEdges(up)
<1>1. F \in SUBSET Edge
  BY TreeEdgesIn
<1>2. /\ C \in Nat /\ R \in [Vertex -> 0 .. C] /\ B \in [Vertex -> Vertex]
      /\ \A u \in Vertex : up[u] # NoVertex => B[up[u]] = B[u] /\ R[up[u]] < R[u]
      /\ \A u \in Vertex : up[u] = NoVertex => B[u] = u
  BY DEF Ranked
<1>3. \A u \in Vertex : R[u] \in Nat /\ B[u] \in Vertex
  BY <1>2
<1> DEFINE T == {j \in Nat : \A u \in Vertex : R[u] < j => Connected(F, u, B[u])}
<1>4. 0 \in T
  BY <1>3
<1>5. ASSUME NEW j \in Nat, j \in T PROVE j + 1 \in T
  <2> SUFFICES ASSUME NEW u \in Vertex, R[u] < j + 1 PROVE Connected(F, u, B[u])
    OBVIOUS
  <2>1. CASE up[u] = NoVertex
    <3>1. B[u] = u
      BY <2>1, <1>2
    <3> QED
      BY <3>1, ComponentSelf DEF Connected
  <2>2. CASE up[u] # NoVertex
    <3>1. up[u] \in Vertex /\ B[up[u]] = B[u] /\ R[up[u]] < R[u]
      BY <2>2, <1>2 DEF Some
    <3>2. R[up[u]] < j
      BY <3>1, <1>3
    <3>3. Connected(F, up[u], B[u])
      BY <3>1, <3>2, <1>5
    <3>4. {u, up[u]} \in F
      BY <2>2 DEF TreeEdges
    <3>5. Connected(F, u, up[u])
      <4> SUFFICES ASSUME NEW Q \in SUBSET Vertex, u \in Q, Closed(Q, F) PROVE up[u] \in Q
        BY <3>1, ComponentMember DEF Connected
      <4>1. {u, up[u]} \subseteq Q \/ {u, up[u]} \cap Q = {}
        BY <3>4 DEF Closed
      <4> QED
        BY <4>1
    <3> QED
      BY <3>3, <3>5, ConnectedTransitive
  <2> QED
    BY <2>1, <2>2
<1> HIDE DEF T
<1>6. \A j \in Nat : j \in T
  BY <1>4, <1>5, Induction
<1>7. \A u \in Vertex : Connected(F, u, B[u])
  <2> SUFFICES ASSUME NEW u \in Vertex PROVE Connected(F, u, B[u])
    OBVIOUS
  <2>1. R[u] + 1 \in Nat /\ R[u] < R[u] + 1
    BY <1>3
  <2> QED
    BY <2>1, <1>6 DEF T
<1> HIDE DEF F
<1>8. ASSUME B[x] = B[y] PROVE Connected(F, x, y)
  <2>1. Connected(F, x, B[x]) /\ Connected(F, y, B[x]) /\ B[x] \in Vertex
    BY <1>3, <1>7, <1>8
  <2>2. Connected(F, B[x], y)
    BY <2>1, <1>1, ConnectedSymmetric
  <2> QED
    BY <2>1, <2>2, ConnectedTransitive
<1>9. ASSUME Connected(F, x, y) PROVE B[x] = B[y]
  <2> DEFINE Q == {u \in Vertex : B[u] = B[x]}
  <2>1. Closed(Q, F)
    <3> SUFFICES ASSUME NEW e \in F PROVE e \subseteq Q \/ e \cap Q = {}
      BY DEF Closed
    <3>1. PICK u \in Vertex : up[u] # NoVertex /\ e = {u, up[u]}
      BY DEF F, TreeEdges
    <3>2. B[up[u]] = B[u] /\ up[u] \in Vertex
      BY <3>1, <1>2 DEF Some
    <3> QED
      BY <3>1, <3>2
  <2>2. x \in Q /\ Q \in SUBSET Vertex
    OBVIOUS
  <2> HIDE DEF Q
  <2>3. y \in Q
    BY <1>9, <2>1, <2>2, ComponentMember DEF Connected
  <2> QED
    BY <2>3 DEF Q
<1> QED
  BY <1>8, <1>9 DEF F

\* The edges of a path at one of its vertices.
LEMMA BesidePreferred ==
  ASSUME NEW n, NEW L, Shape(n, L), NEW up, Carries(n, L, up),
         NEW r \in Vertex, n[r].parent = NoVertex, NEW path, Along(n, L, r, path),
         NEW u \in Vertex, L.hd[u] = L.hd[r]
  PROVE  Beside(L, u) = {e \in Preferred(path) : u \in e}
<1> DEFINE h == L.hd[r]
           D == {y \in Vertex : L.hd[y] = h /\ y # h}
<1>1. Preferred(path) = {{x, up[x]} : x \in D}
  BY PreferredIs
<1>2. /\ h \in Vertex /\ L.hd[h] = h /\ L.pos[h] = L.lo[r] /\ L.lo[r] \in Int
      /\ \A y \in Vertex : L.hd[y] = h => L.pos[y] \in Int /\ L.lo[r] <= L.pos[y]
  BY RootSpan
<1>3. \A x, y \in Vertex : L.hd[x] = L.hd[y] /\ L.pos[x] = L.pos[y] => x = y
  BY DEF Shape, Spans
<1>4. \A x \in D : up[x] \in Vertex /\ L.hd[up[x]] = h /\ L.pos[up[x]] = L.pos[x] - 1
  BY <1>2 DEF Carries
<1>5. ASSUME NEW e \in Preferred(path), u \in e PROVE e \in Beside(L, u)
  <2>1. PICK x \in D : e = {x, up[x]}
    BY <1>1
  <2>2. x \in Vertex /\ L.hd[x] = h /\ up[x] \in Vertex /\ L.hd[up[x]] = h
        /\ L.pos[up[x]] = L.pos[x] - 1 /\ L.pos[x] \in Int
    BY <1>2, <1>4
  <2>3. CASE u = x
    BY <2>1, <2>2, <2>3 DEF Beside
  <2>4. CASE u = up[x]
    <3>1. L.pos[x] = L.pos[u] + 1 /\ e = {u, x}
      BY <2>1, <2>2, <2>4
    <3> QED
      BY <2>2, <3>1 DEF Beside
  <2> QED
    BY <1>5, <2>1, <2>3, <2>4
<1>6. ASSUME NEW e \in Beside(L, u) PROVE e \in Preferred(path) /\ u \in e
  <2>1. PICK y \in Vertex : /\ L.hd[y] = h /\ e = {u, y}
                            /\ L.pos[y] = L.pos[u] + 1 \/ L.pos[y] = L.pos[u] - 1
    BY DEF Beside
  <2>2. L.pos[y] \in Int /\ L.pos[u] \in Int /\ L.lo[r] <= L.pos[y] /\ L.lo[r] <= L.pos[u]
    BY <2>1, <1>2
  <2>3. CASE L.pos[y] = L.pos[u] + 1
    <3>1. y # h
      BY <2>2, <2>3, <1>2
    <3>2. y \in D
      BY <2>1, <3>1
    <3>3. up[y] = u
      BY <3>2, <1>3, <1>4, <2>1, <2>2, <2>3
    <3> QED
      BY <1>1, <2>1, <3>2, <3>3
  <2>4. CASE L.pos[y] = L.pos[u] - 1
    <3>1. u # h
      BY <2>2, <2>4, <1>2
    <3>2. u \in D
      BY <3>1
    <3>3. up[u] = y
      BY <3>2, <1>3, <1>4, <2>1, <2>2, <2>4
    <3> QED
      BY <1>1, <2>1, <3>2, <3>3
  <2> QED
    BY <2>1, <2>3, <2>4
<1> QED
  BY <1>5, <1>6

-----------------------------------------------------------------------------
(* The invariant.                                                          *)

\* The inductive invariant: the nodes hold some layout, hung up as some forest.
Inv == \E L, up, B : Whole(nodes, L, up, B)

\* At first every vertex is a path and a tree of its own.
LEMMA InitWhole ==
  ASSUME Init
  PROVE  Inv
<1> DEFINE r(v) == [left |-> NoVertex, right |-> NoVertex, parent |-> NoVertex,
                    dparent |-> NoVertex, head |-> v, tail |-> v, reversed |-> FALSE,
                    preferred |-> <<NoEdge, NoEdge>>, edges |-> [e \in {} |-> 0], max |-> None]
           L == [hd |-> [v \in Vertex |-> v], pos |-> [v \in Vertex |-> 0],
                 lo |-> [v \in Vertex |-> 0], hi |-> [v \in Vertex |-> 0],
                 flip |-> [v \in Vertex |-> FALSE]]
           up == [v \in Vertex |-> NoVertex]
           B == [v \in Vertex |-> v]
           R == [v \in Vertex |-> 0]
<1>1. NoVertex \notin Vertex
  BY LctAssumption
<1>2. nodes = [v \in Vertex |-> r(v)]
  BY DEF Init
<1>3. ASSUME NEW v \in Vertex PROVE r(v) \in Node
  <2>1. [e \in {} |-> 0] \in UNION {[F -> Weight] : F \in SUBSET Edge}
    <3>1. [e \in {} |-> 0] \in [{} -> Weight] /\ {} \in SUBSET Edge
      OBVIOUS
    <3> QED
      BY <3>1
  <2>2. None \in (Weight \cup {0}) \X (Edge \cup {NoEdge})
    BY DEF None
  <2>3. <<NoEdge, NoEdge>> \in [1 .. 2 -> Edge \cup {NoEdge}]
    OBVIOUS
  <2> QED
    BY <2>1, <2>2, <2>3 DEF Node
<1>4. nodes \in Nodes
  BY <1>2, <1>3 DEF Nodes
<1>5. \A v \in Vertex : /\ nodes[v].left = NoVertex /\ nodes[v].right = NoVertex
                        /\ nodes[v].parent = NoVertex /\ nodes[v].dparent = NoVertex
                        /\ nodes[v].head = v /\ nodes[v].tail = v /\ nodes[v].reversed = FALSE
                        /\ nodes[v].preferred[1] = NoEdge /\ nodes[v].preferred[2] = NoEdge
                        /\ DOMAIN nodes[v].edges = {} /\ nodes[v].max = None
  BY <1>2
<1>6. /\ L \in Layouts
      /\ \A v \in Vertex : L.hd[v] = v /\ L.pos[v] = 0 /\ L.lo[v] = 0 /\ L.hi[v] = 0
                           /\ L.flip[v] = FALSE
  BY DEF Layouts
<1> HIDE DEF L, r
<1>7. Spans(L)
  BY <1>6 DEF Spans, Apart
<1>8. Children(nodes, L)
  <2>1. \A v \in Vertex : Early(nodes, L, v) = NoVertex /\ Late(nodes, L, v) = NoVertex
    BY <1>5 DEF Early, Late
  <2>2. \A v \in Vertex : L.lo[v] = (L.pos[v] - 1) + 1 /\ L.pos[v] + 1 = L.hi[v] + 1
    BY <1>6
  <2> QED
    BY <2>1, <2>2 DEF Children, ChildOf
<1>9. Parents(nodes, L)
  <2>1. \A v \in Vertex : /\ nodes[v].parent = NoVertex /\ L.flip[v] = nodes[v].reversed
                          /\ L.pos[L.hd[v]] = L.lo[v]
    BY <1>5, <1>6
  <2>2. \A u, v \in Vertex : L.hd[u] = L.hd[v] => Within(L, u, v)
    BY <1>6 DEF Within
  <2> QED
    BY <2>1, <2>2 DEF Parents
<1>10. Shape(nodes, L)
  BY <1>4, <1>6, <1>7, <1>8, <1>9 DEF Shape
<1>11. Slots(nodes, L)
  <2>1. \A x \in Vertex : Beside(L, x) = {}
    BY <1>6 DEF Beside
  <2>2. \A x \in Vertex : Taken(nodes, x) = {}
    BY <1>5 DEF Taken
  <2> QED
    BY <2>1, <2>2, <1>5 DEF Slots, Holds
<1>12. Rooted(nodes, L)
  BY <1>5, <1>6 DEF Rooted, Ends
<1>13. /\ up \in [Vertex -> Some] /\ \A v \in Vertex : up[v] = NoVertex
       /\ B \in [Vertex -> Vertex] /\ \A v \in Vertex : B[v] = v
       /\ 0 \in Nat /\ R \in [Vertex -> 0 .. 0]
  BY DEF Some
<1> HIDE DEF up, B, R
<1>14. Carries(nodes, L, up)
  BY <1>5, <1>6, <1>13 DEF Carries
<1>15. Ranked(up, B, R, 0)
  BY <1>13 DEF Ranked
<1>16. Caches(nodes, L, {})
  <2>1. \A x \in Vertex : Own(nodes, x) = {}
    BY <1>5 DEF Own
  <2>2. \A x \in Vertex : Heaviest(nodes, L, x)
    BY <2>1, <1>5 DEF Heaviest
  <2> QED
    BY <2>2 DEF Caches
<1>17. Weighed(nodes, TreeEdges(up))
  <2>1. TreeEdges(up) = {}
    BY <1>13 DEF TreeEdges
  <2> QED
    BY <2>1, <1>5 DEF Weighed
<1>18. Sound(nodes, L)
  BY <1>10, <1>11, <1>12 DEF Sound
<1>19. Whole(nodes, L, up, B)
  BY <1>14, <1>15, <1>16, <1>17, <1>18 DEF Whole
<1> QED
  BY <1>19 DEF Inv

\* What a call does to the forest.
Asks(n, F, m, G) == G = F /\ \A x \in Vertex : m[x].edges = n[x].edges
\* Behind link the forest has one edge more, between two of its trees.
Links(n, B, F, m, G) ==
  \E v, w \in Vertex, weight \in Weight :
    B[v] # B[w] /\ Told(n, v, w, weight, m) /\ G = F \cup {{v, w}}
\* Behind cut it has one edge less.
Cuts(n, F, m, G) ==
  \E v, w \in Vertex : {v, w} \in F /\ Untold(n, v, w, m) /\ G = F \ {{v, w}}

\* The invariant is kept by the calls.
LEMMA NextWhole ==
  ASSUME NEW L, NEW up, NEW B, Whole(nodes, L, up, B), Next
  PROVE  \E K, g, A : /\ Whole(nodes', K, g, A)
                      /\ \/ Asks(nodes, TreeEdges(up), nodes', TreeEdges(g))
                         \/ Links(nodes, B, TreeEdges(up), nodes', TreeEdges(g))
                         \/ Cuts(nodes, TreeEdges(up), nodes', TreeEdges(g))
<1> DEFINE F == TreeEdges(up)
<1>1. ForestEdges = F
  <2>1. Shape(nodes, L) /\ Carries(nodes, L, up)
    BY DEF Whole, Sound
  <2> QED
    BY <2>1, ForestEdgesAre
<1>2. PICK R, C : Ranked(up, B, R, C)
  BY DEF Whole
<1>3. up \in [Vertex -> Some] /\ F \in SUBSET Edge
  <2>1. up \in [Vertex -> Some]
    BY DEF Whole, Carries
  <2> QED
    BY <2>1, <1>2, TreeEdgesIn
<1>4. PICK tree \in Blocks(F, Vertex), v \in Vertex :
        /\ v \in tree
        /\ \/ FindRoot(v)
           \/ \E w \in tree \ {v} : PathAggregate(v, w)
           \/ \E w \in tree \ {v} : {v, w} \in DOMAIN nodes[v].edges /\ Cut(v, w)
           \/ \E w \in Vertex \ tree, weight \in Weight : Link(v, w, weight)
  BY <1>1 DEF Next
<1>5. tree = Component(F, v) /\ tree \subseteq Vertex
  <2>1. PICK u \in Vertex : tree = Component(F, u) \cap Vertex
    BY DEF Blocks
  <2>2. tree = Component(F, u)
    BY <2>1, ComponentInVertex
  <2> QED
    BY <2>1, <2>2, <1>3, <1>4, ComponentEqual
<1> HIDE DEF F
<1>6. CASE FindRoot(v)
  <2> DEFINE q == Expose(nodes, v)
  <2>1. nodes' = q.nodes
    BY <1>6 DEF FindRoot
  <2>2. PICK K : Exposed(nodes, L, up, B, v, q.nodes, q.root, K) /\ Whole(q.nodes, K, up, B)
    BY ExposeKeeps
  <2>3. Asks(nodes, F, q.nodes, F)
    BY <2>2 DEF Exposed, Exposing, Asks
  <2> HIDE DEF q
  <2> QED
    BY <2>1, <2>2, <2>3 DEF F
<1>7. CASE \E w \in tree \ {v} : PathAggregate(v, w)
  <2>1. PICK w \in Vertex : PathAggregate(v, w)
    BY <1>5, <1>7
  <2> DEFINE a == Evert(nodes, v)
             q == Expose(a.nodes, w)
  <2>2. nodes' = q.nodes
    BY <2>1 DEF PathAggregate, PathBetween
  <2>3. PICK M, g, A : Everted(nodes, L, up, B, v, a.nodes, a.root, M, g, A) /\ Whole(a.nodes, M, g, A)
    BY EvertKeeps
  <2>4. PICK K : Exposed(a.nodes, M, g, A, w, q.nodes, q.root, K) /\ Whole(q.nodes, K, g, A)
    BY <2>3, ExposeKeeps
  <2>5. TreeEdges(g) = F /\ \A x \in Vertex : a.nodes[x].edges = nodes[x].edges
    BY <2>3 DEF Everted, F
  <2>6. Asks(nodes, F, q.nodes, TreeEdges(g))
    BY <2>4, <2>5 DEF Exposed, Exposing, Asks
  <2> HIDE DEF q
  <2> QED
    BY <2>2, <2>4, <2>6 DEF F
<1>8. CASE \E w \in tree \ {v} : {v, w} \in DOMAIN nodes[v].edges /\ Cut(v, w)
  <2>1. PICK w \in Vertex : {v, w} \in DOMAIN nodes[v].edges /\ Cut(v, w)
    BY <1>5, <1>8
  <2>2. {v, w} \in TreeEdges(up)
    BY <2>1 DEF Whole, Weighed
  <2>3. nodes' = WithoutEdge(nodes, v, w)
    BY <2>1 DEF Cut
  <2>4. Carry(nodes', TreeEdges(up) \ {{v, w}}) /\ Untold(nodes, v, w, nodes')
    BY <2>2, <2>3, CutKeeps
  <2>5. PICK K, g, A : Whole(nodes', K, g, A) /\ TreeEdges(g) = F \ {{v, w}}
    BY <2>4 DEF F, Carry
  <2>6. Cuts(nodes, F, nodes', TreeEdges(g))
    BY <2>2, <2>4, <2>5 DEF Cuts, F
  <2> QED
    BY <2>5, <2>6 DEF F
<1>9. CASE \E w \in Vertex \ tree, weight \in Weight : Link(v, w, weight)
  <2>1. PICK w \in Vertex \ tree, weight \in Weight : Link(v, w, weight)
    BY <1>9
  <2>2. ~Connected(F, v, w)
    BY <2>1, <1>5 DEF Connected
  <2>3. B[v] # B[w]
    BY <2>2, <1>2, <1>3, RootsAre DEF F
  <2>4. nodes' = Linked(nodes, v, w, weight)
    BY <2>1 DEF Link
  <2>5. Carry(nodes', TreeEdges(up) \cup {{v, w}}) /\ Told(nodes, v, w, weight, nodes')
    BY <2>3, <2>4, LinkKeeps
  <2>6. PICK K, g, A : Whole(nodes', K, g, A) /\ TreeEdges(g) = F \cup {{v, w}}
    BY <2>5 DEF F, Carry
  <2>7. Links(nodes, B, F, nodes', TreeEdges(g))
    BY <2>3, <2>5, <2>6 DEF Links
  <2> QED
    BY <2>6, <2>7 DEF F
<1> QED
  BY <1>4, <1>6, <1>7, <1>8, <1>9

\* The pointers always carry trees that the nodes know the edges of, and every
\* node that is not being worked at caches a heaviest edge of its subtree.
THEOREM TreesAreWhole == Spec => []Inv
<1>1. Init => Inv
  BY InitWhole
<1>2. Inv /\ [Next]_nodes => Inv'
  <2> SUFFICES ASSUME Inv, [Next]_nodes PROVE Inv'
    OBVIOUS
  <2>1. PICK L, up, B : Whole(nodes, L, up, B)
    BY DEF Inv
  <2>2. CASE Next
    BY <2>1, <2>2, NextWhole DEF Inv
  <2>3. CASE UNCHANGED nodes
    BY <2>1, <2>3 DEF Inv
  <2> QED
    BY <2>2, <2>3
<1> QED
  BY <1>1, <1>2, PTL DEF Spec

-----------------------------------------------------------------------------
(* What is represented, and what is cached.                                *)

\* The forest with its weights, as each end of an edge has them.
Represents(f, n, F) ==
  /\ f = [e \in F |-> f[e]] /\ DOMAIN f = F
  /\ \A e \in F : e \in Edge /\ \A x \in e : x \in Vertex /\ f[e] = n[x].edges[e] /\ f[e] \in Weight

\* Both ends of an edge know it.
LEMMA RepresentedIs ==
  ASSUME NEW L, NEW up, NEW B, Whole(nodes, L, up, B)
  PROVE  Represents(Represented, nodes, TreeEdges(up))
<1> DEFINE F == TreeEdges(up)
           f == Represented
           W(e) == IF \A v \in e : e \in DOMAIN nodes[v].edges
                   THEN nodes[CHOOSE v \in e : TRUE].edges[e] ELSE -1
<1>1. ForestEdges = F
  BY ForestEdgesAre DEF Whole, Sound
<1>2. f = [e \in F |-> W(e)]
  BY <1>1 DEF Represented
<1>3. F \in SUBSET Edge
  <2>1. PICK R, C : Ranked(up, B, R, C)
    BY DEF Whole
  <2>2. up \in [Vertex -> Some]
    BY DEF Whole, Carries
  <2> QED
    BY <2>1, <2>2, TreeEdgesIn
<1>4. nodes \in Nodes
  BY DEF Whole, Sound, Shape
<1>5. /\ \A x \in Vertex : DOMAIN nodes[x].edges = {e \in F : x \in e}
      /\ \A x, y \in Vertex, e \in F : x \in e /\ y \in e => nodes[x].edges[e] = nodes[y].edges[e]
  BY DEF Whole, Weighed
<1> HIDE DEF f, F
<1>6. ASSUME NEW e \in F, NEW x \in e
      PROVE  x \in Vertex /\ f[e] = nodes[x].edges[e] /\ f[e] \in Weight
  <2>1. \A y \in e : y \in Vertex /\ e \in DOMAIN nodes[y].edges
    BY <1>3, <1>5, EdgeInVertex
  <2> DEFINE c == CHOOSE y \in e : TRUE
  <2>2. c \in e
    OBVIOUS
  <2>3. f[e] = nodes[c].edges[e]
    BY <1>2, <2>1
  <2> HIDE DEF c
  <2>4. nodes[c].edges[e] = nodes[x].edges[e]
    <3>1. c \in Vertex /\ x \in Vertex /\ e \in F /\ c \in e /\ x \in e
      BY <2>1, <2>2
    <3> QED
      BY <3>1, <1>5
  <2>5. nodes[x].edges \in UNION {[E -> Weight] : E \in SUBSET Edge}
    <3>1. nodes[x] \in Node
      BY <1>4, <2>1, NodeFields
    <3> QED
      BY <3>1 DEF Node
  <2>6. PICK E \in SUBSET Edge : nodes[x].edges \in [E -> Weight]
    BY <2>5
  <2>7. nodes[x].edges[e] \in Weight
    BY <2>1, <2>6
  <2> QED
    BY <2>1, <2>3, <2>4, <2>7
<1>7. f = [e \in F |-> f[e]] /\ DOMAIN f = F
  BY <1>2
<1> QED
  BY <1>3, <1>6, <1>7 DEF Represents, f, F

\* What a node caches, in a whole path, is its heaviest edge.
MaxIs(P, f, q) ==
  /\ q = None \/ (q[2] \in P /\ q[1] = f[q[2]])
  /\ \A e \in P : f[e] <= q[1]

\* The root of a path caches the heaviest of its edges.
LEMMA HeaviestIs ==
  ASSUME NEW n, NEW L, NEW up, NEW B, Whole(n, L, up, B),
         NEW f, Represents(f, n, TreeEdges(up)),
         NEW r \in Vertex, n[r].parent = NoVertex, NEW path, Along(n, L, r, path)
  PROVE  Preferred(path) \subseteq TreeEdges(up) /\ MaxIs(Preferred(path), f, n[r].max)
<1> DEFINE F == TreeEdges(up)
           P == Preferred(path)
           h == L.hd[r]
<1>1. Shape(n, L) /\ Carries(n, L, up) /\ Slots(n, L)
  BY DEF Whole, Sound
<1>2. \A u \in Vertex : L.hd[u] = h => Beside(L, u) = {e \in P : u \in e}
  BY <1>1, BesidePreferred
<1>3. P = {{x, up[x]} : x \in {y \in Vertex : L.hd[y] = h /\ y # h}}
  BY <1>1, PreferredIs
<1>4. \A x \in Vertex : L.hd[x] = h /\ x # h => up[x] \in Vertex
  <2>1. L.hd[h] = h
    BY <1>1, RootSpan
  <2> QED
    BY <1>1, <2>1 DEF Carries
<1>5. NoVertex \notin Vertex
  BY LctAssumption
<1>6. P \subseteq F
  BY <1>3, <1>4, <1>5 DEF TreeEdges
<1>7. \A u \in Vertex : L.hd[u] = h <=> Within(L, u, r)
  BY <1>1 DEF Shape, Parents, Within
<1>8. Heaviest(n, L, r)
  BY DEF Whole, Caches
<1>9. \A x \in Vertex : DOMAIN n[x].edges = {e \in F : x \in e}
  BY DEF Whole, Weighed
<1>10. ASSUME NEW u \in Vertex, L.hd[u] = h
       PROVE  Own(n, u) = {<<f[e], e>> : e \in {e \in P : u \in e}}
  <2>1. Taken(n, u) = {e \in P : u \in e}
    BY <1>1, <1>2, <1>10 DEF Slots, Holds
  <2>2. \A e \in {n[u].preferred[1], n[u].preferred[2]} \cap DOMAIN n[u].edges : e # NoEdge
    BY <1>9 DEF NoEdge
  <2>3. {n[u].preferred[1], n[u].preferred[2]} \cap DOMAIN n[u].edges = {e \in P : u \in e}
    BY <2>1, <2>2, <1>6, <1>9 DEF Taken
  <2>4. \A e \in P : u \in e => n[u].edges[e] = f[e]
    BY <1>6 DEF Represents
  <2>5. Own(n, u) = {<<n[u].edges[e], e>> : e \in {e \in P : u \in e}}
    BY <2>3 DEF Own
  <2> HIDE DEF P
  <2> QED
    BY <2>4, <2>5
<1> DEFINE q == n[r].max
<1> HIDE DEF P, F, q
<1>11. q = None \/ (q[2] \in P /\ q[1] = f[q[2]])
  <2>1. CASE \E u \in Vertex : Within(L, u, r) /\ q \in Own(n, u)
    <3>1. PICK u \in Vertex : L.hd[u] = h /\ q \in Own(n, u)
      BY <2>1, <1>7
    <3>2. PICK e \in P : q = <<f[e], e>>
      BY <3>1, <1>10
    <3> QED
      BY <3>2
  <2> QED
    BY <2>1, <1>8 DEF Heaviest, q
<1>12. ASSUME NEW e \in P PROVE f[e] <= q[1]
  <2>1. PICK x \in Vertex : L.hd[x] = h /\ e = {x, up[x]}
    BY <1>3 DEF P
  <2>2. <<f[e], e>> \in Own(n, x)
    BY <2>1, <1>10
  <2>3. Within(L, x, r)
    BY <2>1, <1>7
  <2>4. \A p \in Own(n, x) : p[1] <= q[1]
    BY <2>3, <1>8 DEF Heaviest, q
  <2>5. <<f[e], e>>[1] <= q[1]
    BY <2>2, <2>4
  <2> QED
    BY <2>5
<1> QED
  BY <1>6, <1>11, <1>12 DEF MaxIs, P, F, q

\* What is cached at the nodes and at the roots of the paths.
LEMMA WholeAgrees ==
  ASSUME Inv
  PROVE  CachesAgree
<1> DEFINE f == Represented
<1>1. PICK L, up, B : Whole(nodes, L, up, B)
  BY DEF Inv
<1>2. Shape(nodes, L) /\ Carries(nodes, L, up) /\ Slots(nodes, L) /\ Rooted(nodes, L)
  BY <1>1 DEF Whole, Sound
<1>3. Represents(f, nodes, TreeEdges(up))
  BY <1>1, RepresentedIs
<1>4. ASSUME NEW v \in Vertex, NEW c \in {nodes[v].left, nodes[v].right} \ {NoVertex}
      PROVE  nodes[c].parent = v
  BY <1>2, ChildIs
<1> HIDE DEF f
<1>5. ASSUME NEW r \in Roots
      PROVE  LET path == PathOf(r)
                 weights == {f[e] : e \in Preferred(path)} \cup {0}
             IN  /\ nodes[r].head = path[1]
                 /\ nodes[r].tail = Last(path)
                 /\ nodes[r].max[1] \in weights
                 /\ \A weight \in weights : weight <= nodes[r].max[1]
                 /\ \A i \in 2 .. Len(path) : nodes[path[i]].dparent = NoVertex
                 /\ \A i \in DOMAIN path :
                      {nodes[path[i]].preferred[j] : j \in {1, 2}} \ {NoEdge}
                        = {e \in Preferred(path) : path[i] \in e}
  <2> DEFINE path == PathOf(r)
             h == L.hd[r]
             q == nodes[r].max
             weights == {f[e] : e \in Preferred(path)} \cup {0}
  <2>1. r \in Vertex /\ nodes[r].parent = NoVertex
    BY DEF Roots
  <2>2. Along(nodes, L, r, path)
    BY <2>1, <1>2, AlongIs DEF PathOf
  <2>3. /\ L.pos[h] = L.lo[r] /\ L.hd[h] = h /\ L.lo[r] \in Int /\ L.hi[r] \in Int
        /\ L.lo[r] <= L.hi[r]
    BY <2>1, <1>2, RootSpan
  <2>4. /\ Len(path) = L.hi[r] - L.lo[r] + 1 /\ DOMAIN path = 1 .. Len(path) /\ path[1] = h
        /\ \A i \in 1 .. Len(path) : /\ path[i] \in Vertex /\ L.hd[path[i]] = h
                                     /\ L.pos[path[i]] = L.lo[r] + i - 1
    BY <2>2 DEF Along
  <2>5. Ends(nodes, L, r)
    BY <2>1, <1>2 DEF Rooted
  <2>6. MaxIs(Preferred(path), f, q)
    BY <2>1, <2>2, <1>1, <1>3, HeaviestIs
  <2>7. \A i \in 1 .. Len(path) : Beside(L, path[i]) = {e \in Preferred(path) : path[i] \in e}
    <3> SUFFICES ASSUME NEW i \in 1 .. Len(path)
                 PROVE  Beside(L, path[i]) = {e \in Preferred(path) : path[i] \in e}
      OBVIOUS
    <3>1. path[i] \in Vertex /\ L.hd[path[i]] = h
      BY <2>4
    <3> HIDE DEF path
    <3> QED
      BY <2>1, <2>2, <3>1, <1>2, BesidePreferred
  <2>8. \A x, y \in Vertex : L.hd[x] = L.hd[y] /\ L.pos[x] = L.pos[y] => x = y
    BY <1>2 DEF Shape, Spans
  <2> HIDE DEF path, q
  <2>9. nodes[r].head = path[1]
    BY <2>4, <2>5 DEF Ends
  <2>10. nodes[r].tail = Last(path)
    <3>1. Len(path) \in 1 .. Len(path) /\ L.lo[r] + Len(path) - 1 = L.hi[r]
      BY <2>3, <2>4
    <3>2. /\ path[Len(path)] \in Vertex /\ L.hd[path[Len(path)]] = h
          /\ L.pos[path[Len(path)]] = L.hi[r]
      BY <3>1, <2>4
    <3> QED
      BY <3>2, <2>5, <2>8 DEF Ends, Last
  <2>11. q \in Pair
    BY <2>1, <1>2, NodeFields DEF Shape, q, Pair
  <2>12. q[1] \in Nat
    BY <2>11, PairIs
  <2>13. q[1] \in weights
    <3>1. CASE q = None
      BY <3>1 DEF None
    <3>2. CASE q # None
      BY <3>2, <2>6 DEF MaxIs
    <3> QED
      BY <3>1, <3>2
  <2>14. \A weight \in weights : weight <= q[1]
    BY <2>6, <2>12 DEF MaxIs
  <2>15. ASSUME NEW i \in 2 .. Len(path) PROVE nodes[path[i]].dparent = NoVertex
    <3>1. i \in 1 .. Len(path) /\ i # 1
      OBVIOUS
    <3>2. path[i] \in Vertex /\ L.hd[path[i]] = h /\ path[i] # h
      BY <3>1, <2>3, <2>4
    <3> QED
      BY <3>2, <1>2 DEF Carries
  <2>16. ASSUME NEW i \in DOMAIN path
         PROVE  {nodes[path[i]].preferred[j] : j \in {1, 2}} \ {NoEdge}
                  = {e \in Preferred(path) : path[i] \in e}
    <3>1. path[i] \in Vertex /\ Taken(nodes, path[i]) = Beside(L, path[i])
      BY <2>4, <1>2 DEF Slots, Holds
    <3>2. {nodes[path[i]].preferred[j] : j \in {1, 2}} = {nodes[path[i]].preferred[1], nodes[path[i]].preferred[2]}
      OBVIOUS
    <3> QED
      BY <3>1, <3>2, <2>4, <2>7 DEF Taken
  <2> QED
    BY <2>9, <2>10, <2>13, <2>14, <2>15, <2>16 DEF path, q
<1> QED
  BY <1>4, <1>5 DEF CachesAgree, f

\* The nodes have the fields of a node.
THEOREM NodesAlways == Spec => []TypeOK
<1>1. Inv => TypeOK
  BY DEF Inv, Whole, Sound, Shape, TypeOK, Nodes
<1> QED
  BY <1>1, TreesAreWhole, PTL

\* What is cached at the roots of the splay trees agrees with what the pointers
\* say, in every state the calls lead to.
THEOREM CachesAgreeAlways == Spec => []CachesAgree
<1>1. Inv => CachesAgree
  BY WholeAgrees
<1> QED
  BY <1>1, TreesAreWhole, PTL

-----------------------------------------------------------------------------
(* Refinement.                                                             *)

\* The forest read from the nodes is that of their layout.
Mapped ==
  \A L, up, B : Whole(nodes, L, up, B) => Represents(Represented, nodes, TreeEdges(up))

\* The abstract specification speaks of the same graphs.
LEMMA SameTrees ==
  Trees!Edge = Edge /\ \A F, e : Trees!Joins(F, e) = Joins(F, e)
<1>1. \A F, v : Trees!Component(F, v) = Component(F, v)
  BY DEF Trees!Component, Component, Trees!Closed, Closed
<1>2. \A F, e : Trees!Joins(F, e) = Joins(F, e)
  BY <1>1 DEF Trees!Joins, Joins, Trees!Connected, Connected
<1> QED
  BY <1>2 DEF Trees!Edge, Edge

\* The calls ask, link and cut.
LEMMA CallsAre ==
  ASSUME NEW L, NEW up, NEW B, Whole(nodes, L, up, B), Mapped, Mapped', Next
  PROVE  Trees!Next
<1> DEFINE F == TreeEdges(up)
           f == Represented
<1>1. PICK K, g, A : /\ Whole(nodes', K, g, A)
                     /\ \/ Asks(nodes, F, nodes', TreeEdges(g))
                        \/ Links(nodes, B, F, nodes', TreeEdges(g))
                        \/ Cuts(nodes, F, nodes', TreeEdges(g))
  BY NextWhole
<1> DEFINE G == TreeEdges(g)
<1>2. /\ f = [e \in F |-> f[e]] /\ DOMAIN f = F
      /\ \A e \in F : e \in Edge /\ \A x \in e : x \in Vertex /\ f[e] = nodes[x].edges[e]
  BY DEF Mapped, Represents
<1>3. /\ f' = [e \in G |-> f'[e]]
      /\ \A e \in G : e \in Edge /\ \A x \in e : x \in Vertex /\ f'[e] = nodes'[x].edges[e]
  BY <1>1 DEF Mapped, Represents
<1>4. \A x \in Vertex : DOMAIN nodes[x].edges = {e \in F : x \in e}
  BY DEF Whole, Weighed
<1>5. up \in [Vertex -> Some] /\ F \in SUBSET Edge /\ \E R, C : Ranked(up, B, R, C)
  BY <1>2 DEF Whole, Carries
<1> HIDE DEF f, F, G
<1>6. \A e \in Edge : \E x : x \in e
  BY EdgeEnds
<1>7. CASE Asks(nodes, F, nodes', G)
  <2>1. G = F /\ \A x \in Vertex : nodes'[x].edges = nodes[x].edges
    BY <1>7 DEF Asks
  <2>2. ASSUME NEW e \in F PROVE f'[e] = f[e]
    <3>1. PICK x \in e : TRUE
      BY <1>2, <1>6
    <3>2. x \in Vertex /\ f[e] = nodes[x].edges[e] /\ f'[e] = nodes'[x].edges[e]
      BY <2>1, <1>2, <1>3
    <3> QED
      BY <2>1, <3>2
  <2>3. f' = f
    BY <2>1, <2>2, <1>2, <1>3
  <2>4. Trees!Ask
    BY <2>3 DEF Trees!Ask, f
  <2> QED
    BY <2>4 DEF Trees!Next
<1>8. CASE Links(nodes, B, F, nodes', G)
  <2>1. PICK v, w \in Vertex, weight \in Weight :
          B[v] # B[w] /\ Told(nodes, v, w, weight, nodes') /\ G = F \cup {{v, w}}
    BY <1>8 DEF Links
  <2> DEFINE d == {v, w}
  <2>2. d \in Edge
    BY <2>1 DEF Edge
  <2>3. ~Joins(F, d)
    <3>1. ~Connected(F, v, w)
      BY <2>1, <1>5, RootsAre DEF F
    <3> QED
      BY <3>1, <1>5, JoinsPair
  <2>4. \A x \in Vertex :
          nodes'[x].edges = IF x \in d THEN PutEdge(nodes[x].edges, d, weight) ELSE nodes[x].edges
    BY <2>1 DEF Told
  <2>5. v \in d /\ G = F \cup {d}
    BY <2>1
  <2> HIDE DEF d
  <2>6. ASSUME NEW e \in G PROVE f'[e] = IF e = d THEN weight ELSE f[e]
    <3>1. CASE e = d
      <4>1. nodes'[v].edges = PutEdge(nodes[v].edges, d, weight)
        BY <2>4, <2>5
      <4>2. nodes'[v].edges[d] = weight
        BY <4>1 DEF PutEdge
      <4>3. f'[d] = nodes'[v].edges[d]
        BY <3>1, <2>5, <1>3
      <4> QED
        BY <3>1, <4>2, <4>3
    <3>2. CASE e # d
      <4>1. e \in F
        BY <3>2, <2>5
      <4>2. PICK x \in e : TRUE
        BY <4>1, <1>2, <1>6
      <4>3. x \in Vertex /\ f[e] = nodes[x].edges[e] /\ f'[e] = nodes'[x].edges[e]
        BY <4>1, <1>2, <1>3
      <4>4. e \in DOMAIN nodes[x].edges
        BY <4>1, <4>3, <1>4
      <4>5. nodes'[x].edges[e] = nodes[x].edges[e]
        BY <3>2, <4>3, <4>4, <2>4 DEF PutEdge
      <4> QED
        BY <3>2, <4>3, <4>5
    <3> QED
      BY <3>1, <3>2
  <2>7. f' = [e \in F \cup {d} |-> IF e = d THEN weight ELSE f[e]]
    <3>1. f' = [e \in G |-> f'[e]]
      BY <1>3
    <3>2. f' = [e \in G |-> IF e = d THEN weight ELSE f[e]]
      BY <3>1, <2>6
    <3> QED
      BY <3>2, <2>5
  <2>8. DOMAIN f = F
    BY <1>2
  <2>9. f' = Trees!LctLink(f, d, weight)
    BY <2>7, <2>8 DEF Trees!LctLink
  <2>10. ~Trees!Joins(DOMAIN f, d)
    BY <2>3, <2>8, SameTrees
  <2>11. Trees!Link(d, weight)
    BY <2>9, <2>10 DEF Trees!Link, f
  <2>12. d \in Trees!Edge
    BY <2>2, SameTrees
  <2> QED
    BY <2>1, <2>11, <2>12 DEF Trees!Next
<1>9. CASE Cuts(nodes, F, nodes', G)
  <2>1. PICK v, w \in Vertex : {v, w} \in F /\ Untold(nodes, v, w, nodes') /\ G = F \ {{v, w}}
    BY <1>9 DEF Cuts
  <2> DEFINE d == {v, w}
  <2>2. d \in F /\ G = F \ {d}
    BY <2>1
  <2>3. \A x \in Vertex :
          nodes'[x].edges = IF x \in d THEN DropEdge(nodes[x].edges, d) ELSE nodes[x].edges
    BY <2>1 DEF Untold
  <2> HIDE DEF d
  <2>4. ASSUME NEW e \in G PROVE f'[e] = f[e]
    <3>1. e \in F /\ e # d
      BY <2>2
    <3>2. PICK x \in e : TRUE
      BY <3>1, <1>2, <1>6
    <3>3. x \in Vertex /\ f[e] = nodes[x].edges[e] /\ f'[e] = nodes'[x].edges[e]
      BY <3>1, <1>2, <1>3
    <3>4. e \in DOMAIN nodes[x].edges
      BY <3>1, <3>3, <1>4
    <3>5. nodes'[x].edges[e] = nodes[x].edges[e]
      BY <3>1, <3>3, <3>4, <2>3 DEF DropEdge
    <3> QED
      BY <3>3, <3>5
  <2>5. f' = [e \in F \ {d} |-> f[e]]
    BY <2>2, <2>4, <1>3
  <2>6. Trees!Cut(d) /\ d \in DOMAIN f
    BY <2>2, <2>5, <1>2 DEF Trees!Cut, Trees!LctCut, f
  <2> QED
    BY <2>6 DEF Trees!Next, f
<1> QED
  BY <1>1, <1>7, <1>8, <1>9 DEF G

\* Link, cut and all the exposing between them change the weighted forest that
\* the pointers carry by the one edge, with its weight: the link-cut tree is the
\* forest that the tiers are told of.
THEOREM KeepsForestAlways == Spec => KeepsForest
<1>1. Mapped
  BY RepresentedIs DEF Mapped
<1>2. Init => Trees!Init
  <2> SUFFICES ASSUME Init PROVE Trees!Init
    OBVIOUS
  <2>1. PICK L, up, B : Whole(nodes, L, up, B)
    BY InitWhole DEF Inv
  <2>2. Represents(Represented, nodes, TreeEdges(up))
    BY <2>1, RepresentedIs
  <2>3. \A x \in Vertex : DOMAIN nodes[x].edges = {e \in TreeEdges(up) : x \in e}
    BY <2>1 DEF Whole, Weighed
  <2>4. \A x \in Vertex : DOMAIN nodes[x].edges = {}
    BY DEF Init
  <2>5. TreeEdges(up) = {}
    <3> SUFFICES ASSUME NEW e \in TreeEdges(up) PROVE FALSE
      OBVIOUS
    <3>1. e \in Edge /\ \A x \in e : x \in Vertex
      BY <2>2 DEF Represents
    <3>2. PICK x \in Vertex : x \in e
      BY <3>1, EdgeEnds
    <3> QED
      BY <3>2, <2>3, <2>4
  <2>6. Represented = [e \in {} |-> 0]
    BY <2>2, <2>5 DEF Represents
  <2> QED
    BY <2>6 DEF Trees!Init
<1>3. Inv /\ Mapped /\ Mapped' /\ [Next]_nodes => [Trees!Next]_Represented
  <2> SUFFICES ASSUME Inv, Mapped, Mapped', [Next]_nodes PROVE [Trees!Next]_Represented
    OBVIOUS
  <2>1. PICK L, up, B : Whole(nodes, L, up, B)
    BY DEF Inv
  <2>2. CASE Next
    BY <2>1, <2>2, CallsAre
  <2>3. CASE UNCHANGED nodes
    <3>1. UNCHANGED Represented
      BY <2>3 DEF Represented, ForestEdges, PathOf, Roots
    <3> QED
      BY <3>1
  <2> QED
    BY <2>2, <2>3
<1> QED
  BY <1>1, <1>2, <1>3, TreesAreWhole, PTL DEF Spec, KeepsForest, Trees!Spec

-----------------------------------------------------------------------------
(* The answers.                                                            *)

\* find_root, after whatever calls, answers with the root of the tree.
LEMMA FindRootIs ==
  ASSUME NEW n, NEW L, NEW up, NEW B, Whole(n, L, up, B), NEW v \in Vertex,
         NEW q, q = Expose(n, v)
  PROVE  q.nodes[q.root].head = B[v] /\ \E K : Whole(q.nodes, K, up, B)
<1>1. PICK K : Exposed(n, L, up, B, v, q.nodes, q.root, K) /\ Whole(q.nodes, K, up, B)
  BY ExposeKeeps
<1>2. q \in Paths
  BY ExposeKeeps
<1>3. q.root \in Vertex
  BY <1>2 DEF Paths
<1>4. q.nodes[q.root].parent = NoVertex /\ K.hd[q.root] = B[v]
  BY <1>1 DEF Exposed, Exposing
<1>5. Rooted(q.nodes, K)
  BY <1>1 DEF Whole, Sound
<1>6. q.nodes[q.root].head = B[v]
  BY <1>3, <1>4, <1>5 DEF Rooted, Ends
<1> QED
  BY <1>1, <1>6

\* The trees of the forest, and what connects two vertices.
LEMMA TreeOf ==
  ASSUME NEW F \in SUBSET Edge, NEW tree \in Blocks(F, Vertex), NEW v \in tree
  PROVE  v \in Vertex /\ tree = Component(F, v) /\ \A w \in tree : w \in Vertex /\ Connected(F, v, w)
<1>1. PICK u \in Vertex : tree = Component(F, u) \cap Vertex
  BY DEF Blocks
<1>2. tree = Component(F, u) /\ v \in Component(F, u)
  BY <1>1, ComponentInVertex
<1>3. tree = Component(F, v) /\ v \in Vertex
  BY <1>1, <1>2, ComponentEqual
<1> QED
  BY <1>1, <1>3 DEF Connected

\* The answers of find_root tell the trees apart.
LEMMA WholeTells ==
  ASSUME Inv
  PROVE  RootsTell
<1> DEFINE trees == Blocks(ForestEdges, Vertex)
           root(path) == path.nodes[path.root].head
<1>1. PICK L, up, B : Whole(nodes, L, up, B)
  BY DEF Inv
<1>2. PICK R, C : Ranked(up, B, R, C)
  BY <1>1 DEF Whole
<1> DEFINE F == TreeEdges(up)
<1>3. up \in [Vertex -> Some] /\ F \in SUBSET Edge
  <2>1. up \in [Vertex -> Some]
    BY <1>1 DEF Whole, Carries
  <2> QED
    BY <2>1, <1>2, TreeEdgesIn
<1>4. trees = Blocks(F, Vertex)
  <2>1. Shape(nodes, L) /\ Carries(nodes, L, up)
    BY <1>1 DEF Whole, Sound
  <2> QED
    BY <2>1, ForestEdgesAre
<1> SUFFICES ASSUME NEW v \in Vertex, NEW w \in Vertex
             PROVE  root(Expose(nodes, v)) = root(Expose(Expose(nodes, v).nodes, w))
                      <=> \E tree \in trees : {v, w} \subseteq tree
  BY DEF RootsTell
<1> DEFINE p == Expose(nodes, v)
           q == Expose(p.nodes, w)
<1>5. root(p) = B[v] /\ \E K : Whole(p.nodes, K, up, B)
  BY <1>1, FindRootIs
<1>6. root(q) = B[w]
  BY <1>5, FindRootIs
<1> HIDE DEF p, q, F
<1>7. Connected(F, v, w) <=> B[v] = B[w]
  BY <1>2, <1>3, RootsAre DEF F
<1>8. Connected(F, v, w) <=> \E tree \in trees : {v, w} \subseteq tree
  <2>1. ASSUME Connected(F, v, w) PROVE \E tree \in trees : {v, w} \subseteq tree
    <3>1. Component(F, v) \cap Vertex \in trees
      BY <1>4 DEF Blocks
    <3>2. {v, w} \subseteq Component(F, v) \cap Vertex
      BY <2>1, ComponentSelf DEF Connected
    <3> QED
      BY <3>1, <3>2
  <2>2. ASSUME NEW tree \in trees, {v, w} \subseteq tree PROVE Connected(F, v, w)
    <3>1. tree \in Blocks(F, Vertex) /\ v \in tree /\ w \in tree
      BY <1>4, <2>2
    <3> QED
      BY <3>1, <1>3, TreeOf
  <2> QED
    BY <2>1, <2>2
<1> QED
  BY <1>5, <1>6, <1>7, <1>8 DEF p, q

\* A path ends with its last vertex.
LEMMA AlongLast ==
  ASSUME NEW n, NEW L, Shape(n, L), NEW r \in Vertex, n[r].parent = NoVertex,
         NEW path, Along(n, L, r, path),
         NEW w \in Vertex, L.hd[w] = L.hd[r], LastOf(L, w)
  PROVE  Last(path) = w /\ Len(path) \in Nat /\ (L.hd[r] # w => Len(path) > 1)
<1>1. PICK k \in Nat : k = Len(path)
  BY DEF Along
<1>2. /\ k = L.hi[r] - L.lo[r] + 1 /\ k >= 1 /\ path[1] = L.hd[r]
      /\ \A i \in 1 .. k : /\ path[i] \in Vertex /\ L.hd[path[i]] = L.hd[r]
                           /\ L.pos[path[i]] = L.lo[r] + i - 1
  BY <1>1 DEF Along
<1>3. L.lo[r] \in Int /\ L.hi[r] \in Int
  BY RootSpan
<1>4. L.pos[w] = L.hi[r]
  BY LastIs DEF LastOf
<1>5. k \in 1 .. k
  BY <1>2
<1>6. path[k] \in Vertex /\ L.hd[path[k]] = L.hd[r] /\ L.pos[path[k]] = L.lo[r] + k - 1
  BY <1>2, <1>5
<1>7. L.pos[path[k]] = L.pos[w]
  BY <1>2, <1>3, <1>4, <1>6
<1>8. path[k] = w
  BY <1>6, <1>7 DEF Shape, Spans
<1>9. L.hd[r] # w => k # 1
  BY <1>2, <1>8
<1>10. Last(path) = w
  BY <1>1, <1>8 DEF Last
<1> QED
  BY <1>1, <1>2, <1>9, <1>10

\* What path_aggregate says of the path from v to w: it is one of the forest, and
\* its heaviest edge is known at its root.
Between(path, answer, f, v, w, F) ==
  /\ path[1] = v /\ Last(path) = w /\ Len(path) \in Nat /\ (v # w => Len(path) > 1)
  /\ Preferred(path) \subseteq F
  /\ MaxIs(Preferred(path), f, answer)

\* The path between two vertices of a tree is exposed, and the heaviest of its
\* edges is cached at its root.
LEMMA PathBetweenIs ==
  ASSUME NEW n, NEW L, NEW up, NEW B, Whole(n, L, up, B),
         NEW f, Represents(f, n, TreeEdges(up)),
         NEW v \in Vertex, NEW w \in Vertex, B[v] = B[w],
         NEW q, q = PathBetween(n, v, w),
         NEW path, path = PathOrder(q.nodes, q.root, FALSE)
  PROVE  Between(path, q.nodes[q.root].max, f, v, w, TreeEdges(up))
<1> DEFINE F == TreeEdges(up)
           a == Evert(n, v)
           r == q.root
<1>1. q = Expose(a.nodes, w)
  BY DEF PathBetween
<1>2. PICK M, g, A : Everted(n, L, up, B, v, a.nodes, a.root, M, g, A) /\ Whole(a.nodes, M, g, A)
  BY EvertKeeps
<1>3. /\ TreeEdges(g) = F /\ A[w] = v
      /\ \A x \in Vertex : a.nodes[x].edges = n[x].edges
  BY <1>2 DEF Everted
<1>4. q \in Paths /\ \E K : Exposed(a.nodes, M, g, A, w, q.nodes, r, K) /\ Whole(q.nodes, K, g, A)
  BY <1>1, <1>2, ExposeKeeps
<1>5. PICK K : Exposed(a.nodes, M, g, A, w, q.nodes, r, K) /\ Whole(q.nodes, K, g, A)
  BY <1>4
<1>6. /\ r \in Vertex /\ q.nodes[r].parent = NoVertex /\ K.hd[r] = v /\ K.hd[w] = v /\ LastOf(K, w)
      /\ \A x \in Vertex : q.nodes[x].edges = a.nodes[x].edges
  <2>1. r \in Vertex
    BY <1>4 DEF Paths
  <2> QED
    BY <2>1, <1>3, <1>5 DEF Exposed, Exposing
<1>7. Shape(q.nodes, K)
  BY <1>5 DEF Whole, Sound
<1>8. Along(q.nodes, K, r, path)
  BY <1>6, <1>7, AlongIs
<1>9. Represents(f, q.nodes, TreeEdges(g))
  BY <1>3, <1>6 DEF Represents
<1>10. Preferred(path) \subseteq TreeEdges(g) /\ MaxIs(Preferred(path), f, q.nodes[r].max)
  BY <1>5, <1>6, <1>8, <1>9, HeaviestIs
<1>11. path[1] = v
  BY <1>6, <1>8 DEF Along
<1>12. Last(path) = w /\ Len(path) \in Nat /\ (v # w => Len(path) > 1)
  <2>1. w \in Vertex /\ K.hd[w] = K.hd[r]
    BY <1>6
  <2>2. Last(path) = w /\ Len(path) \in Nat /\ (K.hd[r] # w => Len(path) > 1)
    BY ONLY <2>1, <1>6, <1>7, <1>8, AlongLast
  <2> QED
    BY ONLY <2>2, <1>6
<1> QED
  BY <1>3, <1>10, <1>11, <1>12 DEF Between

\* The answers of path_aggregate are heaviest edges, when an edge weighs more
\* than none.
LEMMA WholeAnswers ==
  ASSUME Inv, 0 \notin Weight
  PROVE  AggregateIsHeaviest
<1> DEFINE f == Represented
<1>1. PICK L, up, B : Whole(nodes, L, up, B)
  BY DEF Inv
<1>2. PICK R, C : Ranked(up, B, R, C)
  BY <1>1 DEF Whole
<1> DEFINE F == TreeEdges(up)
<1>3. up \in [Vertex -> Some] /\ F \in SUBSET Edge
  <2>1. up \in [Vertex -> Some]
    BY <1>1 DEF Whole, Carries
  <2> QED
    BY <2>1, <1>2, TreeEdgesIn
<1>4. Represents(f, nodes, F)
  BY <1>1, RepresentedIs
<1>5. DOMAIN f = F
  BY <1>4 DEF Represents
<1>6. \A e \in F : f[e] \in Nat /\ f[e] > 0
  <2>1. \A e \in F : f[e] \in Weight
    <3> SUFFICES ASSUME NEW e \in F PROVE f[e] \in Weight
      OBVIOUS
    <3>1. PICK x : x \in e
      BY <1>3, EdgeEnds
    <3> QED
      BY <3>1, <1>4 DEF Represents
  <2>2. \A k \in Weight : k \in Nat /\ k # 0
    BY LctAssumption
  <2> QED
    BY <2>1, <2>2
<1> HIDE DEF f
<1> SUFFICES ASSUME NEW tree \in Blocks(DOMAIN f, Vertex), NEW v \in tree, NEW w \in tree \ {v}
             PROVE  NamesHeaviest(PathBetween(nodes, v, w), f, v, w)
  BY DEF AggregateIsHeaviest, f
<1> DEFINE exposed == PathBetween(nodes, v, w)
           path == PathOrder(exposed.nodes, exposed.root, FALSE)
           answer == exposed.nodes[exposed.root].max
<1>7. v \in Vertex /\ w \in Vertex /\ v # w /\ Connected(F, v, w)
  BY <1>3, <1>5, TreeOf
<1>8. B[v] = B[w]
  BY <1>2, <1>3, <1>7, RootsAre
<1>9. /\ path[1] = v /\ Last(path) = w /\ Len(path) \in Nat /\ Len(path) > 1
      /\ Preferred(path) \subseteq F
      /\ MaxIs(Preferred(path), f, answer)
  <2>1. /\ exposed = PathBetween(nodes, v, w)
        /\ path = PathOrder(exposed.nodes, exposed.root, FALSE)
    OBVIOUS
  <2>2. answer = exposed.nodes[exposed.root].max
    OBVIOUS
  <2> HIDE DEF exposed, path, answer
  <2>3. Between(path, exposed.nodes[exposed.root].max, f, v, w, F)
    BY <1>1, <1>4, <1>7, <1>8, <2>1, PathBetweenIs
  <2> QED
    BY <1>7, <2>2, <2>3 DEF Between
<1> HIDE DEF exposed, path, answer, F
<1>10. PICK e \in Preferred(path) : TRUE
  <2>1. 1 \in 1 .. Len(path) - 1
    BY <1>9
  <2>4. {path[1], path[1 + 1]} \in Preferred(path)
    BY <2>1 DEF Preferred
  <2> QED
    BY <2>4
<1>11. answer # None
  <2>1. f[e] <= answer[1] /\ f[e] \in Nat /\ f[e] > 0
    BY <1>6, <1>9 DEF MaxIs
  <2> QED
    BY <2>1 DEF None
<1> QED
  BY <1>5, <1>9, <1>11 DEF NamesHeaviest, MaxIs, exposed, path, answer, F

\* Two answers of find_root are the same exactly when the forest connects the
\* vertices, in every state and whatever the first call left exposed.
THEOREM RootsTellAlways == Spec => []RootsTell
<1>1. Inv => RootsTell
  BY WholeTells
<1> QED
  BY <1>1, TreesAreWhole, PTL

\* With no edge of weight 0, which would not be told from no edge at all,
\* path_aggregate exposes the path between the two vertices and answers with a
\* heaviest edge of it, in every state.
THEOREM AggregateIsHeaviestAlways ==
  ASSUME 0 \notin Weight
  PROVE  Spec => []AggregateIsHeaviest
<1>1. Inv => AggregateIsHeaviest
  BY WholeAnswers
<1> QED
  BY <1>1, TreesAreWhole, PTL

-----------------------------------------------------------------------------
(* get_cc.                                                                 *)

\* The root of the splay tree that the root of the tree of x is in.
Top(n, L, B, x) == CHOOSE t \in Vertex : n[t].parent = NoVertex /\ L.hd[t] = B[x]

\* The way up ends there.
LEMMA UpIs ==
  ASSUME NEW n, NEW L, NEW up, NEW B, Whole(n, L, up, B), NEW R, NEW C, Ranked(up, B, R, C),
         NEW x \in Vertex, NEW u, u = Up(n, x)
  PROVE  /\ u \in Some
         /\ u = NoVertex => Top(n, L, B, x) = x /\ n[x].parent = NoVertex /\ n[n[x].head].dparent = NoVertex
         /\ u # NoVertex => /\ u \in Vertex /\ B[u] = B[x]
                            /\ \/ R[L.hd[u]] < R[L.hd[x]]
                               \/ L.hd[u] = L.hd[x] /\ Depth(L, u) < Depth(L, x)
<1>1. Shape(n, L) /\ Rooted(n, L) /\ Carries(n, L, up) /\ NoVertex \notin Vertex
  BY LctAssumption DEF Whole, Sound
<1>2. n[x].parent \in Some
  BY <1>1, NodeFields DEF Shape
<1>3. \A y, z \in Vertex : L.hd[y] = L.hd[z] => B[y] = B[z]
  BY <1>1, PathDown
<1>4. CASE n[x].parent # NoVertex
  <2>1. u = n[x].parent
    BY <1>4 DEF Up
  <2>2. u \in Vertex
    BY <2>1, <1>2, <1>4 DEF Some
  <2>3. x = n[u].left \/ x = n[u].right
    BY <2>1, <1>1, <1>4, ParentIs
  <2>4. L.hd[u] = L.hd[x]
    <3>1. x # NoVertex
      BY <1>1
    <3> QED
      BY <2>2, <2>3, <3>1, <1>1, ChildIs
  <2>5. Depth(L, u) < Depth(L, x)
    BY <2>1, <1>1, DepthLess
  <2> QED
    BY <2>1, <2>2, <2>4, <2>5, <1>1, <1>3 DEF Some
<1>5. CASE n[x].parent = NoVertex
  <2> DEFINE h == L.hd[x]
  <2>1. n[x].head = h
    BY <1>1, <1>5 DEF Rooted, Ends
  <2>2. h \in Vertex /\ L.hd[h] = h
    BY <1>1, HeadFirst
  <2>3. u = n[h].dparent
    BY <2>1, <1>5 DEF Up
  <2>4. up[h] = u /\ u \in Some
    BY <2>2, <2>3, <1>1 DEF Carries
  <2>5. B[h] = B[x]
    BY <2>2, <1>3
  <2>6. CASE u = NoVertex
    <3>1. B[h] = h
      BY <2>2, <2>4, <2>6 DEF Ranked
    <3>2. \E t \in Vertex : n[t].parent = NoVertex /\ L.hd[t] = B[x]
      BY <3>1, <2>5, <1>5
    <3> DEFINE t == Top(n, L, B, x)
    <3>3. t \in Vertex /\ n[t].parent = NoVertex /\ L.hd[t] = B[x]
      BY <3>2 DEF Top
    <3> HIDE DEF t
    <3>4. t = x
      BY <3>1, <3>3, <2>5, <1>1, <1>5, OneRoot
    <3> QED
      BY <3>4, <2>1, <2>3, <2>4, <2>6, <1>5 DEF t
  <2>7. CASE u # NoVertex
    <3>1. u \in Vertex /\ B[u] = B[x] /\ R[u] < R[h]
      BY <2>2, <2>4, <2>5, <2>7 DEF Ranked, Some
    <3>2. L.hd[u] \in Vertex /\ R[L.hd[u]] <= R[u]
      <4>1. /\ L.hd[u] \in Vertex /\ L.hd[L.hd[u]] = L.hd[u]
            /\ L.pos[L.hd[u]] \in Int /\ L.pos[u] \in Int /\ L.pos[L.hd[u]] <= L.pos[u]
        BY <3>1, <1>1, HeadFirst
      <4>2. CASE L.pos[L.hd[u]] < L.pos[u]
        <5>1. R[L.hd[u]] < R[u]
          BY <4>1, <4>2, <3>1, <1>1, PathDown
        <5>2. R[L.hd[u]] \in Int /\ R[u] \in Int
          BY <4>1, <3>1 DEF Ranked
        <5> QED
          BY <5>1, <5>2, <4>1
      <4>3. CASE L.pos[L.hd[u]] = L.pos[u]
        <5>1. L.hd[u] = u
          BY <4>1, <4>3, <3>1, <1>1 DEF Shape, Spans
        <5>2. R[u] \in Int
          BY <3>1 DEF Ranked
        <5> QED
          BY <5>1, <5>2, <4>1
      <4> QED
        BY <4>1, <4>2, <4>3
    <3>3. R[u] \in Int /\ R[h] \in Int /\ R[L.hd[u]] \in Int
      BY <2>2, <3>1, <3>2 DEF Ranked
    <3> QED
      BY <3>1, <3>2, <3>3, <2>4, <2>7
  <2> QED
    BY <2>6, <2>7
<1> QED
  BY <1>4, <1>5

\* Tops tell the trees apart.
LEMMA TopIs ==
  ASSUME NEW n, NEW L, NEW up, NEW B, Whole(n, L, up, B), NEW x \in Vertex
  PROVE  /\ Top(n, L, B, x) \in Vertex /\ L.hd[Top(n, L, B, x)] = B[x]
         /\ \A y \in Vertex : Top(n, L, B, x) = Top(n, L, B, y) <=> B[x] = B[y]
<1>1. PICK R, C : Ranked(up, B, R, C)
  BY DEF Whole
<1>2. ASSUME NEW y \in Vertex PROVE Top(n, L, B, y) \in Vertex /\ L.hd[Top(n, L, B, y)] = B[y]
  <2>1. Shape(n, L) /\ Carries(n, L, up)
    BY DEF Whole, Sound
  <2>2. B[y] \in Vertex
    BY <1>1 DEF Ranked
  <2>3. PICK r \in Vertex : n[r].parent = NoVertex /\ L.hd[r] = L.hd[B[y]]
    BY <2>1, <2>2, RootExists
  <2>4. L.hd[B[y]] = B[y]
    <3>1. up[B[y]] = NoVertex
      <4> DEFINE q == Expose(n, y)
      <4>1. PICK K : Exposed(n, L, up, B, y, q.nodes, q.root, K)
        BY ExposeKeeps
      <4> QED
        BY <4>1 DEF Exposed
    <3>2. NoVertex \notin Vertex
      BY LctAssumption
    <3> QED
      BY <2>1, <2>2, <3>1, <3>2 DEF Carries
  <2> QED
    BY <2>3, <2>4 DEF Top
<1>3. \A y \in Vertex : B[x] = B[y] => Top(n, L, B, x) = Top(n, L, B, y)
  BY DEF Top
<1> QED
  BY <1>2, <1>3

\* The vertices that the walk from x passes: it goes on up until it may stop.
Way(n, S, x) ==
  {y \in Vertex : \A Q \in SUBSET Vertex :
     x \in Q /\ (\A z \in Q : z \notin S => Up(n, z) \in Q) => y \in Q}

\* The way goes one step up, unless the walk stops.
LEMMA WayIs ==
  ASSUME NEW n, NEW S, NEW x \in Vertex, x \notin S => Up(n, x) \in Vertex
  PROVE  /\ x \in S => Way(n, S, x) = {x}
         /\ x \notin S => Way(n, S, x) = {x} \cup Way(n, S, Up(n, x))
<1> DEFINE u == Up(n, x)
           Shut(Q) == \A z \in Q : z \notin S => Up(n, z) \in Q
<1>1. x \in Way(n, S, x)
  BY DEF Way
<1>2. ASSUME x \in S PROVE Way(n, S, x) = {x}
  <2>1. {x} \in SUBSET Vertex /\ Shut({x})
    BY <1>2
  <2>2. \A y \in Way(n, S, x) : y \in {x}
    BY <2>1 DEF Way
  <2> QED
    BY <1>1, <2>2
<1>3. ASSUME x \notin S PROVE Way(n, S, x) = {x} \cup Way(n, S, u)
  <2>1. ASSUME NEW y \in Way(n, S, u) PROVE y \in Way(n, S, x)
    <3> SUFFICES ASSUME NEW Q \in SUBSET Vertex, x \in Q, Shut(Q) PROVE y \in Q
      BY <2>1 DEF Way
    <3>1. u \in Q
      BY <1>3
    <3> QED
      BY <2>1, <3>1 DEF Way
  <2>2. ASSUME NEW y \in Way(n, S, x), y # x PROVE y \in Way(n, S, u)
    <3> SUFFICES ASSUME NEW Q \in SUBSET Vertex, u \in Q, Shut(Q) PROVE y \in Q
      BY <2>2 DEF Way
    <3>1. Q \cup {x} \in SUBSET Vertex /\ x \in Q \cup {x} /\ Shut(Q \cup {x})
      OBVIOUS
    <3>2. y \in Q \cup {x}
      BY <2>2, <3>1 DEF Way
    <3> QED
      BY <2>2, <3>2
  <2> QED
    BY <1>1, <2>1, <2>2
<1> QED
  BY <1>2, <1>3

\* Where the walk may stop: both pointers lead to a vertex seen before or nowhere.
Stops(n, root) ==
  {x \in Vertex : {n[x].parent, n[n[x].head].dparent} \subseteq DOMAIN root \cup {NoVertex}}

\* What Climb says of x, from what it says of the node above x.
ClimbStep(n, root, f, x) ==
  IF x \in Stops(n, root)
  THEN [passed |-> {x}, top |-> IF Up(n, x) = NoVertex THEN x ELSE root[Up(n, x)]]
  ELSE [f[Up(n, x)] EXCEPT !.passed = @ \cup {x}]

\* f says of every node what Climb should.
ClimbSteps(n, root, f) ==
  DOMAIN f = Vertex /\ \A x \in Vertex : f[x] = ClimbStep(n, root, f, x)

\* m is root with the nodes that were passed, all with the same top.
Climbed(n, root, v, way, m) ==
  m = [x \in DOMAIN root \cup way.passed |-> IF x \in DOMAIN root THEN root[x] ELSE way.top]

\* G gives each node a value.
Walks(G) == \E S : G \in [Vertex -> S]

\* The recursion has a solution when the steps have one.
LEMMA ClimbExists ==
  ASSUME NEW n, NEW root, NEW v \in Vertex, NEW G, Walks(G), ClimbSteps(n, root, G)
  PROVE  \E f : ClimbSteps(n, root, f) /\ Climbed(n, root, v, f[v], Climb(n, root, v))
<1> DEFINE E(f) == [x \in Vertex |-> ClimbStep(n, root, f, x)]
           g == CHOOSE f : f = E(f)
<1>1. G = E(G)
  BY DEF Walks, ClimbSteps
<1>2. g = E(g)
  <2> HIDE DEF E
  <2> QED
    BY <1>1
<1>3. Climbed(n, root, v, g[v], Climb(n, root, v))
  <2> DEFINE h[x \in Vertex] ==
        IF {n[x].parent, n[n[x].head].dparent} \subseteq DOMAIN root \cup {NoVertex}
        THEN [passed |-> {x}, top |-> IF Up(n, x) = NoVertex THEN x ELSE root[Up(n, x)]]
        ELSE [h[Up(n, x)] EXCEPT !.passed = @ \cup {x}]
  <2>1. h = g
    BY DEF ClimbStep, Stops
  <2>2. Climb(n, root, v) = [x \in DOMAIN root \cup h[v].passed |->
                               IF x \in DOMAIN root THEN root[x] ELSE h[v].top]
    BY DEF Climb
  <2> HIDE DEF h, g
  <2> QED
    BY <2>1, <2>2 DEF Climbed
<1>4. ClimbSteps(n, root, g)
  <2>1. ASSUME NEW h, h = E(h) PROVE ClimbSteps(n, root, h)
    <3>1. DOMAIN E(h) = Vertex /\ \A x \in Vertex : E(h)[x] = ClimbStep(n, root, h, x)
      OBVIOUS
    <3> HIDE DEF E
    <3> QED
      BY <2>1, <3>1 DEF ClimbSteps
  <2> HIDE DEF E, g
  <2> QED
    BY <1>2, <2>1
<1> HIDE DEF g
<1> QED
  BY <1>3, <1>4

\* The vertices that were passed know their tree.
Met(n, L, B, root) ==
  DOMAIN root \subseteq Vertex /\ \A y \in DOMAIN root : root[y] = Top(n, L, B, y)

\* The walk from v meets the root of its tree, whatever heads it reads on the way.
LEMMA ClimbIs ==
  ASSUME NEW n, NEW L, NEW up, NEW B, Whole(n, L, up, B),
         NEW root, Met(n, L, B, root), NEW v \in Vertex,
         NEW m, m = Climb(n, root, v)
  PROVE  Met(n, L, B, m) /\ DOMAIN root \cup {v} \subseteq DOMAIN m
<1> DEFINE S == Stops(n, root)
           W(x) == [passed |-> Way(n, S, x), top |-> Top(n, L, B, x)]
           G == [x \in Vertex |-> W(x)]
<1>1. PICK R, C : Ranked(up, B, R, C)
  BY DEF Whole
<1>2. ASSUME NEW x \in Vertex
      PROVE  /\ Up(n, x) \in Some
             /\ Up(n, x) = NoVertex => /\ Top(n, L, B, x) = x /\ n[x].parent = NoVertex
                                       /\ n[n[x].head].dparent = NoVertex
             /\ Up(n, x) # NoVertex =>
                  /\ Up(n, x) \in Vertex /\ B[Up(n, x)] = B[x]
                  /\ \/ R[L.hd[Up(n, x)]] < R[L.hd[x]]
                     \/ L.hd[Up(n, x)] = L.hd[x] /\ Depth(L, Up(n, x)) < Depth(L, x)
  BY <1>1, UpIs
<1>3. NoVertex \notin Vertex
  BY LctAssumption
<1>4. ASSUME NEW x \in Vertex, x \notin S PROVE Up(n, x) \in Vertex
  <2>1. Up(n, x) # NoVertex
    BY <1>2, <1>4 DEF Stops
  <2> QED
    BY <2>1, <1>2
<1>5. ASSUME NEW x \in Vertex, x \in S, Up(n, x) # NoVertex
      PROVE  Up(n, x) \in DOMAIN root
  BY <1>5 DEF Stops, Up
<1>6. ASSUME NEW x \in Vertex, Up(n, x) # NoVertex
      PROVE  Top(n, L, B, Up(n, x)) = Top(n, L, B, x)
  <2>1. B[Up(n, x)] = B[x]
    BY <1>2, <1>6
  <2> QED
    BY <2>1 DEF Top
<1>7. ASSUME NEW x \in Vertex
      PROVE  W(x) = IF x \in S
                    THEN [passed |-> {x}, top |-> IF Up(n, x) = NoVertex THEN x ELSE root[Up(n, x)]]
                    ELSE [W(Up(n, x)) EXCEPT !.passed = @ \cup {x}]
  <2>1. CASE x \in S
    <3>1. Way(n, S, x) = {x}
      BY <2>1, WayIs
    <3>2. Top(n, L, B, x) = IF Up(n, x) = NoVertex THEN x ELSE root[Up(n, x)]
      BY <2>1, <1>2, <1>5, <1>6 DEF Met
    <3> QED
      BY <2>1, <3>1, <3>2
  <2>2. CASE x \notin S
    <3>1. Up(n, x) \in Vertex
      BY <2>2, <1>4
    <3>2. Way(n, S, x) = {x} \cup Way(n, S, Up(n, x))
      BY <2>2, <3>1, WayIs
    <3>3. Top(n, L, B, x) = Top(n, L, B, Up(n, x))
      BY <3>1, <1>3, <1>6
    <3> QED
      BY <2>2, <3>2, <3>3
  <2> QED
    BY <2>1, <2>2
<1>8. \A x \in Vertex : G[x] = W(x)
  OBVIOUS
<1> HIDE DEF W
<1>9. Walks(G)
  <2>1. G \in [Vertex -> {W(x) : x \in Vertex}]
    OBVIOUS
  <2> DEFINE U == {W(x) : x \in Vertex}
  <2> HIDE DEF U, G
  <2> QED
    BY <2>1 DEF Walks, U
<1>10. DOMAIN G = Vertex
  OBVIOUS
<1> HIDE DEF G
<1>11. ClimbSteps(n, root, G)
  <2> SUFFICES ASSUME NEW x \in Vertex PROVE G[x] = ClimbStep(n, root, G, x)
    BY <1>10 DEF ClimbSteps
  <2>1. CASE x \in S
    BY <2>1, <1>7, <1>8 DEF ClimbStep
  <2>2. CASE x \notin S
    <3>1. G[Up(n, x)] = W(Up(n, x))
      BY <2>2, <1>4, <1>8
    <3> QED
      BY <2>2, <3>1, <1>7, <1>8 DEF ClimbStep
  <2> QED
    BY <2>1, <2>2
<1>12. PICK f : ClimbSteps(n, root, f) /\ Climbed(n, root, v, f[v], m)
  BY <1>9, <1>11, ClimbExists
<1>13. \A x \in Vertex : L.hd[x] \in Vertex /\ R[L.hd[x]] \in Nat /\ Depth(L, x) \in Nat
  <2>1. Shape(n, L)
    BY DEF Whole, Sound
  <2> QED
    BY <2>1, <1>1, HeadFirst, DepthLess DEF Ranked
<1>14. f[v] = G[v]
  <2> DEFINE D == {x \in Vertex : f[x] # G[x]}
             Q == {R[L.hd[x]] : x \in D}
  <2> SUFFICES ASSUME v \in D PROVE FALSE
    OBVIOUS
  <2>1. Q \in SUBSET Nat /\ Q # {}
    BY <1>13
  <2>2. PICK r \in Q : \A k \in Q : r <= k
    <3> HIDE DEF Q
    <3> QED
      BY <2>1, LeastElement
  <2> DEFINE P == {Depth(L, x) : x \in {x \in D : R[L.hd[x]] = r}}
  <2>3. P \in SUBSET Nat /\ P # {}
    BY <2>2, <1>13
  <2>4. PICK d \in P : \A k \in P : d <= k
    <3> HIDE DEF P
    <3> QED
      BY <2>3, LeastElement
  <2>5. PICK x \in D : R[L.hd[x]] = r /\ Depth(L, x) = d
    BY <2>4
  <2>6. Up(n, x) \in Vertex => f[Up(n, x)] = G[Up(n, x)]
    <3> SUFFICES ASSUME Up(n, x) \in Vertex, Up(n, x) \in D PROVE FALSE
      OBVIOUS
    <3>1. r <= R[L.hd[Up(n, x)]]
      BY <2>2
    <3>2. R[L.hd[Up(n, x)]] \in Nat /\ r \in Nat /\ d \in Nat /\ Depth(L, Up(n, x)) \in Nat
      BY <2>1, <2>3, <1>13
    <3>3. L.hd[Up(n, x)] = L.hd[x] /\ Depth(L, Up(n, x)) < d
      BY <3>1, <3>2, <2>5, <1>2, <1>3
    <3>4. Depth(L, Up(n, x)) \in P
      BY <3>3, <2>5
    <3> QED
      BY <3>2, <3>3, <3>4, <2>4
  <2>7. f[x] = ClimbStep(n, root, f, x) /\ G[x] = ClimbStep(n, root, G, x)
    BY <1>11, <1>12 DEF ClimbSteps
  <2>8. ClimbStep(n, root, f, x) = ClimbStep(n, root, G, x)
    BY <2>6, <1>4 DEF ClimbStep
  <2> QED
    BY <2>5, <2>7, <2>8
<1>15. f[v].passed = Way(n, S, v) /\ f[v].top = Top(n, L, B, v)
  <2>1. f[v] = W(v)
    BY <1>14, <1>8
  <2>2. W(v) = [passed |-> Way(n, S, v), top |-> Top(n, L, B, v)]
    BY DEF W
  <2> QED
    BY ONLY <2>1, <2>2
<1>16. v \in Way(n, S, v) /\ \A y \in Way(n, S, v) : y \in Vertex /\ B[y] = B[v]
  <2>1. v \in Way(n, S, v)
    BY DEF Way
  <2> DEFINE Q == {y \in Vertex : B[y] = B[v]}
  <2>2. \A z \in Q : z \notin S => Up(n, z) \in Q
    <3> SUFFICES ASSUME NEW z \in Q, z \notin S PROVE Up(n, z) \in Q
      OBVIOUS
    <3>1. Up(n, z) \in Vertex
      BY <1>4
    <3> QED
      BY <3>1, <1>2, <1>3
  <2>3. Q \in SUBSET Vertex /\ v \in Q
    OBVIOUS
  <2> HIDE DEF Q
  <2>4. \A y \in Way(n, S, v) : y \in Q
    BY <2>2, <2>3 DEF Way
  <2> QED
    BY <2>1, <2>4 DEF Q
<1>17. m = [x \in DOMAIN root \cup Way(n, S, v) |->
             IF x \in DOMAIN root THEN root[x] ELSE Top(n, L, B, v)]
  BY <1>12, <1>15 DEF Climbed
<1>18. DOMAIN m = DOMAIN root \cup Way(n, S, v)
  BY <1>17
<1>19. ASSUME NEW y \in DOMAIN m PROVE m[y] = Top(n, L, B, y)
  <2>1. CASE y \in DOMAIN root
    BY <2>1, <1>17 DEF Met
  <2>2. CASE y \notin DOMAIN root
    <3>1. m[y] = Top(n, L, B, v) /\ B[y] = B[v]
      BY <2>2, <1>16, <1>17, <1>18
    <3> QED
      BY <3>1 DEF Top
  <2> QED
    BY <2>1, <2>2
<1> QED
  BY <1>16, <1>18, <1>19 DEF Met

\* What get_cc has found after each of its first j visits.
Visits(n, order, j, f) ==
  f = [i \in 0 .. j |-> IF i = 0 THEN [x \in {} |-> NoVertex] ELSE Visit(n, f[i - 1], order[i])]

\* The visits exist as a sequence.
LEMMA VisitsExist ==
  ASSUME NEW n, NEW order
  PROVE  \A j \in Nat : \E f : Visits(n, order, j, f)
<1> DEFINE T == {j \in Nat : \E f : Visits(n, order, j, f)}
           none == [x \in {} |-> NoVertex]
<1>1. 0 \in T
  <2> DEFINE f == [i \in 0 .. 0 |-> none]
  <2>1. f = [i \in 0 .. 0 |-> IF i = 0 THEN none ELSE Visit(n, f[i - 1], order[i])]
    OBVIOUS
  <2> HIDE DEF f
  <2> QED
    BY <2>1 DEF Visits
<1>2. ASSUME NEW j \in Nat, j \in T
      PROVE  j + 1 \in T
  <2>1. PICK f : f = [i \in 0 .. j |-> IF i = 0 THEN none ELSE Visit(n, f[i - 1], order[i])]
    BY <1>2 DEF Visits
  <2> HIDE DEF none
  <2> DEFINE g == [i \in 0 .. j + 1 |-> IF i = j + 1 THEN Visit(n, f[j], order[j + 1]) ELSE f[i]]
             h == [i \in 0 .. j + 1 |-> IF i = 0 THEN none ELSE Visit(n, g[i - 1], order[i])]
  <2>2. ASSUME NEW i \in 0 .. j + 1 PROVE g[i] = IF i = 0 THEN none ELSE Visit(n, g[i - 1], order[i])
    <3>1. CASE i = j + 1
      <4>1. i # 0 /\ i - 1 = j /\ j \in 0 .. j + 1 /\ j # j + 1
        BY <3>1
      <4>2. g[i - 1] = f[j]
        BY <4>1
      <4>3. g[i] = Visit(n, f[j], order[j + 1])
        BY <3>1
      <4> QED
        BY <3>1, <4>1, <4>2, <4>3
    <3>2. CASE i # j + 1
      <4>1. i \in 0 .. j
        BY <3>2
      <4>2. g[i] = f[i]
        BY <3>2
      <4>3. f[i] = IF i = 0 THEN none ELSE Visit(n, f[i - 1], order[i])
        BY <4>1, <2>1
      <4>4. i # 0 => g[i - 1] = f[i - 1]
        BY <4>1
      <4> QED
        BY <4>2, <4>3, <4>4
    <3> QED
      BY <3>1, <3>2
  <2>3. DOMAIN g = 0 .. j + 1
    OBVIOUS
  <2>4. g = h
    BY <2>2
  <2> HIDE DEF g
  <2>5. \E k : Visits(n, order, j + 1, k)
    BY <2>4 DEF Visits, none
  <2> QED
    BY <2>5
<1> HIDE DEF T
<1>3. \A j \in Nat : j \in T
  BY <1>1, <1>2, Induction
<1> QED
  BY <1>3 DEF T

\* What get_cc has found in the end.
Found(n, order, found) ==
  GetCC(n, order) = {{v \in Vertex : found[v] = r} : r \in {found[x] : x \in Vertex}}

\* Every vertex of the order is met.
LEMMA GetCCMeets ==
  ASSUME NEW n, NEW L, NEW up, NEW B, Whole(n, L, up, B),
         NEW order \in Seq(Vertex), \A v \in Vertex : \E i \in 1 .. Len(order) : order[i] = v
  PROVE  \E found : Found(n, order, found) /\ Met(n, L, B, found) /\ DOMAIN found = Vertex
<1> DEFINE N == Len(order)
<1>1. N \in Nat /\ \A i \in 1 .. N : order[i] \in Vertex
  BY LenProperties
<1>2. \E f : Visits(n, order, N, f)
  BY <1>1, VisitsExist
<1> DEFINE g == CHOOSE f : Visits(n, order, N, f)
<1>3. Visits(n, order, N, g)
  BY <1>2
<1>4. Found(n, order, g[N])
  BY DEF GetCC, Found, Visits
<1> HIDE DEF g, N
<1>5. /\ g[0] = [x \in {} |-> NoVertex]
      /\ \A i \in 0 .. N : i # 0 => g[i] = Visit(n, g[i - 1], order[i])
  BY <1>1, <1>3 DEF Visits
<1> DEFINE Good(i) == Met(n, L, B, g[i]) /\ \A k \in 1 .. i : order[k] \in DOMAIN g[i]
           T == {i \in Nat : i \in 0 .. N => Good(i)}
<1>6. 0 \in T
  <2>1. DOMAIN g[0] = {}
    BY <1>5
  <2>2. Met(n, L, B, g[0])
    BY <2>1 DEF Met
  <2> QED
    BY <2>2
<1>7. ASSUME NEW i \in Nat, i \in T PROVE i + 1 \in T
  <2> SUFFICES ASSUME i + 1 \in 0 .. N PROVE Good(i + 1)
    OBVIOUS
  <2>1. i \in 0 .. N /\ i + 1 # 0 /\ (i + 1) - 1 = i /\ i + 1 \in 1 .. N
    BY <1>1
  <2>2. Good(i)
    BY <2>1, <1>7
  <2> DEFINE v == order[i + 1]
             root == g[i]
             m == g[i + 1]
  <2>3. m = Visit(n, root, v) /\ v \in Vertex
    BY <2>1, <1>1, <1>5
  <2> HIDE DEF v, root, m
  <2>4. Met(n, L, B, root)
    BY <2>2 DEF root
  <2>5. Met(n, L, B, m) /\ DOMAIN root \cup {v} \subseteq DOMAIN m
    <3>1. CASE v \in DOMAIN root
      BY <3>1, <2>3, <2>4 DEF Visit
    <3>2. CASE v \notin DOMAIN root
      <4>1. m = Climb(n, root, v)
        BY <3>2, <2>3 DEF Visit
      <4> QED
        BY <4>1, <2>3, <2>4, ClimbIs
    <3> QED
      BY <3>1, <3>2
  <2>6. ASSUME NEW k \in 1 .. i + 1 PROVE order[k] \in DOMAIN m
    <3>1. CASE k = i + 1
      BY <3>1, <2>5 DEF v
    <3>2. CASE k # i + 1
      <4>1. k \in 1 .. i
        BY <3>2
      <4>2. order[k] \in DOMAIN root
        BY <4>1, <2>2 DEF root
      <4> QED
        BY <4>2, <2>5
    <3> QED
      BY <3>1, <3>2
  <2> QED
    BY <2>5, <2>6 DEF m
<1> HIDE DEF T
<1>8. \A i \in Nat : i \in T
  BY <1>6, <1>7, Induction
<1>9. Good(N)
  BY <1>1, <1>8 DEF T
<1>10. DOMAIN g[N] = Vertex
  BY <1>9 DEF Met, N
<1> QED
  BY <1>4, <1>9, <1>10

\* get_cc finds the trees.
LEMMA WholeFound ==
  ASSUME Inv
  PROVE  ComponentsFound
<1>1. PICK L, up, B : Whole(nodes, L, up, B)
  BY DEF Inv
<1>2. PICK R, C : Ranked(up, B, R, C)
  BY <1>1 DEF Whole
<1> DEFINE F == TreeEdges(up)
           N == Cardinality(Vertex)
<1>3. up \in [Vertex -> Some] /\ ForestEdges = F
  <2>1. up \in [Vertex -> Some]
    BY <1>1 DEF Whole, Carries
  <2>2. Shape(nodes, L) /\ Carries(nodes, L, up)
    BY <1>1 DEF Whole, Sound
  <2> QED
    BY <2>1, <2>2, ForestEdgesAre
<1>4. IsFiniteSet(Vertex) /\ N \in Nat
  BY VertexAssumption, FS_CardinalityType
<1> HIDE DEF F, N
<1> SUFFICES ASSUME NEW order \in [1 .. N -> Vertex], IsInjective(order)
             PROVE  GetCC(nodes, order) = Blocks(F, Vertex)
  BY <1>3 DEF ComponentsFound, N
<1>5. order \in Seq(Vertex) /\ Len(order) = N
  <2>1. order \in Seq(Vertex) /\ DOMAIN order = 1 .. N
    BY <1>4
  <2> QED
    BY <2>1, <1>4, LenProperties
<1>6. \A v \in Vertex : \E i \in 1 .. Len(order) : order[i] = v
  <2>1. order \in Injection(1 .. N, Vertex)
    BY DEF Injection
  <2>2. Cardinality(1 .. N) = N
    BY <1>4, FS_Interval
  <2>3. order \in Surjection(1 .. N, Vertex)
    BY <2>1, <2>2, <1>4, FS_Injection DEF N
  <2> QED
    BY <2>3, <1>5 DEF Surjection
<1>7. PICK found : Found(nodes, order, found) /\ Met(nodes, L, B, found) /\ DOMAIN found = Vertex
  BY <1>1, <1>5, <1>6, GetCCMeets
<1>8. ASSUME NEW x \in Vertex PROVE {v \in Vertex : found[v] = found[x]} = Component(F, x) \cap Vertex
  <2>1. ASSUME NEW v \in Vertex PROVE found[v] = found[x] <=> v \in Component(F, x)
    <3>1. found[v] = Top(nodes, L, B, v) /\ found[x] = Top(nodes, L, B, x)
      BY <1>7 DEF Met
    <3>2. found[v] = found[x] <=> B[x] = B[v]
      BY <3>1, <1>1, TopIs
    <3>3. Connected(F, x, v) <=> B[x] = B[v]
      BY <1>2, <1>3, RootsAre DEF F
    <3> QED
      BY <3>2, <3>3 DEF Connected
  <2> QED
    BY <2>1
<1>9. GetCC(nodes, order) = {{v \in Vertex : found[v] = found[x]} : x \in Vertex}
  BY <1>7 DEF Found
<1>10. GetCC(nodes, order) = {Component(F, x) \cap Vertex : x \in Vertex}
  BY <1>8, <1>9
<1> QED
  BY <1>10 DEF Blocks

\* get_cc finds the connected components in every state, whatever stale heads it
\* reads at inner nodes, and whatever vertex it begins with.
THEOREM ComponentsFoundAlways == Spec => []ComponentsFound
<1>1. Inv => ComponentsFound
  BY WholeFound
<1> QED
  BY <1>1, TreesAreWhole, PTL
=============================================================================
