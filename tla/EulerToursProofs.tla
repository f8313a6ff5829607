-------------------------- MODULE EulerToursProofs --------------------------
(***************************************************************************)
(* Proofs about EulerTours, for any finite set of vertices.                *)
(*                                                                         *)
(* A list is read as a walk: each node begins at the vertex where the one  *)
(* before it arrived.  Rerooting, splitting and joining lists is then      *)
(* parting walks and joining them, and no induction on a list is needed    *)
(* but for one fact: a walk along the edges of the forest stays in every   *)
(* set these edges do not leave (WalkStays).                               *)
(*                                                                         *)
(* Good says of the lists that they are closed walks through a sentinel,   *)
(* that they share no vertex and that the edges they pass, both ways, are  *)
(* a forest; it follows that a list holds exactly a tree (TourIsTree).     *)
(* Kept says of the maps that they hold the nodes of the lists, and where  *)
(* the sketches are, also in the middle of link and cut, when a vertex may *)
(* be without a node.                                                      *)
(***************************************************************************)
EXTENDS EulerTours, ForestLemmas

-----------------------------------------------------------------------------
(* Sequences of nodes.                                                     *)

Node == Vertex \X Key

\* s leads from a to b, each node beginning where the one before it arrived.
Walk(s, a, b) ==
  /\ \A i \in 1 .. Len(s) : s[i][1] = IF i = 1 THEN a ELSE s[i - 1][2]
  /\ b = IF Len(s) = 0 THEN a ELSE s[Len(s)][2]

\* Concatenation, element by element.
LEMMA Joined ==
  ASSUME NEW s \in Seq(Node), NEW t \in Seq(Node)
  PROVE  /\ s \o t \in Seq(Node)
         /\ Len(s) \in Nat /\ Len(t) \in Nat /\ Len(s \o t) = Len(s) + Len(t)
         /\ \A i \in 1 .. Len(s) : (s \o t)[i] = s[i]
         /\ \A i \in 1 .. Len(t) : (s \o t)[Len(s) + i] = t[i]
OBVIOUS

\* What is in two sequences is in one or the other.
LEMMA ToSetJoined ==
  ASSUME NEW s \in Seq(Node), NEW t \in Seq(Node)
  PROVE  ToSet(s \o t) = ToSet(s) \cup ToSet(t)
<1>1. PICK all, m, n : all = s \o t /\ m = Len(s) /\ n = Len(t)
  OBVIOUS
<1>2. /\ m \in Nat /\ n \in Nat
      /\ DOMAIN all = 1 .. m + n /\ DOMAIN s = 1 .. m /\ DOMAIN t = 1 .. n
      /\ \A i \in 1 .. m : all[i] = s[i]
      /\ \A i \in 1 .. n : all[m + i] = t[i]
  BY <1>1
<1>3. \A i \in 1 .. m + n : i \in 1 .. m \/ (i - m \in 1 .. n /\ i = m + (i - m))
  BY <1>2
<1>4. \A i \in 1 .. m : i \in 1 .. m + n
  BY <1>2
<1>5. \A i \in 1 .. n : m + i \in 1 .. m + n
  BY <1>2
<1>6. ToSet(all) \subseteq ToSet(s) \cup ToSet(t)
  <2> SUFFICES ASSUME NEW i \in 1 .. m + n PROVE all[i] \in ToSet(s) \cup ToSet(t)
    BY <1>2 DEF ToSet
  <2>1. CASE i \in 1 .. m
    BY <1>2, <2>1 DEF ToSet
  <2>2. CASE i \notin 1 .. m
    <3>1. PICK k \in 1 .. n : i = m + k
      BY <1>3, <2>2
    <3>2. all[i] = t[k] /\ t[k] \in ToSet(t)
      BY <1>2, <3>1 DEF ToSet
    <3> QED
      BY <3>2
  <2> QED
    BY <2>1, <2>2
<1>7. ToSet(s) \subseteq ToSet(all) /\ ToSet(t) \subseteq ToSet(all)
  BY <1>2, <1>4, <1>5 DEF ToSet
<1> QED
  BY <1>1, <1>6, <1>7

\* The sequence of one node.
LEMMA ToSetOne ==
  ASSUME NEW x \in Node
  PROVE  <<x>> \in Seq(Node) /\ ToSet(<<x>>) = {x} /\ IsInjective(<<x>>)
<1>1. <<x>> \in Seq(Node) /\ DOMAIN <<x>> = {1} /\ <<x>>[1] = x
  OBVIOUS
<1> QED
  BY <1>1 DEF ToSet, IsInjective

\* No node comes twice in two sequences when it does in neither and is in one.
LEMMA InjectiveJoined ==
  ASSUME NEW s \in Seq(Node), NEW t \in Seq(Node)
  PROVE  IsInjective(s \o t) <=>
           IsInjective(s) /\ IsInjective(t) /\ ToSet(s) \cap ToSet(t) = {}
<1>1. PICK all, m, n : all = s \o t /\ m = Len(s) /\ n = Len(t)
  OBVIOUS
<1>2. /\ m \in Nat /\ n \in Nat
      /\ DOMAIN all = 1 .. m + n /\ DOMAIN s = 1 .. m /\ DOMAIN t = 1 .. n
      /\ \A i \in 1 .. m : all[i] = s[i]
      /\ \A i \in 1 .. n : all[m + i] = t[i]
  BY <1>1
<1>3. ASSUME IsInjective(all)
      PROVE  IsInjective(s) /\ IsInjective(t) /\ ToSet(s) \cap ToSet(t) = {}
  <2>1. IsInjective(s)
    BY <1>2, <1>3 DEF IsInjective
  <2>2. IsInjective(t)
    <3> SUFFICES ASSUME NEW i \in 1 .. n, NEW j \in 1 .. n, t[i] = t[j] PROVE i = j
      BY <1>2 DEF IsInjective
    <3>1. m + i \in DOMAIN all /\ m + j \in DOMAIN all /\ all[m + i] = all[m + j]
      BY <1>2
    <3>2. m + i = m + j
      BY <1>3, <3>1 DEF IsInjective
    <3> QED
      BY <1>2, <3>2
  <2>3. ToSet(s) \cap ToSet(t) = {}
    <3> SUFFICES ASSUME NEW i \in 1 .. m, NEW j \in 1 .. n, s[i] = t[j] PROVE FALSE
      BY <1>2 DEF ToSet
    <3>1. i \in DOMAIN all /\ m + j \in DOMAIN all /\ all[i] = all[m + j]
      BY <1>2
    <3>2. i = m + j
      BY <1>3, <3>1 DEF IsInjective
    <3> QED
      BY <1>2, <3>2
  <2> QED
    BY <2>1, <2>2, <2>3
<1>4. ASSUME IsInjective(s), IsInjective(t), ToSet(s) \cap ToSet(t) = {}
      PROVE  IsInjective(all)
  <2> SUFFICES ASSUME NEW i \in 1 .. m + n, NEW j \in 1 .. m + n, all[i] = all[j]
               PROVE  i = j
    BY <1>2 DEF IsInjective
  <2>1. CASE i \in 1 .. m /\ j \in 1 .. m
    BY <1>2, <1>4, <2>1 DEF IsInjective
  <2>2. CASE i \notin 1 .. m /\ j \notin 1 .. m
    <3>1. PICK k, l \in 1 .. n : i = m + k /\ j = m + l
      <4>1. i - m \in 1 .. n /\ j - m \in 1 .. n /\ i = m + (i - m) /\ j = m + (j - m)
        BY <1>2, <2>2
      <4> QED
        BY <4>1
    <3>2. k = l
      BY <1>2, <1>4, <3>1 DEF IsInjective
    <3> QED
      BY <3>1, <3>2
  <2>3. ASSUME NEW k \in 1 .. m, NEW l \in 1 .. n, all[k] = all[m + l]
        PROVE  FALSE
    <3>1. s[k] \in ToSet(s) /\ t[l] \in ToSet(t) /\ s[k] = t[l]
      BY <1>2, <2>3 DEF ToSet
    <3> QED
      BY <1>4, <3>1
  <2>4. CASE i \in 1 .. m /\ j \notin 1 .. m
    <3>1. j - m \in 1 .. n /\ j = m + (j - m)
      BY <1>2, <2>4
    <3> QED
      BY <2>3, <2>4, <3>1
  <2>5. CASE i \notin 1 .. m /\ j \in 1 .. m
    <3>1. i - m \in 1 .. n /\ i = m + (i - m)
      BY <1>2, <2>5
    <3> QED
      BY <2>3, <2>5, <3>1
  <2> QED
    BY <2>1, <2>2, <2>4, <2>5
<1> QED
  BY <1>1, <1>3, <1>4

\* Where a node is found that comes once: what is before it and behind it.
LEMMA SplitAt ==
  ASSUME NEW s, s \in Seq(Node), IsInjective(s), NEW x, x \in ToSet(s)
  PROVE  \E p, q \in Seq(Node) :
           /\ s = p \o <<x>> \o q
           /\ Before(s, x) = p /\ From(s, x) = <<x>> \o q /\ Behind(s, x) = q
<1>0. PICK n \in Nat : n = Len(s) /\ DOMAIN s = 1 .. n
  OBVIOUS
<1>1. PICK i \in 1 .. n : s[i] = x
  BY <1>0 DEF ToSet
<1>2. SelectInSeq(s, LAMBDA y : y = x) = i
  <2>1. {j \in 1 .. Len(s) : s[j] = x} = {i}
    BY <1>0, <1>1 DEF IsInjective
  <2>2. Min({i}) = i
    BY DEF Min
  <2> QED
    BY <2>1, <2>2 DEF SelectInSeq
<1>3. PICK p, q : p = SubSeq(s, 1, i - 1) /\ q = SubSeq(s, i + 1, n)
  OBVIOUS
<1>4. p \in Seq(Node) /\ q \in Seq(Node) /\ x \in Node
  BY <1>0, <1>1, <1>3
<1>5. SubSeq(s, i, n) = <<x>> \o q
  BY <1>0, <1>1, <1>3
<1>6. s = p \o <<x>> \o q
  <2>1. p \o <<x>> = SubSeq(s, 1, i)
    BY <1>0, <1>1, <1>3
  <2>2. SubSeq(s, 1, i) \o q = SubSeq(s, 1, n)
    BY <1>0, <1>1, <1>3
  <2>3. SubSeq(s, 1, n) = s
    BY <1>0
  <2> QED
    BY <2>1, <2>2, <2>3
<1>7. Tail(<<x>> \o q) = q
  BY <1>4
<1> QED
  BY <1>0, <1>1, <1>2, <1>3, <1>4, <1>5, <1>6, <1>7 DEF Before, From, Behind

\* A node is a walk from its vertex to the one it leads to.
LEMMA WalkOne ==
  ASSUME NEW x, NEW a, NEW b
  PROVE  Walk(<<x>>, a, b) <=> x[1] = a /\ x[2] = b
<1>1. Len(<<x>>) = 1 /\ <<x>>[1] = x /\ 1 .. 1 = {1}
  OBVIOUS
<1> QED
  BY <1>1 DEF Walk

\* The empty walk stays where it is.
LEMMA WalkNone ==
  ASSUME NEW a, NEW b
  PROVE  Walk(<<>>, a, b) <=> a = b
BY DEF Walk

\* Two walks, the second from where the first ends, are one.
LEMMA WalkJoined ==
  ASSUME NEW s \in Seq(Node), NEW t \in Seq(Node), NEW a, NEW b, NEW c,
         Walk(s, a, b), Walk(t, b, c)
  PROVE  Walk(s \o t, a, c)
<1>1. PICK all, m, n : all = s \o t /\ m = Len(s) /\ n = Len(t)
  OBVIOUS
<1>2. /\ m \in Nat /\ n \in Nat /\ Len(all) = m + n
      /\ \A i \in 1 .. m : all[i] = s[i]
      /\ \A i \in 1 .. n : all[m + i] = t[i]
  BY <1>1
<1>3. ASSUME NEW i \in 1 .. m + n
      PROVE  all[i][1] = IF i = 1 THEN a ELSE all[i - 1][2]
  <2>1. CASE i \in 1 .. m
    BY <1>1, <1>2, <2>1 DEF Walk
  <2>2. CASE i \notin 1 .. m
    <3>1. PICK k \in 1 .. n : i = m + k
      <4>1. i - m \in 1 .. n /\ i = m + (i - m)
        BY <1>2, <2>2
      <4> QED
        BY <4>1
    <3>2. CASE k = 1
      <4>1. all[i] = t[1] /\ t[1][1] = b
        BY <1>1, <1>2, <3>1, <3>2 DEF Walk
      <4>2. CASE m = 0
        BY <1>1, <1>2, <3>1, <3>2, <4>1, <4>2 DEF Walk
      <4>3. CASE m # 0
        <5>1. i - 1 = m /\ m \in 1 .. m /\ i # 1
          BY <1>2, <3>1, <3>2, <4>3
        <5>2. all[i - 1][2] = b
          BY <1>1, <1>2, <4>3, <5>1 DEF Walk
        <5> QED
          BY <4>1, <5>1, <5>2
      <4> QED
        BY <4>2, <4>3
    <3>3. CASE k # 1
      <4>1. k - 1 \in 1 .. n /\ i - 1 = m + (k - 1) /\ i # 1
        BY <1>2, <3>1, <3>3
      <4>2. all[i] = t[k] /\ all[i - 1] = t[k - 1]
        BY <1>2, <3>1, <4>1
      <4> QED
        BY <1>1, <3>1, <3>3, <4>1, <4>2 DEF Walk
    <3> QED
      BY <3>2, <3>3
  <2> QED
    BY <2>1, <2>2
<1>4. c = IF m + n = 0 THEN a ELSE all[m + n][2]
  <2>1. CASE n = 0
    BY <1>1, <1>2, <2>1 DEF Walk
  <2>2. CASE n # 0
    <3>1. n \in 1 .. n /\ m + n # 0
      BY <1>2, <2>2
    <3> QED
      BY <1>1, <1>2, <2>2, <3>1 DEF Walk
  <2> QED
    BY <2>1, <2>2
<1> QED
  BY <1>1, <1>2, <1>3, <1>4 DEF Walk

\* A walk can be taken apart anywhere.
LEMMA WalkParted ==
  ASSUME NEW s \in Seq(Node), NEW t \in Seq(Node), NEW a, NEW c, Walk(s \o t, a, c)
  PROVE  \E b : Walk(s, a, b) /\ Walk(t, b, c)
<1>1. PICK all, m, n : all = s \o t /\ m = Len(s) /\ n = Len(t)
  OBVIOUS
<1>2. /\ m \in Nat /\ n \in Nat /\ Len(all) = m + n
      /\ \A i \in 1 .. m : all[i] = s[i]
      /\ \A i \in 1 .. n : all[m + i] = t[i]
  BY <1>1
<1>3. PICK b : b = IF m = 0 THEN a ELSE s[m][2]
  OBVIOUS
<1>4. Walk(s, a, b)
  <2>1. ASSUME NEW i \in 1 .. m
        PROVE  s[i][1] = IF i = 1 THEN a ELSE s[i - 1][2]
    <3>1. i \in 1 .. m + n /\ (i # 1 => i - 1 \in 1 .. m)
      BY <1>2
    <3> QED
      BY <1>1, <1>2, <3>1 DEF Walk
  <2> QED
    BY <1>1, <1>3, <2>1 DEF Walk
<1>5. Walk(t, b, c)
  <2>1. ASSUME NEW i \in 1 .. n
        PROVE  t[i][1] = IF i = 1 THEN b ELSE t[i - 1][2]
    <3>1. m + i \in 1 .. m + n /\ (i # 1 => i - 1 \in 1 .. n /\ m + i # 1)
          /\ (m + i) - 1 = m + (i - 1)
      BY <1>2
    <3>2. t[i][1] = IF m + i = 1 THEN a ELSE all[m + (i - 1)][2]
      <4>1. \A j \in 1 .. m + n : all[j][1] = IF j = 1 THEN a ELSE all[j - 1][2]
        BY <1>1, <1>2 DEF Walk
      <4>2. all[m + i][1] = IF m + i = 1 THEN a ELSE all[(m + i) - 1][2]
        BY <3>1, <4>1
      <4> QED
        BY <1>2, <3>1, <4>2
    <3>3. CASE i # 1
      BY <1>2, <3>1, <3>2, <3>3
    <3>4. CASE i = 1 /\ m = 0
      BY <1>3, <3>2, <3>4
    <3>5. CASE i = 1 /\ m # 0
      <4>1. m + (i - 1) = m /\ m + i # 1 /\ m \in 1 .. m
        BY <1>2, <3>5
      <4> QED
        BY <1>2, <1>3, <3>2, <3>5, <4>1
    <3> QED
      BY <3>3, <3>4, <3>5
  <2>2. c = IF n = 0 THEN b ELSE t[n][2]
    <3>1. CASE n = 0
      <4>1. m + n = m /\ (m # 0 => m \in 1 .. m)
        BY <1>2, <3>1
      <4> QED
        BY <1>1, <1>2, <1>3, <3>1, <4>1 DEF Walk
    <3>2. CASE n # 0
      <4>1. n \in 1 .. n /\ m + n # 0
        BY <1>2, <3>2
      <4> QED
        BY <1>1, <1>2, <3>2, <4>1 DEF Walk
    <3> QED
      BY <3>1, <3>2
  <2> QED
    BY <1>1, <2>1, <2>2 DEF Walk
<1> QED
  BY <1>4, <1>5

\* A walk that ends at a vertex has no sentinel in it.
LEMMA NoSentinel ==
  ASSUME NEW s \in Seq(Node), NEW a, NEW b \in Vertex, Walk(s, a, b), NEW x \in ToSet(s)
  PROVE  x[2] \in Vertex
<1>1. PICK n \in Nat : n = Len(s) /\ DOMAIN s = 1 .. n
  OBVIOUS
<1>2. PICK i \in 1 .. n : s[i] = x
  BY <1>1 DEF ToSet
<1>3. CASE i = n
  BY <1>1, <1>2, <1>3 DEF Walk
<1>4. CASE i # n
  <2>1. i + 1 \in 1 .. n /\ i + 1 # 1 /\ (i + 1) - 1 = i
    BY <1>1, <1>2, <1>4
  <2>2. s[i + 1][1] = s[i][2]
    BY <1>1, <2>1 DEF Walk
  <2>3. s[i + 1] \in Node
    BY <1>1, <2>1
  <2> QED
    BY <1>2, <2>2, <2>3 DEF Node
<1> QED
  BY <1>3, <1>4

\* A set that no edge leaves keeps a walk along the edges that begins in it.
LEMMA WalkStays ==
  ASSUME NEW s \in Seq(Node), NEW a, NEW b, Walk(s, a, b), NEW F, NEW S, Closed(S, F), a \in S,
         \A x \in ToSet(s) : x[2] \in Vertex => {x[1], x[2]} \in F
  PROVE  \A x \in ToSet(s) : x[1] \in S
<1>1. PICK n \in Nat : n = Len(s) /\ DOMAIN s = 1 .. n
  OBVIOUS
<1>2. PICK out : out = {i \in 1 .. n : s[i][1] \notin S}
  OBVIOUS
<1>3. ASSUME out # {}
      PROVE  FALSE
  <2>1. PICK i \in out : \A k \in out : i <= k
    <3>1. out \in SUBSET Nat
      BY <1>2
    <3> QED
      BY <1>3, <3>1, LeastElement
  <2>2. i \in 1 .. n /\ s[i][1] \notin S
    BY <1>2
  <2>3. i # 1
    BY <1>1, <2>2 DEF Walk
  <2>4. i - 1 \in 1 .. n /\ i - 1 \notin out
    BY <1>1, <2>1, <2>2, <2>3
  <2>5. s[i - 1][1] \in S /\ s[i][1] = s[i - 1][2] /\ s[i] \in Node /\ s[i - 1] \in ToSet(s)
    BY <1>1, <1>2, <2>2, <2>3, <2>4 DEF Walk, ToSet
  <2>6. {s[i - 1][1], s[i - 1][2]} \in F
    BY <2>5 DEF Node
  <2> QED
    BY <2>2, <2>5, <2>6 DEF Closed
<1> QED
  BY <1>1, <1>2, <1>3 DEF ToSet

-----------------------------------------------------------------------------
(* Tours.                                                                  *)

IsTour(tour) ==
  /\ tour \in Seq(Node)
  /\ IsInjective(tour)
  /\ \E r \in Vertex : Walk(tour, r, NoVertex) /\ <<r, NoVertex>> \in ToSet(tour)

\* The vertices a set of nodes belongs to, and all nodes of some tours.
Owners(N) == {x[1] : x \in N}
All(ts) == UNION {ToSet(tour) : tour \in ts}

ForestOf(N) == {e \in Edge : \A u, v \in e : u = v \/ <<u, v>> \in N}

\* Every node of an edge has its twin.
Paired(N) == \A a, b \in Vertex : <<a, b>> \in N => a # b /\ <<b, a>> \in N

Apart(ts) ==
  \A s, t \in ts : \A x \in ToSet(s), y \in ToSet(t) : x[1] = y[1] => s = t

Good(ts) ==
  /\ \A tour \in ts : IsTour(tour)
  /\ Apart(ts)
  /\ Paired(All(ts))
  /\ Acyclic(ForestOf(All(ts)))
  /\ Vertex \subseteq Owners(All(ts))

\* The owners of two sets of nodes together.
LEMMA OwnersUnion ==
  ASSUME NEW N, NEW O
  PROVE  Owners(N \cup O) = Owners(N) \cup Owners(O)
BY DEF Owners

\* The owner of one node.
LEMMA OwnersOne ==
  ASSUME NEW a, NEW b
  PROVE  Owners({<<a, b>>}) = {a}
BY DEF Owners

\* The owners of the two nodes of an edge.
LEMMA OwnersPair ==
  ASSUME NEW a, NEW b
  PROVE  Owners({<<a, b>>, <<b, a>>}) = {a, b}
BY DEF Owners

\* A node is a pair; the key that is no vertex is the sentinel's.
LEMMA NodeIs ==
  ASSUME NEW x \in Node
  PROVE  /\ x = <<x[1], x[2]>> /\ x[1] \in Vertex /\ x[2] \in Key
         /\ x[2] \notin Vertex => x[2] = NoVertex
BY DEF Node, Key

\* What a tour holds are nodes.
LEMMA InTour ==
  ASSUME NEW tour \in Seq(Node), NEW x \in ToSet(tour)
  PROVE  x \in Node
BY DEF ToSet

\* A tour ends in its sentinel, the only one, where it began.
LEMMA TourEnds ==
  ASSUME NEW tour, IsTour(tour)
  PROVE  \E r \in Vertex, s \in Seq(Node) :
           /\ tour = s \o << <<r, NoVertex>> >>
           /\ Last(tour) = <<r, NoVertex>> /\ Front(tour) = s
           /\ Walk(s, r, r) /\ Walk(tour, r, NoVertex) /\ tour[1][1] = r
           /\ Len(tour) \in Nat /\ Len(tour) >= 1
           /\ ToSet(tour) = ToSet(s) \cup {<<r, NoVertex>>}
           /\ <<r, NoVertex>> \notin ToSet(s)
           /\ IsInjective(s)
           /\ \A x \in ToSet(s) : x[2] \in Vertex
<1>1. PICK r \in Vertex : Walk(tour, r, NoVertex) /\ <<r, NoVertex>> \in ToSet(tour)
  BY DEF IsTour
<1>2. tour \in Seq(Node) /\ IsInjective(tour)
  BY DEF IsTour
<1>3. PICK n \in Nat : n = Len(tour) /\ DOMAIN tour = 1 .. n
  BY <1>2
<1>4. PICK i \in 1 .. n : tour[i] = <<r, NoVertex>>
  BY <1>1, <1>3 DEF ToSet
<1>5. i = n
  <2> SUFFICES ASSUME i # n PROVE FALSE
    OBVIOUS
  <2>1. i + 1 \in 1 .. n /\ i + 1 # 1 /\ (i + 1) - 1 = i
    BY <1>3, <1>4
  <2>2. tour[i + 1][1] = tour[i][2] /\ tour[i + 1] \in Node
    BY <1>1, <1>2, <1>3, <2>1 DEF Walk
  <2> QED
    BY <1>4, <2>2, NoVertexAssumption DEF Node
<1>6. PICK s, z : s = SubSeq(tour, 1, n - 1) /\ z = <<r, NoVertex>>
  OBVIOUS
<1>7. s \in Seq(Node) /\ z \in Node /\ tour = s \o <<z>> /\ n >= 1
  <2>1. z \in Node /\ n >= 1 /\ tour[n] = z
    BY <1>3, <1>4, <1>5, <1>6 DEF Node, Key
  <2>2. s \in Seq(Node)
    BY <1>2, <1>3, <1>6, <2>1
  <2>3. tour = s \o <<z>>
    <3>1. s \o <<z>> = SubSeq(tour, 1, n)
      BY <1>2, <1>3, <1>6, <2>1
    <3>2. SubSeq(tour, 1, n) = tour
      BY <1>2, <1>3
    <3> QED
      BY <3>1, <3>2
  <2> QED
    BY <2>1, <2>2, <2>3
<1>8. <<z>> \in Seq(Node) /\ ToSet(<<z>>) = {z} /\ IsInjective(<<z>>)
  BY <1>7, ToSetOne
<1>9. ToSet(tour) = ToSet(s) \cup {z} /\ IsInjective(s) /\ z \notin ToSet(s)
  <2>1. ToSet(s \o <<z>>) = ToSet(s) \cup ToSet(<<z>>)
    BY <1>7, <1>8, ToSetJoined
  <2>2. IsInjective(s \o <<z>>)
    BY <1>2, <1>7
  <2>3. IsInjective(s) /\ ToSet(s) \cap ToSet(<<z>>) = {}
    BY <1>7, <1>8, <2>2, InjectiveJoined
  <2> QED
    BY <1>7, <1>8, <2>1, <2>3
<1>10. Walk(s, r, r)
  <2>1. PICK b : Walk(s, r, b) /\ Walk(<<z>>, b, NoVertex)
    BY <1>1, <1>7, <1>8, WalkParted
  <2>2. b = r
    BY <1>6, <2>1, WalkOne
  <2> QED
    BY <2>1, <2>2
<1>11. \A x \in ToSet(s) : x[2] \in Vertex
  BY <1>7, <1>10, NoSentinel
<1>12. tour[1][1] = r
  BY <1>1, <1>3, <1>7 DEF Walk
<1>13. Last(tour) = z /\ Front(tour) = s
  BY <1>3, <1>4, <1>5, <1>6 DEF Last, Front
<1> QED
  BY <1>1, <1>3, <1>6, <1>7, <1>9, <1>10, <1>11, <1>12, <1>13

\* Where a node leads to has nodes of its own in the tour.
LEMMA LeadsOn ==
  ASSUME NEW tour, IsTour(tour), NEW x \in ToSet(tour), x[2] \in Vertex
  PROVE  x[2] \in Owners(ToSet(tour))
<1>1. tour \in Seq(Node)
  BY DEF IsTour
<1>2. PICK n \in Nat : n = Len(tour) /\ DOMAIN tour = 1 .. n
  BY <1>1
<1>3. PICK r \in Vertex : Walk(tour, r, NoVertex)
  BY DEF IsTour
<1>4. PICK i \in 1 .. n : tour[i] = x
  BY <1>2 DEF ToSet
<1>5. i # n
  BY <1>2, <1>3, <1>4, NoVertexAssumption DEF Walk
<1>6. i + 1 \in 1 .. n /\ i + 1 # 1 /\ (i + 1) - 1 = i
  BY <1>2, <1>4, <1>5
<1>7. tour[i + 1][1] = x[2] /\ tour[i + 1] \in ToSet(tour)
  BY <1>2, <1>3, <1>4, <1>6 DEF Walk, ToSet
<1> QED
  BY <1>7 DEF Owners

\* What tours hold are nodes of vertices.
LEMMA NodesOfTours ==
  ASSUME NEW ts, \A tour \in ts : IsTour(tour)
  PROVE  All(ts) \subseteq Node /\ Owners(All(ts)) \subseteq Vertex
<1>1. \A tour \in ts : ToSet(tour) \subseteq Node
  BY InTour DEF IsTour
<1>2. All(ts) \subseteq Node
  BY <1>1 DEF All
<1> QED
  BY <1>2, NodeIs DEF Owners

\* A node is in the tour in which its vertex is.
LEMMA InOneTour ==
  ASSUME NEW ts, Apart(ts), NEW tour \in ts, NEW x \in All(ts), x[1] \in Owners(ToSet(tour))
  PROVE  x \in ToSet(tour)
BY DEF Apart, All, Owners

\* A node that leads to a vertex has an edge in the forest.
LEMMA ForestEdge ==
  ASSUME NEW N, Paired(N), NEW a \in Vertex, NEW b \in Vertex, <<a, b>> \in N
  PROVE  {a, b} \in ForestOf(N)
<1>1. a # b /\ <<b, a>> \in N
  BY DEF Paired
<1>2. {a, b} \in Edge
  BY <1>1 DEF Edge
<1> QED
  BY <1>1, <1>2 DEF ForestOf

\* An edge of the forest has a node either way.
LEMMA EdgeOfForest ==
  ASSUME NEW N, NEW a, NEW b, {a, b} \in ForestOf(N)
  PROVE  /\ a \in Vertex /\ b \in Vertex /\ a # b /\ {a, b} \in Edge
         /\ <<a, b>> \in N /\ <<b, a>> \in N
<1>1. {a, b} \in Edge
  BY DEF ForestOf
<1>2. a \in Vertex /\ b \in Vertex /\ a # b
  BY <1>1 DEF Edge
<1> QED
  BY <1>1, <1>2 DEF ForestOf

\* No edge leaves the vertices of a tour.
LEMMA OwnersClosed ==
  ASSUME NEW ts, Good(ts), NEW tour \in ts
  PROVE  /\ Owners(ToSet(tour)) \in SUBSET Vertex
         /\ Closed(Owners(ToSet(tour)), ForestOf(All(ts)))
<1>1. IsTour(tour) /\ Apart(ts) /\ ToSet(tour) \subseteq All(ts)
  BY DEF Good, All
<1>2. Owners(ToSet(tour)) \in SUBSET Vertex
  BY <1>1, NodesOfTours DEF Owners, Good
<1>3. ASSUME NEW e \in ForestOf(All(ts)), NEW a \in e, NEW b \in e, a \in Owners(ToSet(tour))
      PROVE  b \in Owners(ToSet(tour))
  <2>1. CASE a = b
    BY <1>3, <2>1
  <2>2. CASE a # b
    <3>1. <<a, b>> \in All(ts) /\ b \in Vertex
      BY <2>2, EdgeInVertex DEF ForestOf
    <3>2. <<a, b>> \in ToSet(tour)
      BY <1>1, <1>3, <3>1, InOneTour
    <3> QED
      BY <1>1, <3>1, <3>2, LeadsOn
  <2> QED
    BY <2>1, <2>2
<1> QED
  BY <1>2, <1>3 DEF Closed

\* A tour along the edges of F connects its vertices in F.
LEMMA TourConnected ==
  ASSUME NEW tour, IsTour(tour), NEW F \in SUBSET Edge,
         \A x \in ToSet(tour) : x[2] \in Vertex => {x[1], x[2]} \in F,
         NEW v \in Owners(ToSet(tour))
  PROVE  Owners(ToSet(tour)) \subseteq Component(F, v)
<1> DEFINE O == Owners(ToSet(tour))
<1>1. tour \in Seq(Node)
  BY DEF IsTour
<1>2. PICK r \in Vertex : Walk(tour, r, NoVertex)
  BY DEF IsTour
<1>3. Closed(Component(F, r), F) /\ r \in Component(F, r)
  BY <1>2, ComponentClosed, ComponentSelf
<1>4. \A x \in ToSet(tour) : x[1] \in Component(F, r)
  BY <1>1, <1>2, <1>3, WalkStays
<1>5. O \subseteq Component(F, r)
  BY <1>4 DEF Owners
<1>6. Component(F, v) = Component(F, r)
  BY <1>2, <1>5, ComponentEqual
<1> QED
  BY <1>5, <1>6

\* The vertices of a tour are those of a tree.
LEMMA TourIsTree ==
  ASSUME NEW ts, Good(ts), NEW tour \in ts, NEW v \in Owners(ToSet(tour))
  PROVE  Component(ForestOf(All(ts)), v) = Owners(ToSet(tour))
<1> DEFINE F == ForestOf(All(ts))
           O == Owners(ToSet(tour))
<1>1. O \in SUBSET Vertex /\ Closed(O, F) /\ v \in Vertex
  BY OwnersClosed
<1>2. Component(F, v) \subseteq O
  BY <1>1, ComponentLeast
<1>3. IsTour(tour) /\ tour \in Seq(Node) /\ Paired(All(ts)) /\ ToSet(tour) \subseteq All(ts)
  BY DEF Good, IsTour, All
<1>4. F \in SUBSET Edge
  BY DEF ForestOf
<1>5. \A x \in ToSet(tour) : x[2] \in Vertex => {x[1], x[2]} \in F
  <2> SUFFICES ASSUME NEW x \in ToSet(tour), x[2] \in Vertex PROVE {x[1], x[2]} \in F
    OBVIOUS
  <2>1. x \in Node /\ x \in All(ts)
    BY <1>3, InTour
  <2>2. x[1] \in Vertex /\ <<x[1], x[2]>> \in All(ts)
    BY <2>1, NodeIs
  <2> QED
    BY <1>3, <2>2, ForestEdge
<1>6. O \subseteq Component(F, v)
  <2> HIDE DEF F
  <2> QED
    BY <1>3, <1>4, <1>5, TourConnected
<1> QED
  BY <1>2, <1>6

-----------------------------------------------------------------------------
(* Linking and cutting tours.                                              *)

\* A walk that goes on with nodes it does not have yet.
LEMMA Extended ==
  ASSUME NEW s \in Seq(Node), NEW t \in Seq(Node), NEW a, NEW b, NEW c,
         Walk(s, a, b), Walk(t, b, c), IsInjective(s), IsInjective(t),
         ToSet(s) \cap ToSet(t) = {}
  PROVE  /\ s \o t \in Seq(Node)
         /\ Walk(s \o t, a, c)
         /\ IsInjective(s \o t)
         /\ ToSet(s \o t) = ToSet(s) \cup ToSet(t)
BY Joined, WalkJoined, InjectiveJoined, ToSetJoined

\* Before its node x the tour old takes the edge e1, goes round M and comes back
\* by e2.
Spliced(P, M, Q, x, e1, e2, u, v, old, new) ==
  /\ P \in Seq(Node) /\ M \in Seq(Node) /\ Q \in Seq(Node)
  /\ x \in Node /\ e1 \in Node /\ e2 \in Node
  /\ x[1] = u /\ e1[1] = u /\ e1[2] = v /\ e2[1] = v /\ e2[2] = u /\ e1 # e2
  /\ old = P \o <<x>> \o Q /\ IsTour(old)
  /\ Walk(M, v, v) /\ IsInjective(M)
  /\ ToSet(old) \cap ToSet(M) = {}
  /\ {e1, e2} \cap (ToSet(old) \cup ToSet(M)) = {}
  /\ new = P \o <<e1>> \o M \o <<e2>> \o (<<x>> \o Q)

\* A tour with a closed walk put into it, between the nodes of a new edge, is a tour.
LEMMA LinkedTour ==
  ASSUME NEW P, NEW M, NEW Q, NEW x, NEW e1, NEW e2, NEW u, NEW v, NEW old, NEW new,
         Spliced(P, M, Q, x, e1, e2, u, v, old, new)
  PROVE  /\ IsTour(new)
         /\ ToSet(new) = ToSet(old) \cup ToSet(M) \cup {e1, e2}
<1> USE DEF Spliced
<1>1. PICK R, out, back : /\ R = <<x>> \o Q
                          /\ out = <<e1>> /\ back = <<e2>>
                          /\ new = P \o out \o M \o back \o R
  OBVIOUS
<1>2. /\ out \in Seq(Node) /\ back \in Seq(Node) /\ <<x>> \in Seq(Node)
      /\ ToSet(out) = {e1} /\ ToSet(back) = {e2}
      /\ IsInjective(out) /\ IsInjective(back)
  BY <1>1, ToSetOne
<1>3. R \in Seq(Node) /\ old = P \o R
  BY <1>1, <1>2
<1>4. PICK r \in Vertex : Walk(old, r, NoVertex) /\ <<r, NoVertex>> \in ToSet(old)
  BY <1>1 DEF IsTour
<1>5. /\ ToSet(old) = ToSet(P) \cup ToSet(R)
      /\ IsInjective(P) /\ IsInjective(R) /\ ToSet(P) \cap ToSet(R) = {}
  <2>1. IsInjective(P \o R)
    BY <1>1, <1>3 DEF IsTour
  <2>2. IsInjective(P) /\ IsInjective(R) /\ ToSet(P) \cap ToSet(R) = {}
    BY ONLY <1>3, <2>1, P \in Seq(Node), InjectiveJoined
  <2>3. ToSet(P \o R) = ToSet(P) \cup ToSet(R)
    BY ONLY <1>3, P \in Seq(Node), ToSetJoined
  <2> QED
    BY <1>3, <2>2, <2>3
<1>6. Walk(P, r, u) /\ Walk(R, u, NoVertex)
  <2>1. Walk(P \o R, r, NoVertex)
    BY <1>3, <1>4
  <2>2. PICK b : Walk(P, r, b) /\ Walk(R, b, NoVertex)
    BY <1>3, <2>1, WalkParted
  <2>3. b = u
    <3>1. Len(R) >= 1 /\ Len(R) \in Nat /\ R[1] = x
      BY <1>1, <1>2
    <3>2. R[1][1] = b
      BY <2>2, <3>1 DEF Walk
    <3> QED
      BY <3>1, <3>2
  <2> QED
    BY <2>2, <2>3
<1>7. Walk(out, u, v) /\ Walk(back, v, u)
  <2>1. Walk(<<e1>>, u, v) /\ Walk(<<e2>>, v, u)
    BY WalkOne
  <2> QED
    BY <1>1, <2>1
<1>8. PICK p1, p2, p3 : p1 = P \o out /\ p2 = p1 \o M /\ p3 = p2 \o back
  OBVIOUS
<1>9. /\ p1 \in Seq(Node) /\ Walk(p1, r, v) /\ IsInjective(p1)
      /\ ToSet(p1) = ToSet(P) \cup {e1}
  <2>1. ToSet(P) \cap ToSet(out) = {}
    BY <1>1, <1>2, <1>5
  <2> QED
    BY <1>2, <1>5, <1>6, <1>7, <1>8, <2>1, Extended
<1>10. /\ p2 \in Seq(Node) /\ Walk(p2, r, v) /\ IsInjective(p2)
       /\ ToSet(p2) = ToSet(P) \cup {e1} \cup ToSet(M)
  <2>1. ToSet(p1) \cap ToSet(M) = {}
    BY <1>1, <1>5, <1>9
  <2> QED
    BY <1>8, <1>9, <2>1, Extended
<1>11. /\ new \in Seq(Node) /\ Walk(new, r, NoVertex) /\ IsInjective(new)
       /\ ToSet(new) = ToSet(P) \cup {e1} \cup ToSet(M) \cup {e2} \cup ToSet(R)
  <2>1. ToSet(p2) \cap ToSet(back) = {}
    BY <1>1, <1>2, <1>5, <1>10
  <2>2. /\ p3 \in Seq(Node) /\ Walk(p3, r, u) /\ IsInjective(p3)
        /\ ToSet(p3) = ToSet(p2) \cup ToSet(back)
    BY <1>2, <1>7, <1>8, <1>10, <2>1, Extended
  <2>3. ToSet(p3) \cap ToSet(R) = {}
    BY <1>1, <1>2, <1>5, <1>10, <2>2
  <2>4. new = p3 \o R
    BY <1>1, <1>8
  <2>5. /\ p3 \o R \in Seq(Node) /\ Walk(p3 \o R, r, NoVertex) /\ IsInjective(p3 \o R)
        /\ ToSet(p3 \o R) = ToSet(p3) \cup ToSet(R)
    BY <1>3, <1>5, <1>6, <2>2, <2>3, Extended
  <2> QED
    BY <1>2, <1>10, <2>2, <2>4, <2>5
<1>12. ToSet(new) = ToSet(old) \cup ToSet(M) \cup {e1, e2}
  BY <1>5, <1>11
<1>13. IsTour(new)
  BY <1>4, <1>11, <1>12 DEF IsTour
<1> QED
  BY <1>1, <1>12, <1>13

\* new is what link makes of the tours this and that at the nodes <<u, x>> and
\* <<v, y>>.
Linking(this, that, u, v, x, y, new) ==
  /\ IsTour(this) /\ IsTour(that)
  /\ Owners(ToSet(this)) \cap Owners(ToSet(that)) = {}
  /\ u \in Vertex /\ v \in Vertex
  /\ u \in Owners(ToSet(this)) /\ v \in Owners(ToSet(that))
  /\ x \in Key /\ <<u, x>> \in ToSet(this)
  /\ y \in Key /\ (Front(that) = <<>> \/ <<v, y>> \in ToSet(Front(that)))
  /\ new = Linked(this, Front(that), u, x, v, y)

\* Linked() makes one tour of the vertices of two, less a sentinel.
LEMMA LinkedIs ==
  ASSUME NEW this, NEW that, NEW u, NEW v, NEW x, NEW y, NEW new,
         Linking(this, that, u, v, x, y, new)
  PROVE  /\ IsTour(new)
         /\ ToSet(new) = ToSet(this) \cup (ToSet(that) \ {Last(that)}) \cup {<<u, v>>, <<v, u>>}
         /\ Owners(ToSet(new)) = Owners(ToSet(this)) \cup Owners(ToSet(that))
<1> USE DEF Linking
<1>1. PICK r, s : /\ r \in Vertex /\ s \in Seq(Node)
                  /\ that = s \o << <<r, NoVertex>> >>
                  /\ Last(that) = <<r, NoVertex>> /\ Front(that) = s
                  /\ Walk(s, r, r)
                  /\ ToSet(that) = ToSet(s) \cup {<<r, NoVertex>>}
                  /\ <<r, NoVertex>> \notin ToSet(s)
                  /\ IsInjective(s)
  BY TourEnds
<1>2. this \in Seq(Node) /\ IsInjective(this) /\ that \in Seq(Node)
  BY DEF IsTour
<1>3. PICK P, Q : /\ P \in Seq(Node) /\ Q \in Seq(Node)
                  /\ this = P \o << <<u, x>> >> \o Q
                  /\ Before(this, <<u, x>>) = P
                  /\ From(this, <<u, x>>) = << <<u, x>> >> \o Q
  <2>1. PICK z : z = <<u, x>> /\ z \in ToSet(this)
    OBVIOUS
  <2>2. \E p, q \in Seq(Node) :
           /\ this = p \o <<z>> \o q
           /\ Before(this, z) = p /\ From(this, z) = <<z>> \o q /\ Behind(this, z) = q
    <3>1. this \in Seq(Node) /\ IsInjective(this) /\ z \in ToSet(this)
      BY <1>2, <2>1
    <3> QED
      BY ONLY <3>1, SplitAt, Zenon
  <2> QED
    BY <2>1, <2>2, Zenon
<1>4. PICK M : M = IF s = <<>> THEN <<>> ELSE From(s, <<v, y>>) \o Before(s, <<v, y>>)
  OBVIOUS
<1>5. new = P \o << <<u, v>> >> \o M \o << <<v, u>> >> \o (<< <<u, x>> >> \o Q)
  BY <1>1, <1>3, <1>4 DEF Linked
<1>6. /\ M \in Seq(Node) /\ Walk(M, v, v) /\ IsInjective(M) /\ ToSet(M) = ToSet(s)
      /\ r \in Owners(ToSet(M)) \/ r = v
  <2>1. CASE s = <<>>
    <3>1. ToSet(<<>>) = {} /\ IsInjective(<<>>) /\ <<>> \in Seq(Node)
      BY DEF ToSet, IsInjective
    <3>2. v = r
      BY <1>1, <2>1, <3>1 DEF Owners
    <3> QED
      BY <1>4, <2>1, <3>1, <3>2, WalkNone
  <2>2. CASE s # <<>>
    <3>1. <<v, y>> \in ToSet(s)
      BY <1>1, <2>2
    <3>2. PICK D, E : /\ D \in Seq(Node) /\ E \in Seq(Node)
                      /\ s = D \o << <<v, y>> >> \o E
                      /\ Before(s, <<v, y>>) = D
                      /\ From(s, <<v, y>>) = << <<v, y>> >> \o E
      <4>1. PICK z : z = <<v, y>> /\ z \in ToSet(s)
        BY <3>1
      <4>2. \E p, q \in Seq(Node) :
               /\ s = p \o <<z>> \o q
               /\ Before(s, z) = p /\ From(s, z) = <<z>> \o q /\ Behind(s, z) = q
        <5>1. s \in Seq(Node) /\ IsInjective(s) /\ z \in ToSet(s)
          BY <1>1, <4>1
        <5> QED
          BY ONLY <5>1, SplitAt, Zenon
      <4> QED
        BY <4>1, <4>2, Zenon
    <3>3. PICK C : C = << <<v, y>> >> \o E
      OBVIOUS
    <3>4. C \in Seq(Node) /\ s = D \o C /\ M = C \o D
      <4>1. << <<v, y>> >> \in Seq(Node)
        <5>1. <<v, y>> \in Node
          BY DEF Node
        <5> QED
          BY <5>1
      <4>2. C \in Seq(Node)
        BY ONLY <3>2, <3>3, <4>1
      <4>3. D \o << <<v, y>> >> \o E = D \o (<< <<v, y>> >> \o E)
        BY ONLY <3>2, <4>1
      <4>4. M = From(s, <<v, y>>) \o Before(s, <<v, y>>)
        BY <1>4, <2>2
      <4>5. s = D \o C /\ M = C \o D
        BY ONLY <3>2, <3>3, <4>3, <4>4, Zenon
      <4> QED
        BY <4>2, <4>5
    <3>5. IsInjective(D) /\ IsInjective(C) /\ ToSet(D) \cap ToSet(C) = {}
          /\ ToSet(s) = ToSet(D) \cup ToSet(C)
      <4>1. IsInjective(D \o C)
        BY <1>1, <3>4
      <4>2. D \in Seq(Node) /\ C \in Seq(Node)
        BY <3>2, <3>4
      <4>3. IsInjective(D) /\ IsInjective(C) /\ ToSet(D) \cap ToSet(C) = {}
        BY ONLY <4>1, <4>2, InjectiveJoined
      <4>4. ToSet(D \o C) = ToSet(D) \cup ToSet(C)
        BY ONLY <4>2, ToSetJoined
      <4> QED
        BY <3>4, <4>3, <4>4
    <3>6. PICK b : Walk(D, r, b) /\ Walk(C, b, r)
      <4>1. Walk(D \o C, r, r)
        BY <1>1, <3>4
      <4> QED
        BY <3>2, <3>4, <4>1, WalkParted
    <3>7. b = v
      <4>1. Len(C) >= 1 /\ Len(C) \in Nat /\ C[1] = <<v, y>>
        BY <3>2, <3>3
      <4>2. C[1][1] = b
        BY <3>6, <4>1 DEF Walk
      <4> QED
        BY <4>1, <4>2
    <3>8. M \in Seq(Node) /\ Walk(M, v, v) /\ IsInjective(M) /\ ToSet(M) = ToSet(s)
      <4>1. Walk(C, v, r) /\ Walk(D, r, v) /\ ToSet(C) \cap ToSet(D) = {}
        BY <3>5, <3>6, <3>7
      <4>2. /\ C \o D \in Seq(Node) /\ Walk(C \o D, v, v) /\ IsInjective(C \o D)
            /\ ToSet(C \o D) = ToSet(C) \cup ToSet(D)
        BY <3>2, <3>4, <3>5, <4>1, Extended
      <4> QED
        BY <3>4, <3>5, <4>2
    <3>9. r \in Owners(ToSet(s))
      <4>1. PICK n \in Nat : n = Len(s) /\ DOMAIN s = 1 .. n
        BY <1>1
      <4>2. 1 \in 1 .. n
        BY <1>1, <2>2, <4>1
      <4>3. s[1][1] = r /\ s[1] \in ToSet(s)
        BY <1>1, <4>1, <4>2 DEF Walk, ToSet
      <4> QED
        BY <4>3 DEF Owners
    <3> QED
      BY <3>8, <3>9
  <2> QED
    BY <2>1, <2>2
<1>7. \A z \in ToSet(this) : z \notin ToSet(that)
  BY DEF Owners
<1>8. u \notin Owners(ToSet(that)) /\ v \notin Owners(ToSet(this)) /\ u # v
  OBVIOUS
<1>9. <<u, v>> \notin ToSet(this) /\ <<u, v>> \notin ToSet(that)
  <2>1. <<u, v>>[1] = u /\ <<u, v>>[2] = v
    OBVIOUS
  <2> QED
    BY <1>8, <2>1, LeadsOn DEF Owners
<1>10. <<v, u>> \notin ToSet(this) /\ <<v, u>> \notin ToSet(that)
  <2>1. <<v, u>>[1] = v /\ <<v, u>>[2] = u
    OBVIOUS
  <2> QED
    BY <1>8, <2>1, LeadsOn DEF Owners
<1>11. /\ IsTour(new)
       /\ ToSet(new) = ToSet(this) \cup ToSet(M) \cup {<<u, v>>, <<v, u>>}
  <2>1. /\ <<u, v>> # <<v, u>>
        /\ ToSet(this) \cap ToSet(M) = {}
        /\ {<<u, v>>, <<v, u>>} \cap (ToSet(this) \cup ToSet(M)) = {}
    BY <1>1, <1>6, <1>7, <1>8, <1>9, <1>10
  <2>2. PICK n, e1, e2 : n = <<u, x>> /\ e1 = <<u, v>> /\ e2 = <<v, u>>
    OBVIOUS
  <2>3. /\ P \in Seq(Node) /\ M \in Seq(Node) /\ Q \in Seq(Node)
        /\ this = P \o <<n>> \o Q /\ IsTour(this)
        /\ new = P \o <<e1>> \o M \o <<e2>> \o (<<n>> \o Q)
    BY ONLY <1>3, <1>5, <1>6, <2>2, IsTour(this), Zenon
  <2>4. /\ n \in Node /\ e1 \in Node /\ e2 \in Node
        /\ n[1] = u /\ e1[1] = u /\ e1[2] = v /\ e2[1] = v /\ e2[2] = u
    BY <2>2 DEF Node, Key
  <2>5. /\ e1 # e2 /\ ToSet(this) \cap ToSet(M) = {}
        /\ {e1, e2} \cap (ToSet(this) \cup ToSet(M)) = {}
    BY ONLY <2>1, <2>2, Zenon
  <2>6. Walk(M, v, v) /\ IsInjective(M)
    BY <1>6
  <2>7. /\ IsTour(new)
        /\ ToSet(new) = ToSet(this) \cup ToSet(M) \cup {e1, e2}
    <3>1. Spliced(P, M, Q, n, e1, e2, u, v, this, new)
      BY ONLY <2>3, <2>4, <2>5, <2>6, Zenon DEF Spliced
    <3> QED
      BY ONLY <3>1, LinkedTour
  <2> QED
    BY <2>2, <2>7
<1>12. ToSet(M) = ToSet(that) \ {Last(that)}
  BY <1>1, <1>6
<1>13. Owners(ToSet(new)) = Owners(ToSet(this)) \cup Owners(ToSet(that))
  <2>1. Owners(ToSet(new)) = Owners(ToSet(this)) \cup Owners(ToSet(M)) \cup {u, v}
    <3>1. Owners(ToSet(new)) = Owners(ToSet(this) \cup ToSet(M)) \cup Owners({<<u, v>>, <<v, u>>})
      BY <1>11, OwnersUnion
    <3> QED
      BY ONLY <3>1, OwnersUnion, OwnersPair, Zenon
  <2>2. Owners(ToSet(that)) = Owners(ToSet(M)) \cup {r}
    <3>1. ToSet(that) = ToSet(M) \cup {<<r, NoVertex>>}
      BY <1>1, <1>6
    <3>2. Owners(ToSet(that)) = Owners(ToSet(M)) \cup Owners({<<r, NoVertex>>})
      BY <3>1, OwnersUnion
    <3> QED
      BY ONLY <3>2, OwnersOne, Zenon
  <2> QED
    BY <1>6, <2>1, <2>2
<1> QED
  BY <1>11, <1>12, <1>13

\* ts2 are the tours ts with this and that linked to new.
LinkedIn(ts, this, that, u, v, new, ts2) ==
  /\ Good(ts) /\ this \in ts /\ that \in ts /\ this # that
  /\ u \in Owners(ToSet(this)) /\ v \in Owners(ToSet(that)) /\ IsTour(new)
  /\ ToSet(new) = ToSet(this) \cup (ToSet(that) \ {Last(that)}) \cup {<<u, v>>, <<v, u>>}
  /\ Owners(ToSet(new)) = Owners(ToSet(this)) \cup Owners(ToSet(that))
  /\ ts2 = (ts \ {this, that}) \cup {new}

\* What linking two tours does to the nodes and to the forest.
LEMMA LinkGood ==
  ASSUME NEW ts, NEW this, NEW that, NEW u, NEW v, NEW new, NEW ts2,
         LinkedIn(ts, this, that, u, v, new, ts2)
  PROVE  /\ Good(ts2)
         /\ All(ts2) = (All(ts) \ {Last(that)}) \cup {<<u, v>>, <<v, u>>}
         /\ {u, v} \in Edge
         /\ ForestOf(All(ts2)) = ForestOf(All(ts)) \cup {{u, v}}
         /\ ~Joins(ForestOf(All(ts)), {u, v})
<1> USE DEF LinkedIn
<1> DEFINE N == All(ts)
           N2 == All(ts2)
           F == ForestOf(N)
<1>1. /\ \A tour \in ts : IsTour(tour)
      /\ Apart(ts) /\ Paired(N) /\ Acyclic(F) /\ Vertex \subseteq Owners(N)
  BY DEF Good
<1>2. N \subseteq Node /\ Owners(N) = Vertex /\ F \in SUBSET Edge
  BY <1>1, NodesOfTours DEF ForestOf
<1>3. \A s \in ts : ToSet(s) \subseteq N /\ Owners(ToSet(s)) \subseteq Vertex
  BY <1>2 DEF All, Owners
<1>4. PICK r \in Vertex : Last(that) = <<r, NoVertex>> /\ Last(that) \in ToSet(that)
  <2>1. IsTour(that)
    BY <1>1
  <2>2. \E r \in Vertex, s \in Seq(Node) :
          /\ Last(that) = <<r, NoVertex>>
          /\ ToSet(that) = ToSet(s) \cup {<<r, NoVertex>>}
    BY ONLY <2>1, TourEnds
  <2> QED
    BY <2>2
<1>5. \A s, t \in ts : s # t => Owners(ToSet(s)) \cap Owners(ToSet(t)) = {}
  BY <1>1 DEF Apart, Owners
<1>6. u \in Vertex /\ v \in Vertex /\ u # v /\ {u, v} \in Edge
  <2>1. u \in Vertex /\ v \in Vertex /\ u # v
    BY <1>3, <1>5
  <2> QED
    BY <2>1 DEF Edge
<1>7. N2 = (N \ {Last(that)}) \cup {<<u, v>>, <<v, u>>}
  <2>1. ASSUME NEW z \in N2
        PROVE  z \in (N \ {Last(that)}) \cup {<<u, v>>, <<v, u>>}
    <3>1. PICK t \in ts2 : z \in ToSet(t)
      BY DEF All
    <3>2. CASE t = new
      <4>1. ToSet(this) \subseteq N /\ ToSet(that) \subseteq N /\ Last(that) \notin ToSet(this)
        BY <1>3, <1>4, <1>5 DEF Owners
      <4> QED
        BY <3>1, <3>2, <4>1
    <3>3. CASE t \in ts /\ t # that
      <4>1. z \in N /\ z # Last(that)
        BY <1>3, <1>4, <1>5, <3>1, <3>3 DEF Owners
      <4> QED
        BY <4>1
    <3> QED
      BY <3>1, <3>2, <3>3
  <2>2. ASSUME NEW z \in N, z # Last(that)
        PROVE  z \in N2
    <3>1. PICK t \in ts : z \in ToSet(t)
      BY DEF All
    <3>2. CASE t = this \/ t = that
      BY <2>2, <3>1, <3>2 DEF All
    <3>3. CASE t # this /\ t # that
      BY <3>1, <3>3 DEF All
    <3> QED
      BY <3>2, <3>3
  <2>3. <<u, v>> \in N2 /\ <<v, u>> \in N2
    BY DEF All
  <2> QED
    BY <2>1, <2>2, <2>3
<1>8. \A a, b \in Vertex : <<a, b>> \in N2 <=> <<a, b>> \in N \/ {a, b} = {u, v}
  <2>1. \A a, b \in Vertex : <<a, b>> # Last(that)
    BY <1>4, NoVertexAssumption
  <2>2. \A a, b : {a, b} = {u, v} <=> <<a, b>> = <<u, v>> \/ <<a, b>> = <<v, u>>
    BY <1>6
  <2> QED
    BY <1>7, <2>1, <2>2
<1>9. Paired(N2)
  BY <1>1, <1>6, <1>8 DEF Paired
<1>10. ForestOf(N2) = F \cup {{u, v}}
  <2>1. ASSUME NEW e \in Edge
        PROVE  e \in ForestOf(N2) <=> e \in F \/ e = {u, v}
    <3>1. PICK a \in Vertex, b \in Vertex : a # b /\ e = {a, b}
      BY EdgeEnds
    <3>2. e \in F <=> <<a, b>> \in N /\ <<b, a>> \in N
      BY <3>1 DEF ForestOf
    <3>3. e \in ForestOf(N2) <=> <<a, b>> \in N2 /\ <<b, a>> \in N2
      BY <3>1 DEF ForestOf
    <3>4. /\ <<a, b>> \in N2 <=> <<a, b>> \in N \/ e = {u, v}
          /\ <<b, a>> \in N2 <=> <<b, a>> \in N \/ e = {u, v}
      BY <1>8, <3>1
    <3> QED
      BY <3>2, <3>3, <3>4
  <2>2. ForestOf(N2) \subseteq Edge /\ {u, v} \in Edge
    BY <1>6 DEF ForestOf
  <2> QED
    BY <1>2, <2>1, <2>2
<1>11. ~Joins(F, {u, v})
  <2>1. Closed(Owners(ToSet(this)), F) /\ Owners(ToSet(this)) \in SUBSET Vertex
    BY OwnersClosed
  <2>2. v \notin Owners(ToSet(this))
    BY <1>5
  <2> QED
    BY <1>6, <2>1, <2>2, NoSeparation
<1>12. Acyclic(ForestOf(N2))
  <2>1. PICK G, e : G = F /\ e = {u, v}
    OBVIOUS
  <2>2. G \in SUBSET Edge /\ Acyclic(G) /\ e \in Edge /\ ~Joins(G, e)
    BY <1>1, <1>2, <1>6, <1>11, <2>1
  <2>3. Acyclic(G \cup {e})
    BY ONLY <2>2, AcyclicLink
  <2> QED
    BY <1>10, <2>1, <2>3
<1>13. Vertex \subseteq Owners(N2)
  <2> SUFFICES ASSUME NEW w \in Vertex PROVE w \in Owners(N2)
    OBVIOUS
  <2>1. PICK z \in N : z[1] = w
    BY <1>1 DEF Owners
  <2>2. PICK t \in ts : z \in ToSet(t)
    BY DEF All
  <2>3. CASE t = this \/ t = that
    <3>1. w \in Owners(ToSet(new))
      BY <2>1, <2>2, <2>3 DEF Owners
    <3> QED
      BY <3>1 DEF Owners, All
  <2>4. CASE t # this /\ t # that
    BY <2>1, <2>2, <2>4 DEF Owners, All
  <2> QED
    BY <2>3, <2>4
<1>14. Apart(ts2)
  <2>1. \A s, t \in ts2 : s # t => Owners(ToSet(s)) \cap Owners(ToSet(t)) = {}
    BY <1>5
  <2> QED
    BY <2>1 DEF Apart, Owners
<1> QED
  BY <1>1, <1>6, <1>7, <1>9, <1>10, <1>11, <1>12, <1>13, <1>14 DEF Good

\* Out of tour and back, with x the way out and y the way back: P before it, Q
\* between, R behind.
Parted(tour, P, Q, R, x, y) ==
  /\ P \in Seq(Node) /\ Q \in Seq(Node) /\ R \in Seq(Node)
  /\ x \in Node /\ y \in Node
  /\ x[2] \in Vertex /\ y[1] = x[2] /\ y[2] = x[1]
  /\ tour = (P \o <<x>>) \o (Q \o (<<y>> \o R))

\* Concatenation is associative.
LEMMA Associative ==
  ASSUME NEW A, NEW B, NEW C, A \in Seq(Node), B \in Seq(Node), C \in Seq(Node)
  PROVE  (A \o B) \o C = A \o (B \o C) /\ A \o B \in Seq(Node)
OBVIOUS

\* The fragments f are the parts of the tour inside and around the edge.
Parts(tour, u, v, f) ==
  \E a, b, P, Q, R :
    /\ (a = u /\ b = v) \/ (a = v /\ b = u)
    /\ Parted(tour, P, Q, R, <<a, b>>, <<b, a>>)
    /\ f.end = b /\ f.inner = Q /\ f.outer = P \o R

\* f are the fragments of a tour that passes the edge.
BothWays(tour, u, v, f) ==
  /\ IsTour(tour) /\ u \in Vertex /\ v \in Vertex /\ u # v
  /\ <<u, v>> \in ToSet(tour) /\ <<v, u>> \in ToSet(tour) /\ f = Fragments(tour, u, v)

\* Fragments() finds these parts, in whichever order the two nodes come.
LEMMA FragmentsAre ==
  ASSUME NEW tour, NEW u, NEW v, NEW f,
         BothWays(tour, u, v, f)
  PROVE  Parts(tour, u, v, f)
<1> USE DEF BothWays, Parts
<1>1. PICK e1, e2 : e1 = <<u, v>> /\ e2 = <<v, u>>
  OBVIOUS
<1>2. /\ e1 # e2 /\ e1 \in Node /\ e2 \in Node /\ e1 \in ToSet(tour) /\ e2 \in ToSet(tour)
      /\ e1[1] = u /\ e1[2] = v /\ e2[1] = v /\ e2[2] = u
  BY <1>1 DEF Node, Key
<1>3. tour \in Seq(Node) /\ IsInjective(tour)
  BY DEF IsTour
<1>4. <<e1>> \in Seq(Node) /\ <<e2>> \in Seq(Node) /\ ToSet(<<e1>>) = {e1} /\ ToSet(<<e2>>) = {e2}
  BY <1>2, ToSetOne
<1>5. PICK p, q : /\ p \in Seq(Node) /\ q \in Seq(Node)
                  /\ tour = p \o <<e1>> \o q
                  /\ Before(tour, e1) = p /\ Behind(tour, e1) = q
  <2>1. \E p, q \in Seq(Node) :
           /\ tour = p \o <<e1>> \o q
           /\ Before(tour, e1) = p /\ From(tour, e1) = <<e1>> \o q /\ Behind(tour, e1) = q
    BY ONLY <1>2, <1>3, SplitAt, Zenon
  <2> QED
    BY <2>1
<1>6. p \o <<e1>> \in Seq(Node)
  BY <1>4, <1>5, Joined
<1>7. /\ IsInjective(p) /\ IsInjective(q) /\ IsInjective(p \o <<e1>>)
      /\ ToSet(tour) = ToSet(p) \cup {e1} \cup ToSet(q)
  <2>1. IsInjective((p \o <<e1>>) \o q) /\ ToSet((p \o <<e1>>) \o q) = ToSet(tour)
    BY <1>3, <1>5
  <2>2. /\ IsInjective(p \o <<e1>>) /\ IsInjective(q)
        /\ ToSet((p \o <<e1>>) \o q) = ToSet(p \o <<e1>>) \cup ToSet(q)
    BY ONLY <1>5, <1>6, <2>1, InjectiveJoined, ToSetJoined
  <2>3. IsInjective(p) /\ ToSet(p \o <<e1>>) = ToSet(p) \cup ToSet(<<e1>>)
    BY ONLY <1>4, <1>5, <2>2, InjectiveJoined, ToSetJoined
  <2> QED
    BY <1>4, <2>1, <2>2, <2>3
<1>8. (\E i \in DOMAIN q : q[i] = e2) <=> e2 \in ToSet(q)
  BY DEF ToSet
<1>9. CASE e2 \in ToSet(q)
  <2>1. PICK Q, R : /\ Q \in Seq(Node) /\ R \in Seq(Node)
                    /\ q = Q \o <<e2>> \o R
                    /\ Before(q, e2) = Q /\ Behind(q, e2) = R
    <3>1. \E s, t \in Seq(Node) :
             /\ q = s \o <<e2>> \o t
             /\ Before(q, e2) = s /\ From(q, e2) = <<e2>> \o t /\ Behind(q, e2) = t
      <4>1. q \in Seq(Node) /\ IsInjective(q)
        BY <1>5, <1>7
      <4> QED
        BY ONLY <4>1, <1>9, SplitAt, Zenon
    <3> QED
      BY <3>1
  <2>2. f = [end |-> v, inner |-> Before(q, e2), outer |-> p \o Behind(q, e2)]
    BY <1>1, <1>5, <1>8, <1>9 DEF Fragments
  <2>3. f.end = v /\ f.inner = Q /\ f.outer = p \o R
    BY <2>1, <2>2
  <2>4. Q \o <<e2>> \o R = Q \o (<<e2>> \o R)
    BY ONLY <1>4, <2>1, Associative
  <2>5. tour = (p \o <<e1>>) \o (Q \o (<<e2>> \o R))
    BY <1>5, <2>1, <2>4
  <2>6. Parted(tour, p, Q, R, e1, e2)
    BY <1>2, <1>5, <2>1, <2>5 DEF Parted
  <2> QED
    BY <1>1, <2>3, <2>6
<1>10. CASE e2 \notin ToSet(q)
  <2>0. e2 \in ToSet(p)
    BY <1>2, <1>7, <1>10
  <2>1. PICK P, Q : /\ P \in Seq(Node) /\ Q \in Seq(Node)
                    /\ p = P \o <<e2>> \o Q
                    /\ Before(p, e2) = P /\ Behind(p, e2) = Q
    <3>1. \E s, t \in Seq(Node) :
             /\ p = s \o <<e2>> \o t
             /\ Before(p, e2) = s /\ From(p, e2) = <<e2>> \o t /\ Behind(p, e2) = t
      <4>1. p \in Seq(Node) /\ IsInjective(p)
        BY <1>5, <1>7
      <4> QED
        BY ONLY <4>1, <2>0, SplitAt, Zenon
    <3> QED
      BY <3>1
  <2>2. f = [end |-> u, inner |-> Behind(p, e2), outer |-> Before(p, e2) \o q]
    BY <1>1, <1>5, <1>8, <1>10 DEF Fragments
  <2>3. f.end = u /\ f.inner = Q /\ f.outer = P \o q
    BY <2>1, <2>2
  <2>4. tour = (P \o <<e2>>) \o (Q \o (<<e1>> \o q))
    <3>1. PICK A : A = P \o <<e2>> /\ A \in Seq(Node)
      BY <1>4, <2>1, Joined
    <3>2. tour = ((A \o Q) \o <<e1>>) \o q
      BY <1>5, <2>1, <3>1
    <3>3. A \o Q \in Seq(Node) /\ <<e1>> \o q \in Seq(Node)
      BY <1>4, <1>5, <2>1, <3>1, Joined
    <3>4. PICK B, C : B = <<e1>> \o q /\ C = A \o Q
      OBVIOUS
    <3>5. B \in Seq(Node) /\ C \in Seq(Node) /\ <<e1>> \in Seq(Node) /\ q \in Seq(Node)
      BY ONLY <1>4, <1>5, <3>3, <3>4
    <3>6. (C \o <<e1>>) \o q = C \o (<<e1>> \o q)
      BY ONLY <3>5, Associative
    <3>7. Q \in Seq(Node) /\ A \in Seq(Node)
      BY ONLY <2>1, <3>1
    <3>8. (A \o Q) \o B = A \o (Q \o B)
      BY ONLY <3>5, <3>7, Associative
    <3> QED
      BY ONLY <3>1, <3>2, <3>4, <3>6, <3>8
  <2>5. Parted(tour, P, Q, q, e2, e1)
    BY <1>2, <1>5, <2>1, <2>4 DEF Parted
  <2> QED
    BY <1>1, <2>3, <2>5
<1> QED
  BY <1>9, <1>10

\* The parts are tours again: the inner one with a new sentinel.
LEMMA CutTour ==
  ASSUME NEW tour, IsTour(tour), NEW P, NEW Q, NEW R, NEW x, NEW y,
         Parted(tour, P, Q, R, x, y)
  PROVE  /\ IsTour(P \o R)
         /\ IsTour(Append(Q, <<y[1], NoVertex>>))
         /\ ToSet(tour) = ToSet(P \o R) \cup ToSet(Q) \cup {x, y}
         /\ x \notin ToSet(P \o R) \cup ToSet(Q) /\ y \notin ToSet(P \o R) \cup ToSet(Q)
         /\ ToSet(Append(Q, <<y[1], NoVertex>>)) = ToSet(Q) \cup {<<y[1], NoVertex>>}
         /\ \A z \in ToSet(Q) : z[2] \in Vertex
         /\ x[1] \in Owners(ToSet(P \o R))
<1>1. /\ P \in Seq(Node) /\ Q \in Seq(Node) /\ R \in Seq(Node)
      /\ x \in Node /\ y \in Node
      /\ x[2] \in Vertex /\ y[1] = x[2] /\ y[2] = x[1]
      /\ tour = (P \o <<x>>) \o (Q \o (<<y>> \o R))
  BY DEF Parted
<1>2. PICK out, back, T1, T2, T3 :
        /\ out = <<x>> /\ back = <<y>>
        /\ T1 = P \o out /\ T3 = back \o R /\ T2 = Q \o T3 /\ tour = T1 \o T2
  BY <1>1
<1>3. /\ out \in Seq(Node) /\ back \in Seq(Node) /\ ToSet(out) = {x} /\ ToSet(back) = {y}
      /\ T1 \in Seq(Node) /\ T2 \in Seq(Node) /\ T3 \in Seq(Node)
  BY <1>1, <1>2, ToSetOne, Joined
<1>4. PICK r \in Vertex : Walk(tour, r, NoVertex) /\ <<r, NoVertex>> \in ToSet(tour)
  BY DEF IsTour
<1>5. PICK a \in Vertex, b \in Vertex : a = x[1] /\ b = x[2] /\ b = y[1] /\ a = y[2]
  BY <1>1, NodeIs
<1>6. Walk(P, r, a) /\ Walk(Q, b, b) /\ Walk(R, a, NoVertex)
  <2>1. PICK c : Walk(T1, r, c) /\ Walk(T2, c, NoVertex)
    BY <1>2, <1>3, <1>4, WalkParted
  <2>2. PICK d : Walk(P, r, d) /\ Walk(out, d, c)
    BY <1>1, <1>2, <1>3, <2>1, WalkParted
  <2>3. PICK g : Walk(Q, c, g) /\ Walk(T3, g, NoVertex)
    BY <1>1, <1>2, <1>3, <2>1, WalkParted
  <2>4. PICK h : Walk(back, g, h) /\ Walk(R, h, NoVertex)
    BY <1>1, <1>2, <1>3, <2>3, WalkParted
  <2>5. d = a /\ c = b
    BY <1>2, <1>5, <2>2, WalkOne
  <2>6. g = b /\ h = a
    BY <1>2, <1>5, <2>4, WalkOne
  <2> QED
    BY <2>2, <2>3, <2>4, <2>5, <2>6
<1>7. /\ ToSet(tour) = ToSet(P) \cup {x} \cup ToSet(Q) \cup {y} \cup ToSet(R)
      /\ IsInjective(P) /\ IsInjective(Q) /\ IsInjective(R)
      /\ ToSet(P) \cap ToSet(R) = {}
      /\ x \notin ToSet(P) \cup ToSet(Q) \cup ToSet(R)
      /\ y \notin ToSet(P) \cup ToSet(Q) \cup ToSet(R)
  <2>1. IsInjective(T1 \o T2)
    BY <1>2 DEF IsTour
  <2>2. /\ IsInjective(T1) /\ IsInjective(T2) /\ ToSet(T1) \cap ToSet(T2) = {}
        /\ ToSet(T1 \o T2) = ToSet(T1) \cup ToSet(T2)
    BY ONLY <1>3, <2>1, InjectiveJoined, ToSetJoined
  <2>3. IsInjective(P \o out) /\ IsInjective(Q \o T3)
    BY <1>2, <2>2
  <2>4. /\ IsInjective(P) /\ ToSet(P) \cap ToSet(out) = {}
        /\ ToSet(P \o out) = ToSet(P) \cup ToSet(out)
    BY ONLY <1>1, <1>3, <2>3, InjectiveJoined, ToSetJoined
  <2>5. /\ IsInjective(Q) /\ IsInjective(T3) /\ ToSet(Q) \cap ToSet(T3) = {}
        /\ ToSet(Q \o T3) = ToSet(Q) \cup ToSet(T3)
    BY ONLY <1>1, <1>3, <2>3, InjectiveJoined, ToSetJoined
  <2>6. IsInjective(back \o R)
    BY <1>2, <2>5
  <2>7. /\ IsInjective(R) /\ ToSet(back) \cap ToSet(R) = {}
        /\ ToSet(back \o R) = ToSet(back) \cup ToSet(R)
    BY ONLY <1>1, <1>3, <2>6, InjectiveJoined, ToSetJoined
  <2>8. /\ ToSet(T1) = ToSet(P) \cup {x} /\ ToSet(T2) = ToSet(Q) \cup {y} \cup ToSet(R)
        /\ ToSet(tour) = ToSet(T1) \cup ToSet(T2)
    BY <1>2, <1>3, <2>2, <2>4, <2>5, <2>7
  <2>9. ToSet(P) \cap ToSet(R) = {}
    BY <2>2, <2>8
  <2>10. x \notin ToSet(P) /\ x \notin ToSet(Q) /\ x \notin ToSet(R)
    BY <1>3, <2>2, <2>4, <2>8
  <2>11. y \notin ToSet(P) /\ y \notin ToSet(Q) /\ y \notin ToSet(R)
    BY <1>2, <1>3, <2>2, <2>5, <2>7, <2>8
  <2> QED
    BY <2>4, <2>5, <2>7, <2>8, <2>9, <2>10, <2>11
<1>8. (\A z \in ToSet(P) : z[2] \in Vertex) /\ (\A z \in ToSet(Q) : z[2] \in Vertex)
  BY <1>1, <1>5, <1>6, NoSentinel
<1>9. <<r, NoVertex>> \in ToSet(R)
  <2>1. <<r, NoVertex>>[2] \notin Vertex
    BY NoVertexAssumption
  <2> QED
    BY <1>4, <1>5, <1>7, <1>8, <2>1
<1>10. /\ P \o R \in Seq(Node) /\ Walk(P \o R, r, NoVertex) /\ IsInjective(P \o R)
       /\ ToSet(P \o R) = ToSet(P) \cup ToSet(R)
  BY <1>1, <1>6, <1>7, Extended
<1>11. IsTour(P \o R)
  BY <1>9, <1>10 DEF IsTour
<1>12. PICK z : z = <<b, NoVertex>> /\ z \in Node /\ z[1] = b /\ z[2] = NoVertex
  <2>1. <<b, NoVertex>> \in Node /\ <<b, NoVertex>>[1] = b /\ <<b, NoVertex>>[2] = NoVertex
    BY DEF Node, Key
  <2> QED
    BY <2>1, Zenon
<1>13. /\ <<z>> \in Seq(Node) /\ ToSet(<<z>>) = {z} /\ IsInjective(<<z>>)
       /\ Walk(<<z>>, b, NoVertex) /\ ToSet(Q) \cap ToSet(<<z>>) = {}
  <2>1. z \notin ToSet(Q)
    BY <1>8, <1>12, NoVertexAssumption
  <2> QED
    BY <1>12, <2>1, ToSetOne, WalkOne
<1>14. /\ Q \o <<z>> \in Seq(Node) /\ Walk(Q \o <<z>>, b, NoVertex) /\ IsInjective(Q \o <<z>>)
       /\ ToSet(Q \o <<z>>) = ToSet(Q) \cup {z}
  <2>1. /\ Q \in Seq(Node) /\ <<z>> \in Seq(Node) /\ Walk(Q, b, b) /\ Walk(<<z>>, b, NoVertex)
        /\ IsInjective(Q) /\ IsInjective(<<z>>) /\ ToSet(Q) \cap ToSet(<<z>>) = {}
    BY <1>1, <1>6, <1>7, <1>13
  <2>2. /\ Q \o <<z>> \in Seq(Node) /\ Walk(Q \o <<z>>, b, NoVertex) /\ IsInjective(Q \o <<z>>)
        /\ ToSet(Q \o <<z>>) = ToSet(Q) \cup ToSet(<<z>>)
    BY ONLY <2>1, Extended
  <2> QED
    BY <1>13, <2>2
<1>15. Append(Q, <<y[1], NoVertex>>) = Q \o <<z>>
  <2>1. Append(Q, z) = Q \o <<z>>
    BY ONLY <1>1
  <2>2. z = <<y[1], NoVertex>>
    BY <1>5, <1>12
  <2> QED
    BY <2>1, <2>2
<1>16. IsTour(Append(Q, <<y[1], NoVertex>>))
  BY <1>12, <1>14, <1>15 DEF IsTour
<1>17. x[1] \in Owners(ToSet(P \o R))
  <2>1. PICK n \in Nat : n = Len(R) /\ DOMAIN R = 1 .. n
    BY <1>1
  <2>2. n # 0
    BY <1>9, <2>1 DEF ToSet
  <2>3. 1 \in 1 .. n /\ R[1] \in ToSet(R) /\ R[1][1] = a
    BY <1>6, <2>1, <2>2 DEF Walk, ToSet
  <2> QED
    BY <1>5, <1>10, <2>3 DEF Owners
<1> QED
  BY <1>5, <1>7, <1>8, <1>10, <1>11, <1>12, <1>14, <1>15, <1>16, <1>17

\* The tours ts2 are ts without the edge between a and b.
Without(ts, a, b, ts2) ==
  /\ Good(ts2)
  /\ All(ts2) = (All(ts) \ {<<a, b>>, <<b, a>>}) \cup {<<b, NoVertex>>}
  /\ {a, b} \in ForestOf(All(ts))
  /\ ForestOf(All(ts2)) = ForestOf(All(ts)) \ {{a, b}}

\* ts2 are the tours ts with tour cut in two.
CutIn(ts, tour, P, Q, R, a, b, ts2) ==
  /\ Good(ts) /\ tour \in ts /\ a \in Vertex /\ b \in Vertex
  /\ Parted(tour, P, Q, R, <<a, b>>, <<b, a>>)
  /\ ts2 = (ts \ {tour}) \cup {P \o R, Append(Q, <<b, NoVertex>>)}

\* What cutting a tour does to the nodes and to the forest.
LEMMA CutGood ==
  ASSUME NEW ts, NEW tour, NEW P, NEW Q, NEW R, NEW a, NEW b, NEW ts2,
         CutIn(ts, tour, P, Q, R, a, b, ts2)
  PROVE  Without(ts, a, b, ts2)
<1> USE DEF CutIn, Without
<1> DEFINE N == All(ts)
           N2 == All(ts2)
           F == ForestOf(N)
           G == F \ {{a, b}}
<1>1. /\ \A t \in ts : IsTour(t)
      /\ Apart(ts) /\ Paired(N) /\ Acyclic(F) /\ Vertex \subseteq Owners(N)
  BY DEF Good
<1>2. N \subseteq Node /\ Owners(N) = Vertex /\ F \in SUBSET Edge /\ G \in SUBSET Edge
  BY <1>1, NodesOfTours DEF ForestOf
<1>3. \A s, t \in ts : s # t => Owners(ToSet(s)) \cap Owners(ToSet(t)) = {}
  BY <1>1 DEF Apart, Owners
<1>4. PICK x, y, outer, inner, z :
        /\ x = <<a, b>> /\ y = <<b, a>> /\ z = <<b, NoVertex>>
        /\ outer = P \o R /\ inner = Append(Q, z)
  OBVIOUS
<1>5. y[1] = b /\ x[1] = a /\ z[1] = b /\ z[2] = NoVertex
  BY <1>4
<1>6. /\ IsTour(outer) /\ IsTour(inner)
      /\ ToSet(tour) = ToSet(outer) \cup ToSet(Q) \cup {x, y}
      /\ x \notin ToSet(outer) \cup ToSet(Q) /\ y \notin ToSet(outer) \cup ToSet(Q)
      /\ ToSet(inner) = ToSet(Q) \cup {z}
      /\ \A n \in ToSet(Q) : n[2] \in Vertex
      /\ a \in Owners(ToSet(outer))
  <2>1. Parted(tour, P, Q, R, x, y) /\ IsTour(tour)
    BY <1>1, <1>4
  <2>2. /\ IsTour(P \o R)
        /\ IsTour(Append(Q, <<y[1], NoVertex>>))
        /\ ToSet(tour) = ToSet(P \o R) \cup ToSet(Q) \cup {x, y}
        /\ x \notin ToSet(P \o R) \cup ToSet(Q) /\ y \notin ToSet(P \o R) \cup ToSet(Q)
        /\ ToSet(Append(Q, <<y[1], NoVertex>>)) = ToSet(Q) \cup {<<y[1], NoVertex>>}
        /\ \A n \in ToSet(Q) : n[2] \in Vertex
        /\ x[1] \in Owners(ToSet(P \o R))
    BY ONLY <2>1, CutTour
  <2>3. inner = Append(Q, <<y[1], NoVertex>>) /\ z = <<y[1], NoVertex>>
    BY <1>4, <1>5
  <2> QED
    BY <1>4, <1>5, <2>2, <2>3
<1>7. x \in N /\ y \in N /\ a # b /\ {a, b} \in F
  <2>1. x \in N /\ y \in N
    BY <1>6 DEF All
  <2>2. a # b
    BY <1>1, <1>4, <2>1 DEF Paired
  <2> QED
    BY <1>1, <1>4, <2>1, <2>2, ForestEdge
<1>8. b \in Owners(ToSet(inner)) /\ b \in Owners(ToSet(tour))
  BY <1>5, <1>6 DEF Owners
<1>9. \A n \in ToSet(outer) \cup ToSet(inner) : n[2] \in Vertex => {n[1], n[2]} \in G
  <2> SUFFICES ASSUME NEW n \in ToSet(outer) \cup ToSet(inner), n[2] \in Vertex
               PROVE  {n[1], n[2]} \in G
    OBVIOUS
  <2>1. n # z /\ n # x /\ n # y /\ n \in N
    BY <1>4, <1>5, <1>6, NoVertexAssumption DEF All
  <2>2. n = <<n[1], n[2]>> /\ n[1] \in Vertex
    BY <1>2, <2>1, NodeIs
  <2>3. {n[1], n[2]} \in F
    BY <1>1, <2>1, <2>2, ForestEdge
  <2>4. {n[1], n[2]} # {a, b}
    <3>1. ~(n[1] = a /\ n[2] = b) /\ ~(n[1] = b /\ n[2] = a)
      BY <1>4, <2>1, <2>2
    <3> QED
      BY <1>7, <3>1
  <2> QED
    BY <2>3, <2>4
<1>10. /\ Owners(ToSet(outer)) \subseteq Component(G, a)
       /\ Owners(ToSet(inner)) \subseteq Component(G, b)
  <2> HIDE DEF G
  <2>1. Owners(ToSet(outer)) \subseteq Component(G, a)
    BY <1>2, <1>6, <1>9, TourConnected
  <2>2. Owners(ToSet(inner)) \subseteq Component(G, b)
    BY <1>2, <1>6, <1>8, <1>9, TourConnected
  <2> QED
    BY <2>1, <2>2
<1>11. Owners(ToSet(outer)) \cap Owners(ToSet(inner)) = {}
  <2> SUFFICES ASSUME NEW w \in Owners(ToSet(outer)), w \in Owners(ToSet(inner)) PROVE FALSE
    OBVIOUS
  <2>1. ~Joins(G, {a, b})
    BY <1>1, <1>7, CutSeparates
  <2> HIDE DEF G
  <2>2. w \in Component(G, a) /\ w \in Component(G, b)
    BY <1>10
  <2>3. Component(G, a) = Component(G, b)
    BY <1>2, <2>2, ComponentEqual
  <2>4. Connected(G, a, b)
    BY <2>3, ComponentSelf DEF Connected
  <2> QED
    BY <1>2, <2>1, <2>4, JoinsPair
<1>12. /\ Owners(ToSet(outer)) \subseteq Owners(ToSet(tour))
       /\ Owners(ToSet(inner)) \subseteq Owners(ToSet(tour))
  <2>1. \A n \in ToSet(inner) : n[1] \in Owners(ToSet(tour))
    BY <1>5, <1>6, <1>8 DEF Owners
  <2> QED
    BY <1>6, <2>1 DEF Owners
<1>13. N2 = (N \ {x, y}) \cup {z}
  <2>1. ASSUME NEW n \in N2
        PROVE  n \in (N \ {x, y}) \cup {z}
    <3>1. PICK t \in ts2 : n \in ToSet(t)
      BY DEF All
    <3>2. CASE t = outer \/ t = inner
      BY <1>6, <3>1, <3>2 DEF All
    <3>3. CASE t \in ts /\ t # tour
      <4>1. n \in N /\ n[1] \in Owners(ToSet(t))
        BY <3>1, <3>3 DEF All, Owners
      <4>2. x[1] \in Owners(ToSet(tour)) /\ y[1] \in Owners(ToSet(tour))
        BY <1>6 DEF Owners
      <4>3. n # x /\ n # y
        BY <1>3, <3>3, <4>1, <4>2
      <4> QED
        BY <4>1, <4>3
    <3> QED
      BY <1>4, <3>1, <3>2, <3>3
  <2>2. ASSUME NEW n \in N, n # x, n # y
        PROVE  n \in N2
    <3>1. PICK t \in ts : n \in ToSet(t)
      BY DEF All
    <3>2. CASE t = tour
      <4>1. n \in ToSet(outer) \/ n \in ToSet(inner)
        BY <1>6, <2>2, <3>1, <3>2
      <4> QED
        BY <1>4, <4>1 DEF All
    <3>3. CASE t # tour
      BY <3>1, <3>3 DEF All
    <3> QED
      BY <3>2, <3>3
  <2>3. z \in N2
    <3>1. inner \in ts2 /\ z \in ToSet(inner)
      BY <1>4, <1>6
    <3> QED
      BY <3>1 DEF All
  <2> QED
    BY <2>1, <2>2, <2>3
<1>14. \A c, d \in Vertex : <<c, d>> \in N2 <=> <<c, d>> \in N /\ {c, d} # {a, b}
  <2>1. \A c, d \in Vertex : <<c, d>> # z
    BY <1>4, NoVertexAssumption
  <2>2. \A c, d : {c, d} = {a, b} <=> <<c, d>> = x \/ <<c, d>> = y
    BY <1>4, <1>7
  <2> QED
    BY <1>13, <2>1, <2>2
<1>15. Paired(N2)
  <2> SUFFICES ASSUME NEW c \in Vertex, NEW d \in Vertex, <<c, d>> \in N2
               PROVE  c # d /\ <<d, c>> \in N2
    BY DEF Paired
  <2>1. <<c, d>> \in N /\ {c, d} # {a, b} /\ {c, d} = {d, c}
    BY <1>14
  <2>2. c # d /\ <<d, c>> \in N
    BY <1>1, <2>1 DEF Paired
  <2> QED
    BY <1>14, <2>1, <2>2
<1>16. ForestOf(N2) = G
  <2>1. ASSUME NEW e \in Edge
        PROVE  e \in ForestOf(N2) <=> e \in F /\ e # {a, b}
    <3>1. PICK c \in Vertex, d \in Vertex : c # d /\ e = {c, d}
      BY EdgeEnds
    <3>2. e \in F <=> <<c, d>> \in N /\ <<d, c>> \in N
      BY <3>1 DEF ForestOf
    <3>3. e \in ForestOf(N2) <=> <<c, d>> \in N2 /\ <<d, c>> \in N2
      BY <3>1 DEF ForestOf
    <3>4. /\ <<c, d>> \in N2 <=> <<c, d>> \in N /\ e # {a, b}
          /\ <<d, c>> \in N2 <=> <<d, c>> \in N /\ e # {a, b}
      <4>1. e = {c, d} /\ e = {d, c}
        BY <3>1
      <4> QED
        BY ONLY <1>14, <3>1, <4>1
    <3> QED
      BY <3>2, <3>3, <3>4
  <2>2. ForestOf(N2) \subseteq Edge
    BY DEF ForestOf
  <2> QED
    BY <1>2, <2>1, <2>2
<1>17. Acyclic(ForestOf(N2))
  BY <1>1, <1>16, AcyclicSubset
<1>18. Vertex \subseteq Owners(N2)
  <2> SUFFICES ASSUME NEW w \in Vertex PROVE w \in Owners(N2)
    OBVIOUS
  <2>1. PICK n \in N : n[1] = w
    BY <1>1 DEF Owners
  <2>2. CASE n = x
    <3>1. w \in Owners(ToSet(outer)) /\ outer \in ts2
      BY <1>4, <1>5, <1>6, <2>1, <2>2
    <3> QED
      BY <3>1 DEF Owners, All
  <2>3. CASE n = y
    BY <1>5, <1>13, <2>1, <2>3 DEF Owners
  <2>4. CASE n # x /\ n # y
    BY <1>13, <2>1, <2>4 DEF Owners
  <2> QED
    BY <2>2, <2>3, <2>4
<1>19. Apart(ts2)
  <2>1. \A t \in ts2 : (t \in ts /\ t # tour) \/ t = outer \/ t = inner
    BY <1>4
  <2>2. \A s, t \in ts2 : s # t => Owners(ToSet(s)) \cap Owners(ToSet(t)) = {}
    <3> SUFFICES ASSUME NEW s \in ts2, NEW t \in ts2, s # t
                 PROVE  Owners(ToSet(s)) \cap Owners(ToSet(t)) = {}
      OBVIOUS
    <3>1. ASSUME NEW t1 \in ts, t1 # tour, NEW t2 \in {outer, inner}
          PROVE  Owners(ToSet(t1)) \cap Owners(ToSet(t2)) = {}
      BY <1>3, <1>12, <3>1
    <3>2. CASE s \in ts /\ s # tour /\ t \in ts /\ t # tour
      BY <1>3, <3>2
    <3>3. CASE s \in {outer, inner} /\ t \in {outer, inner}
      BY <1>11, <3>3
    <3>4. (s \in ts /\ s # tour) \/ s \in {outer, inner}
      BY <2>1
    <3>5. (t \in ts /\ t # tour) \/ t \in {outer, inner}
      BY <2>1
    <3> QED
      BY <3>1, <3>2, <3>3, <3>4, <3>5
  <2>3. ASSUME NEW s \in ts2, NEW t \in ts2, NEW m \in ToSet(s), NEW n \in ToSet(t), m[1] = n[1]
        PROVE  s = t
    <3>1. m[1] \in Owners(ToSet(s)) /\ n[1] \in Owners(ToSet(t))
      BY DEF Owners
    <3> QED
      BY <2>2, <2>3, <3>1
  <2> QED
    BY <2>3 DEF Apart
<1>20. \A t \in ts2 : IsTour(t)
  BY <1>1, <1>4, <1>6
<1> QED
  BY <1>4, <1>7, <1>13, <1>15, <1>16, <1>17, <1>18, <1>19, <1>20 DEF Good

-----------------------------------------------------------------------------
(* The maps of the vertices and their sketches.                            *)

NodesType ==
  [edges : [Vertex -> SUBSET Key], caller : [Vertex -> Key],
   sketch : [Vertex -> SUBSET Vertex], temp : SUBSET Vertex]

\* The maps hold the nodes N.  A vertex with a node has a caller and its own
\* sketch; what is in temp_sketch are the sketches of the vertices without.
Kept(n, N) ==
  /\ n \in NodesType
  /\ \A v \in Vertex : n.edges[v] = {w \in Key : <<v, w>> \in N}
  /\ \A v \in Vertex : n.edges[v] # {} => n.caller[v] \in n.edges[v]
  /\ \A v \in Vertex : n.sketch[v] = IF n.edges[v] = {} THEN {} ELSE {v}
  /\ n.temp = {v \in Vertex : n.edges[v] = {}}

\* Kept, of a record whose maps are known by another name.
LEMMA KeptIs ==
  ASSUME NEW n, NEW N, NEW held, n \in NodesType, n.edges = held,
         \A v \in Vertex : \A w : w \in held[v] <=> w \in Key /\ <<v, w>> \in N,
         \A v \in Vertex : held[v] # {} => n.caller[v] \in held[v],
         \A v \in Vertex : held[v] = {} => n.sketch[v] = {},
         \A v \in Vertex : held[v] # {} => n.sketch[v] = {v},
         \A v : v \in n.temp <=> v \in Vertex /\ held[v] = {}
  PROVE  Kept(n, N)
BY DEF Kept

\* delete_edge takes a node from the maps, and a vertex's sketch to another
\* of its nodes or to temp_sketch.
LEMMA DeleteKept ==
  ASSUME NEW n, NEW N, Kept(n, N), NEW v \in Vertex, NEW w \in Key, <<v, w>> \in N,
         NEW m \in DeleteEdge(n, v, w)
  PROVE  Kept(m, N \ {<<v, w>>})
<1> DEFINE left == n.edges[v] \ {w}
           deleted == [n EXCEPT !.edges[v] = left]
<1>1. /\ n \in NodesType
      /\ n.edges[v] = {k \in Key : <<v, k>> \in N} /\ w \in n.edges[v]
      /\ n.caller[v] \in n.edges[v] /\ n.sketch[v] = {v} /\ v \notin n.temp
  BY DEF Kept
<1>2. \A k \in Vertex : \A l \in Key :
        <<k, l>> \in N \ {<<v, w>>} <=> <<k, l>> \in N /\ ~(k = v /\ l = w)
  OBVIOUS
<1>3. /\ deleted \in NodesType
      /\ deleted.edges = [n.edges EXCEPT ![v] = left]
      /\ deleted.caller = n.caller /\ deleted.sketch = n.sketch /\ deleted.temp = n.temp
  BY <1>1 DEF NodesType
<1>4. \A k \in Vertex : deleted.edges[k] = {l \in Key : <<k, l>> \in N \ {<<v, w>>}}
  <2> SUFFICES ASSUME NEW k \in Vertex
               PROVE  deleted.edges[k] = {l \in Key : <<k, l>> \in N \ {<<v, w>>}}
    OBVIOUS
  <2>1. n.edges[k] = {l \in Key : <<k, l>> \in N}
    BY DEF Kept
  <2>2. deleted.edges[k] = IF k = v THEN left ELSE n.edges[k]
    BY <1>1, <1>3 DEF NodesType
  <2> HIDE DEF deleted
  <2> QED
    BY <1>1, <1>2, <2>1, <2>2
<1>5. CASE n.caller[v] # w
  <2>1. m = deleted /\ left # {}
    BY <1>1, <1>5 DEF DeleteEdge
  <2>2. \A k \in Vertex : deleted.edges[k] = {} <=> n.edges[k] = {}
    BY <1>1, <1>3, <2>1 DEF NodesType
  <2>3. \A k \in Vertex : deleted.edges[k] # {} => deleted.caller[k] \in deleted.edges[k]
    BY <1>1, <1>3, <1>5 DEF NodesType, Kept
  <2> HIDE DEF deleted
  <2> QED
    BY <1>3, <1>4, <2>1, <2>2, <2>3 DEF Kept
<1>6. CASE n.caller[v] = w /\ left # {}
  <2>1. PICK next \in left : m = [deleted EXCEPT !.caller[v] = next]
    BY <1>6 DEF DeleteEdge
  <2>2. /\ m \in NodesType /\ m.edges = deleted.edges /\ m.sketch = n.sketch /\ m.temp = n.temp
        /\ m.caller = [n.caller EXCEPT ![v] = next]
    BY <1>1, <1>3, <2>1 DEF NodesType
  <2>3. \A l \in Vertex : deleted.edges[l] = {} <=> n.edges[l] = {}
    BY <1>1, <1>3, <1>6 DEF NodesType
  <2>4. \A l \in Vertex : deleted.edges[l] # {} => m.caller[l] \in deleted.edges[l]
    BY <1>1, <1>3, <2>2 DEF NodesType, Kept
  <2>5. \A l \in Vertex : m.sketch[l] = IF deleted.edges[l] = {} THEN {} ELSE {l}
    BY <2>2, <2>3 DEF Kept
  <2>6. m.temp = {l \in Vertex : deleted.edges[l] = {}}
    BY <2>2, <2>3 DEF Kept
  <2> HIDE DEF deleted
  <2>20. PICK held, N2 : held = deleted.edges /\ N2 = N \ {<<v, w>>}
    OBVIOUS
  <2>21. /\ m \in NodesType /\ m.edges = held
         /\ \A k \in Vertex : \A l : l \in held[k] <=> l \in Key /\ <<k, l>> \in N2
         /\ \A k \in Vertex : held[k] # {} => m.caller[k] \in held[k]
         /\ \A k \in Vertex : held[k] = {} => m.sketch[k] = {}
         /\ \A k \in Vertex : held[k] # {} => m.sketch[k] = {k}
         /\ \A k : k \in m.temp <=> k \in Vertex /\ held[k] = {}
    BY <1>4, <2>2, <2>4, <2>5, <2>6, <2>20
  <2>22. Kept(m, N2)
    BY ONLY <2>21, KeptIs
  <2> QED
    BY <2>20, <2>22
<1>7. CASE n.caller[v] = w /\ left = {}
  <2>1. m = [deleted EXCEPT !.temp = Merge(n.temp, {v}), !.sketch[v] = {}]
    BY <1>1, <1>3, <1>7 DEF DeleteEdge
  <2>2. Merge(n.temp, {v}) = n.temp \cup {v}
    BY <1>1 DEF Merge
  <2>3. /\ m \in NodesType /\ m.edges = deleted.edges /\ m.caller = n.caller
        /\ m.sketch = [n.sketch EXCEPT ![v] = {}] /\ m.temp = n.temp \cup {v}
    BY <1>1, <1>3, <2>1, <2>2 DEF NodesType
  <2>4. \A l \in Vertex : deleted.edges[l] = {} <=> n.edges[l] = {} \/ l = v
    BY <1>1, <1>3, <1>7 DEF NodesType
  <2>5. \A l \in Vertex : deleted.edges[l] # {} => m.caller[l] \in deleted.edges[l]
    BY <1>1, <1>3, <1>7, <2>3 DEF NodesType, Kept
  <2>6. \A l \in Vertex : m.sketch[l] = IF deleted.edges[l] = {} THEN {} ELSE {l}
    BY <1>1, <2>3, <2>4 DEF NodesType, Kept
  <2>7. m.temp = {l \in Vertex : deleted.edges[l] = {}}
    BY <2>3, <2>4 DEF Kept
  <2> HIDE DEF deleted
  <2> QED
    BY <1>4, <2>3, <2>5, <2>6, <2>7 DEF Kept
<1> QED
  BY <1>5, <1>6, <1>7

\* make_edge adds a node to the maps, and the first of a vertex finds the
\* vertex's sketch in temp_sketch if no other vertex's is there.
LEMMA MakeKept ==
  ASSUME NEW n, NEW N, Kept(n, N), NEW v \in Vertex, NEW w \in Key,
         n.edges[v] = {} => n.temp \subseteq {v}
  PROVE  Kept(MakeEdge(n, v, w), N \cup {<<v, w>>})
<1> DEFINE made == [n EXCEPT !.edges[v] = n.edges[v] \cup {w}]
<1>1. n \in NodesType
  BY DEF Kept
<1>2. /\ made \in NodesType
      /\ made.edges = [n.edges EXCEPT ![v] = n.edges[v] \cup {w}]
      /\ made.caller = n.caller /\ made.sketch = n.sketch /\ made.temp = n.temp
  BY <1>1 DEF NodesType
<1>3. \A k \in Vertex : made.edges[k] = {l \in Key : <<k, l>> \in N \cup {<<v, w>>}}
  <2> SUFFICES ASSUME NEW k \in Vertex
               PROVE  made.edges[k] = {l \in Key : <<k, l>> \in N \cup {<<v, w>>}}
    OBVIOUS
  <2>1. n.edges[k] = {l \in Key : <<k, l>> \in N}
    BY DEF Kept
  <2>2. made.edges[k] = IF k = v THEN n.edges[k] \cup {w} ELSE n.edges[k]
    BY <1>1, <1>2 DEF NodesType
  <2> HIDE DEF made
  <2> QED
    BY <2>1, <2>2
<1>4. PICK m : m = MakeEdge(n, v, w)
  OBVIOUS
<1>5. CASE n.edges[v] # {}
  <2>1. m = made
    BY <1>1, <1>4, <1>5 DEF MakeEdge, NodesType
  <2>2. \A k \in Vertex : made.edges[k] = {} <=> n.edges[k] = {}
    BY <1>1, <1>2, <1>5 DEF NodesType
  <2>3. \A k \in Vertex : made.edges[k] # {} => made.caller[k] \in made.edges[k]
    BY <1>1, <1>2, <1>5 DEF NodesType, Kept
  <2>4. \A k \in Vertex : made.sketch[k] = IF made.edges[k] = {} THEN {} ELSE {k}
    BY <1>2, <2>2 DEF Kept
  <2>5. made.temp = {k \in Vertex : made.edges[k] = {}}
    BY <1>2, <2>2 DEF Kept
  <2>6. /\ m \in NodesType /\ m.edges = made.edges /\ m.caller = made.caller
        /\ m.sketch = made.sketch /\ m.temp = made.temp
    BY <1>2, <2>1
  <2> HIDE DEF made
  <2>20. PICK held, N2 : held = made.edges /\ N2 = N \cup {<<v, w>>}
    OBVIOUS
  <2>21. /\ m \in NodesType /\ m.edges = held
         /\ \A k \in Vertex : \A l : l \in held[k] <=> l \in Key /\ <<k, l>> \in N2
         /\ \A k \in Vertex : held[k] # {} => m.caller[k] \in held[k]
         /\ \A k \in Vertex : held[k] = {} => m.sketch[k] = {}
         /\ \A k \in Vertex : held[k] # {} => m.sketch[k] = {k}
         /\ \A k : k \in m.temp <=> k \in Vertex /\ held[k] = {}
    BY <1>3, <2>3, <2>4, <2>5, <2>6, <2>20
  <2>22. Kept(m, N2)
    BY ONLY <2>21, KeptIs
  <2> QED
    BY <2>20, <2>22, <1>4
<1>6. CASE n.edges[v] = {}
  <2>1. m = [made EXCEPT !.caller[v] = w, !.sketch[v] = n.temp, !.temp = {}]
    BY <1>1, <1>4, <1>6 DEF MakeEdge, NodesType
  <2>2. n.temp = {v}
    BY <1>6 DEF Kept
  <2> HIDE DEF made
  <2>3. /\ m.edges = made.edges /\ m.temp = {}
        /\ m.caller = [n.caller EXCEPT ![v] = w] /\ m.sketch = [n.sketch EXCEPT ![v] = {v}]
    BY <1>2, <2>1, <2>2 DEF NodesType
  <2>4. m \in NodesType
    <3>1. /\ made.edges \in [Vertex -> SUBSET Key]
          /\ [made.caller EXCEPT ![v] = w] \in [Vertex -> Key]
          /\ [made.sketch EXCEPT ![v] = n.temp] \in [Vertex -> SUBSET Vertex]
      BY <1>1, <1>2 DEF NodesType
    <3>2. m = [edges |-> made.edges, caller |-> [made.caller EXCEPT ![v] = w],
               sketch |-> [made.sketch EXCEPT ![v] = n.temp], temp |-> {}]
      BY <1>2, <2>1 DEF NodesType
    <3> QED
      BY <3>1, <3>2 DEF NodesType
  <2>5. \A k \in Vertex : k # v => n.edges[k] # {}
    BY <2>2 DEF Kept
  <2>6. \A k \in Vertex : made.edges[k] = IF k = v THEN {w} ELSE n.edges[k]
    BY <1>1, <1>2, <1>6 DEF NodesType
  <2>7. \A k \in Vertex : made.edges[k] # {}
    BY <2>5, <2>6
  <2>8. \A k \in Vertex : m.caller[k] \in made.edges[k]
    <3>1. \A k \in Vertex : m.caller[k] = IF k = v THEN w ELSE n.caller[k]
      BY <1>1, <2>3 DEF NodesType
    <3>2. \A k \in Vertex : k # v => n.caller[k] \in n.edges[k]
      BY <2>5 DEF Kept
    <3> QED
      BY <2>6, <3>1, <3>2
  <2>9. \A k \in Vertex : m.sketch[k] = {k}
    <3>1. \A k \in Vertex : m.sketch[k] = IF k = v THEN {v} ELSE n.sketch[k]
      BY <1>1, <2>3 DEF NodesType
    <3>2. \A k \in Vertex : k # v => n.sketch[k] = {k}
      BY <2>5 DEF Kept
    <3> QED
      BY <3>1, <3>2
  <2>10. \A k \in Vertex : m.sketch[k] = IF made.edges[k] = {} THEN {} ELSE {k}
    BY <2>7, <2>9
  <2>11. m.temp = {k \in Vertex : made.edges[k] = {}}
    BY <2>3, <2>7
  <2>20. PICK held, N2 : held = made.edges /\ N2 = N \cup {<<v, w>>}
    OBVIOUS
  <2>21. /\ m \in NodesType /\ m.edges = held
         /\ \A k \in Vertex : \A l : l \in held[k] <=> l \in Key /\ <<k, l>> \in N2
         /\ \A k \in Vertex : held[k] # {} => m.caller[k] \in held[k]
         /\ \A k \in Vertex : held[k] = {} => m.sketch[k] = {}
         /\ \A k \in Vertex : held[k] # {} => m.sketch[k] = {k}
         /\ \A k : k \in m.temp <=> k \in Vertex /\ held[k] = {}
    BY <1>3, <2>3, <2>4, <2>8, <2>10, <2>11, <2>20
  <2>22. Kept(m, N2)
    BY ONLY <2>21, KeptIs
  <2> QED
    BY <2>20, <2>22, <1>4
<1> QED
  BY <1>5, <1>6

\* What the maps tell of the nodes.
LEMMA KeptTells ==
  ASSUME NEW n, NEW N, Kept(n, N)
  PROVE  /\ \A k \in Vertex : \A l : l \in n.edges[k] <=> l \in Key /\ <<k, l>> \in N
         /\ \A k \in Vertex : n.edges[k] = {} <=> \A l \in Key : <<k, l>> \notin N
         /\ \A k : k \in n.temp <=> k \in Vertex /\ \A l \in Key : <<k, l>> \notin N
<1>1. \A k \in Vertex : \A l : l \in n.edges[k] <=> l \in Key /\ <<k, l>> \in N
  BY DEF Kept
<1>2. \A k \in Vertex : n.edges[k] = {} <=> \A l \in Key : <<k, l>> \notin N
  BY <1>1
<1>3. \A k : k \in n.temp <=> k \in Vertex /\ n.edges[k] = {}
  BY DEF Kept
<1> QED
  BY <1>1, <1>2, <1>3

-----------------------------------------------------------------------------
(* The invariant and the steps.                                            *)

\* The lists are tours of the trees of a forest and the maps hold their nodes.
IInv == Good(tours) /\ Kept(nodes, All(tours))

\* The list of a vertex.
LEMMA TourOfIs ==
  ASSUME Good(tours), NEW v \in Vertex
  PROVE  TourOf(v) \in tours /\ v \in Owners(ToSet(TourOf(v))) /\ IsTour(TourOf(v))
<1>1. PICK x \in All(tours) : x[1] = v
  BY DEF Good, Owners
<1>2. PICK tour \in tours : x \in ToSet(tour)
  BY DEF All
<1>3. \A t : v \in Owners(ToSet(t)) <=> \E i \in DOMAIN t : t[i][1] = v
  BY DEF Owners, ToSet
<1>4. \E t \in tours : \E i \in DOMAIN t : t[i][1] = v
  BY <1>1, <1>2 DEF ToSet
<1>5. TourOf(v) \in tours /\ \E i \in DOMAIN TourOf(v) : TourOf(v)[i][1] = v
  BY <1>4 DEF TourOf
<1> QED
  BY <1>3, <1>5 DEF Good

\* Initially each vertex has a tour of its sentinel only, and there is no edge.
LEMMA InitHolds == Init => IInv /\ ForestOf(All(tours)) = {}
<1> SUFFICES ASSUME Init PROVE IInv /\ ForestOf(All(tours)) = {}
  OBVIOUS
<1> DEFINE one(v) == << <<v, NoVertex>> >>
<1>1. \A v \in Vertex : /\ <<v, NoVertex>> \in Node
                        /\ one(v) \in Seq(Node) /\ ToSet(one(v)) = {<<v, NoVertex>>}
                        /\ IsInjective(one(v))
  <2>1. \A v \in Vertex : <<v, NoVertex>> \in Node
    BY DEF Node, Key
  <2> QED
    BY <2>1, ToSetOne
<1>2. \A v \in Vertex : IsTour(one(v))
  <2> SUFFICES ASSUME NEW v \in Vertex PROVE IsTour(one(v))
    OBVIOUS
  <2>1. Walk(one(v), v, NoVertex)
    BY DEF Walk
  <2> HIDE DEF one
  <2> QED
    BY <1>1, <2>1 DEF IsTour
<1>3. tours = {one(v) : v \in Vertex}
  BY DEF Init
<1> HIDE DEF one
<1>4. All(tours) = {<<v, NoVertex>> : v \in Vertex}
  <2>1. ASSUME NEW x \in All(tours) PROVE \E v \in Vertex : x = <<v, NoVertex>>
    <3>1. PICK t \in tours : x \in ToSet(t)
      BY DEF All
    <3>2. PICK v \in Vertex : t = one(v)
      BY <1>3
    <3> QED
      BY <1>1, <3>1, <3>2
  <2>2. ASSUME NEW v \in Vertex PROVE <<v, NoVertex>> \in All(tours)
    <3>1. one(v) \in tours /\ <<v, NoVertex>> \in ToSet(one(v))
      BY <1>1, <1>3
    <3> QED
      BY <3>1 DEF All
  <2> QED
    BY <2>1, <2>2
<1>5. \A t \in tours : IsTour(t)
  BY <1>2, <1>3
<1>6. Apart(tours)
  <2> SUFFICES ASSUME NEW s \in tours, NEW t \in tours, NEW x \in ToSet(s), NEW y \in ToSet(t),
                      x[1] = y[1]
               PROVE  s = t
    BY DEF Apart
  <2>1. PICK v, w \in Vertex : s = one(v) /\ t = one(w)
    BY <1>3
  <2>2. x = <<v, NoVertex>> /\ y = <<w, NoVertex>>
    BY <1>1, <2>1
  <2> QED
    BY <2>1, <2>2
<1>7. \A c, d \in Vertex : <<c, d>> \notin All(tours)
  BY <1>4, NoVertexAssumption
<1>8. ForestOf(All(tours)) = {}
  <2> SUFFICES ASSUME NEW e \in Edge, e \in ForestOf(All(tours)) PROVE FALSE
    BY DEF ForestOf
  <2>1. PICK c \in Vertex, d \in Vertex : c # d /\ e = {c, d}
    BY EdgeEnds
  <2>2. <<c, d>> \in All(tours)
    BY <2>1 DEF ForestOf
  <2> QED
    BY <1>7, <2>2
<1>9. Vertex \subseteq Owners(All(tours))
  <2> SUFFICES ASSUME NEW v \in Vertex PROVE v \in Owners(All(tours))
    OBVIOUS
  <2>1. <<v, NoVertex>> \in All(tours) /\ <<v, NoVertex>>[1] = v
    BY <1>4
  <2> QED
    BY <2>1 DEF Owners
<1>10. Good(tours)
  BY <1>5, <1>6, <1>7, <1>8, <1>9 DEF Good, Paired, Acyclic
<1>11. Kept(nodes, All(tours))
  <2>1. /\ nodes.edges = [v \in Vertex |-> {NoVertex}]
        /\ nodes.caller = [v \in Vertex |-> NoVertex]
        /\ nodes.sketch = [v \in Vertex |-> {v}]
        /\ nodes.temp = {}
    BY DEF Init
  <2>2. nodes \in NodesType
    BY DEF Init, NodesType, Key
  <2>3. \A v \in Vertex : nodes.edges[v] = {w \in Key : <<v, w>> \in All(tours)}
    BY <1>4, <2>1 DEF Key
  <2>4. \A v \in Vertex : nodes.edges[v] = {NoVertex}
    BY <2>1
  <2>5. \A v \in Vertex : nodes.edges[v] # {}
    BY <2>4
  <2>6. \A v \in Vertex : nodes.caller[v] \in nodes.edges[v]
    BY <2>1, <2>4
  <2>7. \A v \in Vertex : nodes.sketch[v] = IF nodes.edges[v] = {} THEN {} ELSE {v}
    BY <2>1, <2>5
  <2>8. nodes.temp = {v \in Vertex : nodes.edges[v] = {}}
    BY <2>1, <2>5
  <2> QED
    BY <2>2, <2>3, <2>6, <2>7, <2>8 DEF Kept
<1> QED
  BY <1>8, <1>10, <1>11 DEF IInv

\* link makes one tour of two, adds the edge between two trees and gives it
\* its two nodes; the sentinel it deletes leaves at most one vertex without a
\* node, and only until that vertex has its end of the edge.
LEMMA LinkStep ==
  ASSUME IInv, NEW u \in Vertex, NEW v \in Vertex, u # v, Link(u, v)
  PROVE  /\ IInv'
         /\ {u, v} \in Edge /\ ~Joins(ForestOf(All(tours)), {u, v})
         /\ ForestOf(All(tours)') = ForestOf(All(tours)) \cup {{u, v}}
<1>1. Good(tours) /\ Kept(nodes, All(tours)) /\ Apart(tours)
  BY DEF IInv, Good
<1>2. PICK this, that : this = TourOf(u) /\ that = TourOf(v)
  OBVIOUS
<1>3. /\ this \in tours /\ u \in Owners(ToSet(this)) /\ IsTour(this)
      /\ that \in tours /\ v \in Owners(ToSet(that)) /\ IsTour(that)
  BY <1>1, <1>2, TourOfIs
<1>4. this # that
  BY <1>2 DEF Link
<1>5. PICK r \in Vertex, s \in Seq(Node) :
        /\ Last(that) = <<r, NoVertex>> /\ Front(that) = s
        /\ ToSet(that) = ToSet(s) \cup {<<r, NoVertex>>}
  BY <1>3, TourEnds
<1>6. PICK deleted \in DeleteEdge(nodes, r, NoVertex), x \in nodes.edges[u] :
        \E y \in IF s = <<>> THEN {NoVertex} ELSE deleted.edges[v] :
          /\ tours' = (tours \ {this, that}) \cup {Linked(this, s, u, x, v, y)}
          /\ nodes' = MakeEdge(MakeEdge(deleted, u, v), v, u)
  BY <1>2, <1>5 DEF Link
<1>7. PICK y \in IF s = <<>> THEN {NoVertex} ELSE deleted.edges[v] :
          /\ tours' = (tours \ {this, that}) \cup {Linked(this, s, u, x, v, y)}
          /\ nodes' = MakeEdge(MakeEdge(deleted, u, v), v, u)
  BY <1>6
<1>8. PICK N, N0 : N = All(tours) /\ N0 = N \ {<<r, NoVertex>>}
  OBVIOUS
<1>9. NoVertex \in Key /\ Vertex \subseteq Key /\ <<r, NoVertex>> \in N
  BY <1>3, <1>5, <1>8 DEF Key, All
<1>10. Kept(deleted, N0)
  <2>1. Kept(nodes, N) /\ deleted \in DeleteEdge(nodes, r, NoVertex)
    BY <1>1, <1>8
  <2>2. Kept(deleted, N \ {<<r, NoVertex>>})
    BY ONLY <1>9, <2>1, DeleteKept, r \in Vertex
  <2> QED
    BY <1>8, <2>2
<1>11. Owners(ToSet(this)) \cap Owners(ToSet(that)) = {}
  BY <1>1, <1>3, <1>4 DEF Apart, Owners
<1>12. x \in Key /\ <<u, x>> \in ToSet(this) /\ <<u, x>> \in N0
  <2>1. x \in Key /\ <<u, x>> \in N
    BY <1>1, <1>8, KeptTells
  <2>2. <<u, x>> \in ToSet(this)
    <3>1. <<u, x>> \in All(tours) /\ <<u, x>>[1] \in Owners(ToSet(this))
      BY <1>3, <1>8, <2>1
    <3> QED
      BY <1>1, <1>3, <3>1, InOneTour
  <2>3. u # r
    <3>1. PICK z : z = <<r, NoVertex>>
      OBVIOUS
    <3>2. z \in ToSet(that) /\ z[1] = r
      BY <1>5, <3>1
    <3>3. r \in Owners(ToSet(that))
      BY <3>2 DEF Owners
    <3> QED
      BY <1>3, <1>11, <3>3
  <2> QED
    BY <1>8, <2>1, <2>2, <2>3
<1>13. y \in Key /\ (s = <<>> \/ <<v, y>> \in ToSet(s))
  <2>1. CASE s = <<>>
    BY <1>9, <2>1
  <2>2. CASE s # <<>>
    <3>1. y \in Key /\ <<v, y>> \in N0
      BY <1>10, <2>2, KeptTells
    <3>2. <<v, y>> \in All(tours) /\ <<v, y>>[1] \in Owners(ToSet(that)) /\ <<v, y>> # <<r, NoVertex>>
      BY <1>3, <1>8, <3>1
    <3>3. <<v, y>> \in ToSet(that)
      BY <1>1, <1>3, <3>2, InOneTour
    <3> QED
      BY <1>5, <3>1, <3>2, <3>3
  <2> QED
    BY <2>1, <2>2
<1>14. PICK new : new = Linked(this, Front(that), u, x, v, y)
  OBVIOUS
<1>15. tours' = (tours \ {this, that}) \cup {new}
  BY <1>5, <1>7, <1>14
<1>16. /\ IsTour(new)
       /\ ToSet(new) = ToSet(this) \cup (ToSet(that) \ {Last(that)}) \cup {<<u, v>>, <<v, u>>}
       /\ Owners(ToSet(new)) = Owners(ToSet(this)) \cup Owners(ToSet(that))
  <2>1. Linking(this, that, u, v, x, y, new)
    BY <1>3, <1>5, <1>11, <1>12, <1>13, <1>14 DEF Linking
  <2> QED
    BY ONLY <2>1, LinkedIs
<1>17. PICK ts, ts2 : ts = tours /\ ts2 = tours'
  OBVIOUS
<1>18. /\ Good(ts2)
       /\ All(ts2) = (All(ts) \ {Last(that)}) \cup {<<u, v>>, <<v, u>>}
       /\ {u, v} \in Edge
       /\ ForestOf(All(ts2)) = ForestOf(All(ts)) \cup {{u, v}}
       /\ ~Joins(ForestOf(All(ts)), {u, v})
  <2>1. /\ Good(ts) /\ this \in ts /\ that \in ts /\ ts2 = (ts \ {this, that}) \cup {new}
        /\ u \in Owners(ToSet(this)) /\ v \in Owners(ToSet(that))
    BY <1>1, <1>3, <1>15, <1>17
  <2>2. LinkedIn(ts, this, that, u, v, new, ts2)
    BY <1>4, <1>16, <2>1 DEF LinkedIn
  <2> QED
    BY ONLY <2>2, LinkGood
<1>19. \A k \in Vertex : k # r => \E l \in Key : <<k, l>> \in N0
  <2> SUFFICES ASSUME NEW k \in Vertex, k # r PROVE \E l \in Key : <<k, l>> \in N0
    OBVIOUS
  <2>1. PICK z \in All(tours) : z[1] = k
    BY <1>1 DEF Good, Owners
  <2>2. z \in Node
    BY <1>1, NodesOfTours DEF Good
  <2>3. z = <<k, z[2]>> /\ z[2] \in Key
    BY <2>1, <2>2 DEF Node
  <2> QED
    BY <1>8, <2>1, <2>3
<1>20. PICK n1, N1 : n1 = MakeEdge(deleted, u, v) /\ N1 = N0 \cup {<<u, v>>}
  OBVIOUS
<1>21. Kept(n1, N1)
  <2>1. deleted.edges[u] # {}
    BY <1>10, <1>12, KeptTells
  <2>2. Kept(MakeEdge(deleted, u, v), N0 \cup {<<u, v>>})
    <3>1. v \in Key
      BY <1>9
    <3> QED
      BY ONLY <1>10, <2>1, <3>1, MakeKept, u \in Vertex
  <2> QED
    BY <1>20, <2>2
<1>22. n1.edges[v] = {} => n1.temp \subseteq {v}
  <2> SUFFICES ASSUME n1.edges[v] = {}, NEW k \in n1.temp PROVE k = v
    OBVIOUS
  <2>1. \A l \in Key : <<v, l>> \notin N1
    BY <1>21, KeptTells
  <2>2. k \in Vertex /\ \A l \in Key : <<k, l>> \notin N1
    BY <1>21, KeptTells
  <2>3. v = r
    BY <1>19, <1>20, <2>1
  <2>4. k = r
    BY <1>19, <1>20, <2>2
  <2> QED
    BY <2>3, <2>4
<1>23. Kept(nodes', All(ts2))
  <2>1. u \in Key
    BY <1>9
  <2>2. Kept(MakeEdge(n1, v, u), N1 \cup {<<v, u>>})
    BY ONLY <1>21, <1>22, <2>1, MakeKept, v \in Vertex
  <2>3. N1 \cup {<<v, u>>} = All(ts2)
    BY <1>5, <1>8, <1>17, <1>18, <1>20
  <2> QED
    BY <1>7, <1>20, <2>2, <2>3
<1> QED
  BY <1>17, <1>18, <1>23 DEF IInv

\* cut makes two tours of one, takes the edge from the forest, and leaves at
\* most the vertex that then gets a sentinel without a node.
LEMMA CutStep ==
  ASSUME IInv, NEW u \in Vertex, NEW v \in Vertex, u # v, Cut(u, v)
  PROVE  /\ IInv'
         /\ {u, v} \in ForestOf(All(tours))
         /\ ForestOf(All(tours)') = ForestOf(All(tours)) \ {{u, v}}
<1>1. Good(tours) /\ Kept(nodes, All(tours)) /\ Apart(tours) /\ Paired(All(tours))
  BY DEF IInv, Good
<1>2. PICK ts, ts2, N, tour : ts = tours /\ ts2 = tours' /\ N = All(tours) /\ tour = TourOf(u)
  OBVIOUS
<1>3. tour \in ts /\ u \in Owners(ToSet(tour)) /\ IsTour(tour)
  BY <1>1, <1>2, TourOfIs
<1>4. <<u, v>> \in N /\ <<v, u>> \in N
  <2>1. v \in nodes.edges[u]
    BY DEF Cut
  <2>2. <<u, v>> \in N
    BY <1>1, <1>2, <2>1, KeptTells
  <2> QED
    BY <1>1, <1>2, <2>2 DEF Paired
<1>5. <<u, v>> \in ToSet(tour)
  <2>1. Apart(ts) /\ <<u, v>> \in All(ts) /\ <<u, v>>[1] \in Owners(ToSet(tour))
    BY <1>1, <1>2, <1>3, <1>4
  <2> QED
    BY <1>3, <2>1, InOneTour
<1>6. <<v, u>> \in ToSet(tour)
  <2>1. PICK z : z = <<u, v>>
    OBVIOUS
  <2>2. z \in ToSet(tour) /\ z[2] = v /\ z[2] \in Vertex
    BY <1>5, <2>1
  <2>3. v \in Owners(ToSet(tour))
    BY <1>3, <2>2, LeadsOn
  <2>4. Apart(ts) /\ <<v, u>> \in All(ts) /\ <<v, u>>[1] \in Owners(ToSet(tour))
    BY <1>1, <1>2, <1>4, <2>3
  <2> QED
    BY <1>3, <2>4, InOneTour
<1>7. PICK f : f = Fragments(tour, u, v)
  OBVIOUS
<1>8. PICK a, b, P, Q, R :
        /\ (a = u /\ b = v) \/ (a = v /\ b = u)
        /\ Parted(tour, P, Q, R, <<a, b>>, <<b, a>>)
        /\ f.end = b /\ f.inner = Q /\ f.outer = P \o R
  <2>1. BothWays(tour, u, v, f)
    BY <1>3, <1>5, <1>6, <1>7 DEF BothWays
  <2>2. Parts(tour, u, v, f)
    BY ONLY <2>1, FragmentsAre
  <2> QED
    BY <2>2 DEF Parts
<1>9. a \in Vertex /\ b \in Vertex /\ {a, b} = {u, v}
  BY <1>8
<1>10. ts2 = (ts \ {tour}) \cup {P \o R, Append(Q, <<b, NoVertex>>)}
  BY <1>2, <1>7, <1>8 DEF Cut
<1>11. /\ Good(ts2)
       /\ All(ts2) = (All(ts) \ {<<a, b>>, <<b, a>>}) \cup {<<b, NoVertex>>}
       /\ {a, b} \in ForestOf(All(ts))
       /\ ForestOf(All(ts2)) = ForestOf(All(ts)) \ {{a, b}}
  <2>1. Good(ts)
    BY <1>1, <1>2
  <2>2. CutIn(ts, tour, P, Q, R, a, b, ts2)
    BY <1>3, <1>8, <1>9, <1>10, <2>1 DEF CutIn
  <2>3. Without(ts, a, b, ts2)
    BY ONLY <2>2, CutGood
  <2> QED
    BY <2>3 DEF Without
<1>12. PICK n, m : /\ n \in DeleteEdge(nodes, u, v) /\ m \in DeleteEdge(n, v, u)
                   /\ nodes' = MakeEdge(m, b, NoVertex)
  BY <1>2, <1>7, <1>8 DEF Cut
<1>13. PICK N1, N2 : N1 = N \ {<<u, v>>} /\ N2 = N1 \ {<<v, u>>}
  OBVIOUS
<1>14. Vertex \subseteq Key /\ NoVertex \in Key
  BY DEF Key
<1>15. Kept(n, N1)
  <2>1. Kept(nodes, N) /\ v \in Key /\ n \in DeleteEdge(nodes, u, v)
    BY <1>1, <1>2, <1>12, <1>14
  <2>2. Kept(n, N \ {<<u, v>>})
    BY ONLY <1>4, <2>1, DeleteKept, u \in Vertex
  <2> QED
    BY <1>13, <2>2
<1>16. Kept(m, N2)
  <2>1. u \in Key /\ m \in DeleteEdge(n, v, u) /\ <<v, u>> \in N1
    BY <1>4, <1>12, <1>13, <1>14
  <2>2. Kept(m, N1 \ {<<v, u>>})
    BY ONLY <1>15, <2>1, DeleteKept, v \in Vertex
  <2> QED
    BY <1>13, <2>2
<1>17. All(ts2) = N2 \cup {<<b, NoVertex>>}
  BY <1>2, <1>8, <1>11, <1>13
<1>18. m.temp \subseteq {b}
  <2> SUFFICES ASSUME NEW k \in m.temp, k # b PROVE FALSE
    OBVIOUS
  <2>1. k \in Vertex /\ \A l \in Key : <<k, l>> \notin N2
    BY <1>16, KeptTells
  <2>2. PICK z \in All(ts2) : z[1] = k
    BY <1>11, <2>1 DEF Good, Owners
  <2>3. z \in Node
    BY <1>11, NodesOfTours DEF Good
  <2>4. z = <<k, z[2]>> /\ z[2] \in Key
    BY <2>2, <2>3 DEF Node
  <2>5. z # <<b, NoVertex>>
    BY <2>2
  <2> QED
    BY <1>17, <2>1, <2>2, <2>4, <2>5
<1>19. Kept(nodes', All(ts2))
  <2>1. Kept(MakeEdge(m, b, NoVertex), N2 \cup {<<b, NoVertex>>})
    BY ONLY <1>9, <1>14, <1>16, <1>18, MakeKept
  <2> QED
    BY <1>12, <1>17, <2>1
<1> QED
  BY <1>2, <1>9, <1>11, <1>19 DEF IInv

-----------------------------------------------------------------------------
(* Theorems.                                                               *)

\* The invariant is inductive.
LEMMA StepHolds == IInv /\ [Next]_vars => IInv'
<1>1. ASSUME IInv, Next PROVE IInv'
  <2>1. PICK u \in Vertex, v \in Vertex : u # v /\ (Link(u, v) \/ Cut(u, v))
    BY <1>1 DEF Next
  <2>2. CASE Link(u, v)
    BY <1>1, <2>1, <2>2, LinkStep
  <2>3. CASE Cut(u, v)
    BY <1>1, <2>1, <2>3, CutStep
  <2> QED
    BY <2>1, <2>2, <2>3
<1>2. ASSUME IInv, UNCHANGED vars PROVE IInv'
  BY <1>2 DEF IInv, vars
<1> QED
  BY <1>1, <1>2

\* The invariant always holds.
LEMMA Invariant == Spec => []IInv
BY InitHolds, StepHolds, PTL DEF Spec

\* Every vertex has a node, so nothing is left in temp_sketch.
LEMMA AllHaveNodes ==
  ASSUME IInv
  PROVE  \A v \in Vertex : nodes.edges[v] # {}
<1>1. Good(tours) /\ Kept(nodes, All(tours))
  BY DEF IInv
<1> SUFFICES ASSUME NEW v \in Vertex PROVE nodes.edges[v] # {}
  OBVIOUS
<1>2. PICK z \in All(tours) : z[1] = v
  BY <1>1 DEF Good, Owners
<1>3. z \in Node
  BY <1>1, NodesOfTours DEF Good
<1>4. z = <<v, z[2]>> /\ z[2] \in Key
  BY <1>2, <1>3 DEF Node
<1> QED
  BY <1>1, <1>2, <1>4, KeptTells

\* By the invariant the lists are tours, with a node in the maps for each of theirs.
LEMMA AreTours == IInv => ToursAreTours
<1> SUFFICES ASSUME IInv PROVE ToursAreTours
  OBVIOUS
<1>1. Good(tours) /\ Kept(nodes, All(tours))
  BY DEF IInv
<1>2. ASSUME NEW tour \in tours
      PROVE  /\ \A i \in 1 .. Len(tour) - 1 : tour[i][2] = tour[i + 1][1]
             /\ Last(tour) = <<tour[1][1], NoVertex>>
             /\ IsInjective(tour)
  <2>1. IsTour(tour)
    BY <1>1 DEF Good
  <2>2. PICK r \in Vertex : /\ Last(tour) = <<r, NoVertex>> /\ tour[1][1] = r
                            /\ Walk(tour, r, NoVertex) /\ Len(tour) \in Nat
    BY <2>1, TourEnds
  <2>3. ASSUME NEW i \in 1 .. Len(tour) - 1
        PROVE  tour[i][2] = tour[i + 1][1]
    <3>1. i + 1 \in 1 .. Len(tour) /\ i + 1 # 1 /\ (i + 1) - 1 = i
      BY <2>2
    <3> QED
      BY <2>2, <3>1 DEF Walk
  <2> QED
    BY <2>1, <2>2, <2>3 DEF IsTour
<1>3. ASSUME NEW v \in Vertex
      PROVE  /\ nodes.edges[v] = {w \in Key : \E tour \in tours : <<v, w>> \in ToSet(tour)}
             /\ nodes.caller[v] \in nodes.edges[v]
  <2>1. \A w : <<v, w>> \in All(tours) <=> \E tour \in tours : <<v, w>> \in ToSet(tour)
    BY DEF All
  <2>2. \A w : w \in nodes.edges[v] <=> w \in Key /\ <<v, w>> \in All(tours)
    BY <1>1, KeptTells
  <2>3. nodes.caller[v] \in nodes.edges[v]
    BY <1>1, AllHaveNodes DEF Kept
  <2> QED
    BY <2>1, <2>2, <2>3
<1> QED
  BY <1>2, <1>3 DEF ToursAreTours

\* By the invariant the sketches are where they belong.
LEMMA SketchesAre == IInv => SketchesStay
<1> SUFFICES ASSUME IInv PROVE SketchesStay
  OBVIOUS
<1>1. Kept(nodes, All(tours)) /\ \A v \in Vertex : nodes.edges[v] # {}
  BY AllHaveNodes DEF IInv
<1>2. nodes.temp = {}
  BY <1>1 DEF Kept
<1>3. \A v \in Vertex : nodes.sketch[v] = {v}
  BY <1>1 DEF Kept
<1>4. nodes.sketch \in [Vertex -> SUBSET Vertex]
  BY <1>1 DEF Kept, NodesType
<1>5. nodes.sketch = [v \in Vertex |-> {v}]
  BY <1>3, <1>4
<1> QED
  BY <1>2, <1>5 DEF SketchesStay

\* For any vertices and however trees are linked and cut, every list of
\* EulerTourNode is an Euler tour, and the vertices' maps hold its nodes.
THEOREM ToursAreToursAlways == Spec => []ToursAreTours
BY Invariant, AreTours, PTL

\* Through every hand-off of delete_edge and make_edge a vertex's sketch stays
\* with the vertex, and temp_sketch is empty between calls.
THEOREM SketchesStayAlways == Spec => []SketchesStay
BY Invariant, SketchesAre, PTL

-----------------------------------------------------------------------------
(* The tours implement a dynamic forest.                                   *)

\* The graph theory of the instance is this module's.
LEMMA SamePromise ==
  /\ Promise!Edge = Edge
  /\ \A F : Promise!Trees(F) = Blocks(F, Vertex)
  /\ \A F, e : Promise!Joins(F, e) = Joins(F, e)
<1>1. \A F, v : Promise!Component(F, v) = Component(F, v)
  BY DEF Promise!Component, Component, Promise!Closed, Closed
<1>2. \A F : Promise!Trees(F) = Blocks(F, Vertex)
  BY <1>1 DEF Promise!Trees, Promise!Blocks, Blocks
<1>3. \A F, e : Promise!Joins(F, e) = Joins(F, e)
  BY <1>1 DEF Promise!Joins, Joins, Promise!Connected, Connected
<1> QED
  BY <1>2, <1>3 DEF Promise!Edge, Edge

\* The forest is the one of the nodes, and a list holds one of its components.
LEMMA ForestAndTrees ==
  ASSUME IInv
  PROVE  /\ ForestOfTours = ForestOf(All(tours))
         /\ TreesOfTours = Blocks(ForestOf(All(tours)), Vertex)
<1>1. Good(tours) /\ Kept(nodes, All(tours)) /\ \A t \in tours : IsTour(t)
  BY DEF IInv, Good
<1>2. ForestOfTours = ForestOf(All(tours))
  <2>1. \A u, v \in Vertex : v \in nodes.edges[u] <=> <<u, v>> \in All(tours)
    BY <1>1, KeptTells DEF Key
  <2>2. \A e \in Edge : e \subseteq Vertex
    BY DEF Edge
  <2> QED
    BY <2>1, <2>2 DEF ForestOfTours, ForestOf
<1>3. PICK F : F = ForestOf(All(tours))
  OBVIOUS
<1>4. \A t : {t[i][1] : i \in DOMAIN t} = Owners(ToSet(t))
  BY DEF Owners, ToSet
<1>5. ASSUME NEW v \in Vertex, NEW t \in tours, v \in Owners(ToSet(t))
      PROVE  Component(F, v) \cap Vertex = {t[i][1] : i \in DOMAIN t}
  <2>1. Component(F, v) = Owners(ToSet(t))
    BY <1>1, <1>3, <1>5, TourIsTree
  <2>2. Component(F, v) \subseteq Vertex
    BY DEF Component
  <2> QED
    BY <1>4, <2>1, <2>2
<1>6. ASSUME NEW t \in tours
      PROVE  {t[i][1] : i \in DOMAIN t} \in Blocks(F, Vertex)
  <2>1. PICK r \in Vertex : <<r, NoVertex>> \in ToSet(t)
    BY <1>1 DEF IsTour
  <2>2. r \in Owners(ToSet(t))
    <3>1. PICK z : z = <<r, NoVertex>>
      OBVIOUS
    <3> QED
      BY <2>1, <3>1 DEF Owners
  <2> QED
    BY <1>5, <2>2 DEF Blocks
<1>7. ASSUME NEW v \in Vertex
      PROVE  Component(F, v) \cap Vertex \in TreesOfTours
  <2>1. PICK t : t = TourOf(v)
    OBVIOUS
  <2>2. t \in tours /\ v \in Owners(ToSet(t))
    BY <1>1, <2>1, TourOfIs
  <2> QED
    BY <1>5, <2>2 DEF TreesOfTours
<1>8. TreesOfTours = Blocks(F, Vertex)
  BY <1>6, <1>7 DEF TreesOfTours, Blocks
<1> QED
  BY <1>2, <1>3, <1>8

\* The same as an implication.
LEMMA Mapped ==
  IInv => /\ ForestOfTours = ForestOf(All(tours))
          /\ TreesOfTours = Blocks(ForestOf(All(tours)), Vertex)
BY ForestAndTrees

\* link and cut are the abstract forest's.
LEMMA StepMaps == IInv /\ [Next]_vars => [Promise!Next]_(Promise!vars)
<1>1. ASSUME IInv, Next PROVE Promise!Next
  <2>1. PICK u \in Vertex, v \in Vertex : u # v /\ (Link(u, v) \/ Cut(u, v))
    BY <1>1 DEF Next
  <2>2. IInv'
    BY <1>1, StepHolds
  <2>3. /\ ForestOfTours = ForestOf(All(tours))
        /\ TreesOfTours = Blocks(ForestOf(All(tours)), Vertex)
    BY <1>1, ForestAndTrees
  <2>4. /\ (ForestOfTours = ForestOf(All(tours)))'
        /\ (TreesOfTours = Blocks(ForestOf(All(tours)), Vertex))'
    BY <2>2, Mapped, PTL
  <2>5. /\ ForestOfTours' = ForestOf(All(tours)')
        /\ TreesOfTours' = Blocks(ForestOfTours', Vertex)
    BY <2>4
  <2>6. TreesOfTours' = Promise!Trees(ForestOfTours')
    BY <2>5, SamePromise
  <2>7. CASE Link(u, v)
    <3>1. /\ {u, v} \in Edge /\ ~Joins(ForestOf(All(tours)), {u, v})
          /\ ForestOf(All(tours)') = ForestOf(All(tours)) \cup {{u, v}}
      BY <1>1, <2>1, <2>7, LinkStep
    <3>2. ForestOfTours' = Promise!EttLink(ForestOfTours, {u, v})
      BY <2>3, <2>5, <3>1, SamePromise DEF Promise!EttLink
    <3>3. Promise!Link({u, v}) /\ {u, v} \in Promise!Edge
      BY <2>6, <3>1, <3>2, SamePromise DEF Promise!Link
    <3> QED
      BY <3>3 DEF Promise!Next
  <2>8. CASE Cut(u, v)
    <3>1. /\ {u, v} \in ForestOf(All(tours))
          /\ ForestOf(All(tours)') = ForestOf(All(tours)) \ {{u, v}}
      BY <1>1, <2>1, <2>8, CutStep
    <3>2. ForestOfTours' = Promise!EttCut(ForestOfTours, {u, v})
      BY <2>3, <2>5, <3>1 DEF Promise!EttCut
    <3>3. {u, v} \in Edge
      BY <3>1 DEF ForestOf
    <3>4. Promise!Cut({u, v}) /\ {u, v} \in Promise!Edge
      BY <2>6, <3>2, <3>3, SamePromise DEF Promise!Cut
    <3> QED
      BY <3>4 DEF Promise!Next
  <2> QED
    BY <2>1, <2>7, <2>8
<1>2. ASSUME UNCHANGED vars PROVE UNCHANGED Promise!vars
  BY <1>2 DEF vars, Promise!vars, ForestOfTours, TreesOfTours
<1> QED
  BY <1>1, <1>2

\* Initially the forest is empty.
LEMMA InitMaps == Init => Promise!Init
<1> SUFFICES ASSUME Init PROVE Promise!Init
  OBVIOUS
<1>1. ForestOfTours = {} /\ TreesOfTours = Blocks({}, Vertex)
  BY InitHolds, ForestAndTrees
<1> QED
  BY <1>1, SamePromise DEF Promise!Init

\* For any vertices, the Euler tours implement the forest the tiers rely on:
\* link refuses to close a cycle and adds the one edge, cut removes it, and two
\* vertices are in one list exactly when the forest connects them.
THEOREM KeepsForestAlways == Spec => KeepsForest
<1>1. Init => Promise!Init
  BY InitMaps
<1>2. IInv /\ [Next]_vars => [Promise!Next]_(Promise!vars)
  BY StepMaps
<1> QED
  BY <1>1, <1>2, Invariant, PTL DEF Spec, KeepsForest, Promise!Spec
=============================================================================
