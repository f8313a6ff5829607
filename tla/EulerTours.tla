----------------------------- MODULE EulerTours -----------------------------
(***************************************************************************)
(* The Euler tour trees, src/euler_tour_tree.cpp and its twin without      *)
(* sketches.  A tree is one skip list: the tour of its edges, both ways,   *)
(* with a sentinel at its end.  Here a list is the sequence of its bottom  *)
(* level, so that splitting and joining lists cuts and concatenates        *)
(* sequences; the levels above it are left out.                            *)
(*                                                                         *)
(* A list node belongs to a vertex and stands in the vertex's map edges    *)
(* under the vertex it leads to, NoVertex for the sentinel.  One node of   *)
(* each vertex, its allowed caller, holds the vertex's own sketch; when    *)
(* that node is deleted the sketch is handed to another or, if there is    *)
(* none, to temp_sketch, where the next node made for a vertex without a   *)
(* caller finds it.  A sketch is known here by the vertices whose edges it *)
(* is to hold; merging two is the symmetric difference.                    *)
(***************************************************************************)
EXTENDS Forests, SequencesExt

CONSTANT NoVertex

ASSUME NoVertexAssumption == NoVertex \notin Vertex

VARIABLES
  tours,   \* the lists
  nodes    \* nodes.edges[v]: the keys of v's map; nodes.caller[v]: the key of
           \* its allowed caller; nodes.sketch[v]: the sketch that one holds;
           \* nodes.temp: temp_sketch

vars == <<tours, nodes>>

Key == Vertex \cup {NoVertex}

Merge(s, t) == (s \ t) \cup (t \ s)

TourOf(v) == CHOOSE tour \in tours : \E i \in DOMAIN tour : tour[i][1] = v

-----------------------------------------------------------------------------
(* The nodes of the vertices.  Which node edges.begin() finds in the hash  *)
(* map is left open.                                                       *)

\* Slip: a new caller gets an empty sketch.
Slip_MakeEdge(n, v, w) ==
  LET made == [n EXCEPT !.edges[v] = @ \cup {w}]
  IN  IF n.edges[v] # {} THEN made
      ELSE [made EXCEPT !.caller[v] = w, !.temp = {}]

\* make_edge: the first node of a vertex is its caller and takes temp_sketch.
MakeEdge(n, v, w) ==
  LET made == [n EXCEPT !.edges[v] = @ \cup {w}]
  IN  IF n.edges[v] # {} THEN made
      ELSE [made EXCEPT !.caller[v] = w, !.sketch[v] = n.temp, !.temp = {}]

\* What delete_edge may leave.
DeleteEdge(n, v, w) ==
  LET left == n.edges[v] \ {w}
      deleted == [n EXCEPT !.edges[v] = left]
  IN  IF n.caller[v] # w THEN {deleted}
      ELSE IF left # {} THEN {[deleted EXCEPT !.caller[v] = k] : k \in left}
      ELSE {[deleted EXCEPT !.temp = Merge(@, n.sketch[v]), !.sketch[v] = {}]}

-----------------------------------------------------------------------------
Init ==
  /\ tours = {<< <<v, NoVertex>> >> : v \in Vertex}
  /\ nodes = [edges |-> [v \in Vertex |-> {NoVertex}],
              caller |-> [v \in Vertex |-> NoVertex],
              sketch |-> [v \in Vertex |-> {v}],
              temp |-> {}]

\* split_left and split_right: what is before and behind an element.
Before(tour, x) == SubSeq(tour, 1, SelectInSeq(tour, LAMBDA y : y = x) - 1)
From(tour, x) ==
  SubSeq(tour, SelectInSeq(tour, LAMBDA y : y = x), Len(tour))
Behind(tour, x) == Tail(From(tour, x))

\* Slip: the other tree is not rerooted at the edge's end.
Slip_Linked(this, other, u, x, v, y) ==
  Before(this, <<u, x>>) \o << <<u, v>> >> \o other \o << <<v, u>> >>
    \o From(this, <<u, x>>)

\* A, u to v, D, C, v to u, B, where the lists are A B and C D.
Linked(this, other, u, x, v, y) ==
  Before(this, <<u, x>>)
    \o << <<u, v>> >>
    \o (IF other = <<>> THEN <<>>
        ELSE From(other, <<v, y>>) \o Before(other, <<v, y>>))
    \o << <<v, u>> >>
    \o From(this, <<u, x>>)

\* link(): v's tree loses its sentinel and goes into u's tour.
Link(u, v) ==
  LET this == TourOf(u)
      sentinel == Last(TourOf(v))
      other == Front(TourOf(v))
  IN
  /\ this # TourOf(v)
  /\ \E deleted \in DeleteEdge(nodes, sentinel[1], NoVertex),
        x \in nodes.edges[u] :
       \E y \in IF other = <<>> THEN {NoVertex} ELSE deleted.edges[v] :
         tours' = (tours \ {this, TourOf(v)})
                    \cup {Linked(this, other, u, x, v, y)}
       /\ nodes' = MakeEdge(MakeEdge(deleted, u, v), v, u)

\* Slip: the new sentinel is always the other vertex's.
Slip_Fragments(tour, u, v) ==
  LET e1 == <<u, v>>
      e2 == <<v, u>>
      frag1l == Before(tour, e1)
      frag1r == Behind(tour, e1)
  IN  IF \E i \in DOMAIN frag1r : frag1r[i] = e2
      THEN [end |-> v, inner |-> Before(frag1r, e2),
            outer |-> frag1l \o Behind(frag1r, e2)]
      ELSE [end |-> v, inner |-> Behind(frag1l, e2),
            outer |-> Before(frag1l, e2) \o frag1r]

\* The tour without the edge: what lies between its two nodes, which gets a
\* new sentinel, and what lies around them.
Fragments(tour, u, v) ==
  LET e1 == <<u, v>>
      e2 == <<v, u>>
      frag1l == Before(tour, e1)
      frag1r == Behind(tour, e1)
  IN  IF \E i \in DOMAIN frag1r : frag1r[i] = e2
      THEN [end |-> v, inner |-> Before(frag1r, e2),
            outer |-> frag1l \o Behind(frag1r, e2)]
      ELSE [end |-> u, inner |-> Behind(frag1l, e2),
            outer |-> Before(frag1l, e2) \o frag1r]

\* cut(): both nodes of the edge are deleted before the sentinel is made.
Cut(u, v) ==
  LET f == Fragments(TourOf(u), u, v)
  IN
  /\ v \in nodes.edges[u]
  /\ tours' = (tours \ {TourOf(u)})
                \cup {f.outer, Append(f.inner, <<f.end, NoVertex>>)}
  /\ \E n \in DeleteEdge(nodes, u, v) :
       \E m \in DeleteEdge(n, v, u) : nodes' = MakeEdge(m, f.end, NoVertex)

Next == \E u, v \in Vertex : u # v /\ (Link(u, v) \/ Cut(u, v))

Spec == Init /\ [][Next]_vars

-----------------------------------------------------------------------------
(* Properties.                                                             *)

\* However trees are linked, rerooted and cut, every list is an Euler tour: it
\* leaves each vertex where it arrived, ends in its only sentinel where it
\* began, and the maps of the vertices hold exactly the nodes of the lists, a
\* caller for each vertex among them.
ToursAreTours ==
  /\ \A tour \in tours :
       /\ \A i \in 1 .. Len(tour) - 1 : tour[i][2] = tour[i + 1][1]
       /\ Last(tour) = <<tour[1][1], NoVertex>>
       /\ IsInjective(tour)
  /\ \A v \in Vertex :
       /\ nodes.edges[v] = {w \in Key : \E tour \in tours :
                              <<v, w>> \in ToSet(tour)}
       /\ nodes.caller[v] \in nodes.edges[v]

\* Whatever node of a vertex held it and through however many hand-offs and
\* temp_sketch it went, a vertex's sketch stays with the vertex: a sketch
\* merged into another vertex's, or left in temp_sketch, would be a wrong cut
\* of some tree ever after.
SketchesStay ==
  /\ nodes.sketch = [v \in Vertex |-> {v}]
  /\ nodes.temp = {}

-----------------------------------------------------------------------------
\* The edges that both ends have a node for, and the vertices on each list.
ForestOfTours ==
  {e \in Edge : \A u, v \in e : u = v \/ v \in nodes.edges[u]}
TreesOfTours ==
  {{tour[i][1] : i \in DOMAIN tour} : tour \in tours}

Promise == INSTANCE DynamicForest
             WITH forest <- ForestOfTours, trees <- TreesOfTours

\* The tours implement the forest the tiers rely on: link and cut add and
\* remove the one edge, link refuses to close a cycle, and two vertices are in
\* one list exactly when the forest connects them.
KeepsForest == Promise!Spec
=============================================================================
