------------------------------ MODULE Forests ------------------------------
(***************************************************************************)
(* The graph theory the dynamic forests of the program are about.  A graph *)
(* or a forest is its set of edges, an edge the set of its two ends.       *)
(*                                                                         *)
(* A tree of an Euler tour tree (euler_tour_tree.cpp, sketchless or not)   *)
(* or of the link-cut tree (link_cut_tree.cpp) is known to its callers by  *)
(* what it answers: the root of a vertex, whether two vertices have the    *)
(* same one, the vertices and the size of a tree, the edges of a path.     *)
(* Those answers are defined here from the edge set alone.                 *)
(*                                                                         *)
(* Connectivity is defined by closed sets and not by paths: v is connected *)
(* to u when no set closed under the edges holds u and not v.  There is no *)
(* recursion in it, so the provers can use it.                             *)
(***************************************************************************)
EXTENDS Integers, FiniteSets

CONSTANT Vertex

ASSUME VertexAssumption == IsFiniteSet(Vertex)

Edge == {e \in SUBSET Vertex : \E u, v \in e : u # v /\ e = {u, v}}

\* No edge of F leaves S.
Closed(S, F) == \A e \in F : e \subseteq S \/ e \cap S = {}

\* The vertices of the tree (of the connected component) v is in.
Component(F, v) ==
  LET closedSets == {S \in SUBSET Vertex : v \in S /\ Closed(S, F)}
  IN  {u \in Vertex : \A S \in closedSets : u \in S}

\* find_root(u) == find_root(v), get_root(u) == get_root(v)
Connected(F, u, v) == v \in Component(F, u)

\* The ends of e are in one tree of F: linking them would close a cycle.
Joins(F, e) == \A u, v \in e : Connected(F, u, v)

Acyclic(F) == \A e \in F : ~Joins(F \ {e}, e)

\* The edges of the forest F on the path between the ends of e.
PathEdges(F, e) == {c \in F : ~Joins(F \ {c}, e)}

\* The edges of G with exactly one end in C.
Boundary(G, C) == {e \in G : ~(e \subseteq C) /\ e \cap C # {}}

\* The symmetric difference a sketch update makes.
Toggle(G, e) == IF e \in G THEN G \ {e} ELSE G \cup {e}

\* How the components of F divide the vertices of Q.
Blocks(F, Q) == {Component(F, v) \cap Q : v \in Q}
=============================================================================
