---------------------------- MODULE Connectivity ----------------------------
(***************************************************************************)
(* What the program promises (README.md: it answers connectivity queries   *)
(* about the graph a stream of edge insertions and deletions describes):   *)
(* a query is answered from the graph as it is when the query is made.     *)
(*                                                                         *)
(* An answer is the way the graph divides the vertices asked about: for    *)
(* is_connected(a, b) they are a and b, and the answer is true when they   *)
(* make one block; for get_cc they are all the vertices.                   *)
(***************************************************************************)
EXTENDS Forests

VARIABLES
  graph,     \* the edges inserted and not deleted since
  answer     \* the answer to the last query, {} when an update followed it

vars == <<graph, answer>>

TypeOK ==
  /\ graph \subseteq Edge
  /\ answer \in SUBSET (SUBSET Vertex)

Init ==
  /\ graph = {}
  /\ answer = {}

Update(e) ==
  /\ graph' = Toggle(graph, e)
  /\ answer' = {}

Query(Q) ==
  /\ Q # {} /\ Q \subseteq Vertex
  /\ answer' = Blocks(graph, Q)
  /\ UNCHANGED graph

\* The vertices a query asks about are those its answer divides.
Next ==
  \/ \E e \in Edge : Update(e)
  \/ Query(UNION answer')

Spec == Init /\ [][Next]_vars
=============================================================================
