---------------------------- MODULE ElementLists ----------------------------
(***************************************************************************)
(* What the skip lists promise the Euler tour trees, src/skiplist.cpp and  *)
(* src/euler_tour_tree.cpp: a list is a sequence of elements, and each     *)
(* vertex has one element that holds the vertex's sketch.  An element is a *)
(* vertex and a number, a sketch the set of updates it has seen an odd     *)
(* number of times.                                                        *)
(***************************************************************************)
EXTENDS Naturals, Sequences

CONSTANTS
  Vertex,
  Degree,     \* the most elements a vertex has at once
  Update,     \* what is added to a sketch
  None        \* no sketch

VARIABLES
  lists,      \* the lists
  sketches,   \* by element, the sketch that it holds
  spare       \* temp_sketch

vars == <<lists, sketches, spare>>

Elem == Vertex \X (1..Degree)
Of(v) == {v} \X (1..Degree)

\* Adding to a sketch what another holds takes away what both hold.
Merge(s, t) == (s \ t) \cup (t \ s)

Init ==
  /\ lists = {}
  /\ sketches = [e \in Elem |-> None]
  /\ spare = {}

Listed == UNION {{s[i] : i \in DOMAIN s} : s \in lists}
Holders(v) == {e \in Of(v) : sketches[e] # None}

\* A vertex's first element takes the spare sketch.
Make(e) ==
  LET listed == Listed
  IN  /\ e \notin listed
      /\ lists' = lists \cup {<<e>>}
      /\ IF Of(e[1]) \cap listed = {}
         THEN sketches' = [sketches EXCEPT ![e] = spare] /\ spare' = {}
         ELSE UNCHANGED <<sketches, spare>>

\* The sketch of an element that goes is another's of the vertex, or spare.
Delete(e) ==
  /\ <<e>> \in lists
  /\ lists' = lists \ {<<e>>}
  /\ LET mine == sketches[e]
         others == (Of(e[1]) \cap Listed) \ {e}
     IN  \/ mine = None /\ UNCHANGED <<sketches, spare>>
         \/ /\ mine # None
            /\ \E heir \in others : sketches' = [sketches EXCEPT ![heir] = mine, ![e] = None]
            /\ UNCHANGED spare
         \/ /\ mine # None /\ others = {}
            /\ sketches' = [sketches EXCEPT ![e] = None]
            /\ spare' = Merge(spare, mine)

Join ==
  /\ UNCHANGED <<sketches, spare>>
  /\ LET now == lists
         next == lists'
     IN  \E s \in now, t \in now :
           s # t /\ next = (now \ {s, t}) \cup {s \o t}

Split ==
  /\ UNCHANGED <<sketches, spare>>
  /\ LET now == lists
         next == lists'
     IN  \E s \in now : \E i \in 1..Len(s) - 1 :
           next = (now \ {s}) \cup {SubSeq(s, 1, i), SubSeq(s, i + 1, Len(s))}

\* An update of the sketches of one or two vertices.
Add(vertices, u) ==
  /\ UNCHANGED <<lists, spare>>
  /\ \A v \in vertices : Holders(v) # {}
  /\ LET now == sketches
     IN  sketches' = [e \in Elem |-> IF e[1] \in vertices /\ now[e] # None
                                    THEN Merge(now[e], {u}) ELSE now[e]]

Next ==
  \/ Join \/ Split
  \/ \E v \in Vertex, w \in Vertex, u \in Update : Add({v, w}, u)
  \/ \E e \in Elem : Make(e) \/ Delete(e)

Spec == Init /\ [][Next]_vars
=============================================================================
