----------------------------- MODULE SkipLists ------------------------------
(***************************************************************************)
(* The skip lists under the Euler tour trees, src/skiplist.cpp, with the   *)
(* part of src/euler_tour_tree.cpp that makes and deletes their elements,  *)
(* down to the pointers.  src/sketchless_skiplist.cpp is the same code     *)
(* without the sketches.                                                   *)
(*                                                                         *)
(* An element is a tower of nodes, and the tower of boundary nodes to its  *)
(* left, one higher, begins the list.  A node stands for the nodes of its  *)
(* level from it up to, but not with, the next one: it counts those of the *)
(* bottom level and its sketch is the sum of theirs, once the updates that *)
(* wait in its buffer are applied.                                         *)
(*                                                                         *)
(* The heap maps the address of a node to the node, and to None where      *)
(* nothing is allocated.  An address is the element, the level and         *)
(* whether it is the element's or of the boundary that it begins; new      *)
(* boundaries get the address of the element they will stand before.  An   *)
(* operator named after a method takes the heap and gives what it becomes. *)
(***************************************************************************)
EXTENDS Naturals, Sequences, FiniteSets

CONSTANTS
  Vertex,
  Degree,      \* the most elements a vertex has at once
  Update,      \* what is added to a sketch
  None,        \* nullptr, no sketch, nothing allocated
  BufferCap,   \* skiplist_buffer_cap
  MaxHeight    \* of an element

ASSUME SkipListAssumption ==
  /\ {Degree, BufferCap, MaxHeight} \subseteq Nat \ {0}
  /\ None \notin Vertex \cup Update

VARIABLES
  heap,
  temp,        \* temp_sketch
  height       \* by vertex, the height its hash gives its elements

vars == <<heap, temp, height>>

Elem == Vertex \X (1..Degree)
Address == Elem \X (1..MaxHeight) \X {"node"} \cup
           Elem \X (1..MaxHeight + 1) \X {"bdry"}

Bottom(e) == <<e, 1, "node">>
Above(n) == <<n[1], n[2] + 1, n[3]>>
Below(n) == <<n[1], n[2] - 1, n[3]>>
Bdry(n) == <<n[1], n[2], "bdry">>

\* Sketches are linear: adding is also taking away.
Merge(s, t) == (s \ t) \cup (t \ s)

\* An update that waits twice leaves the sketch as it is.
Applied(buf) == {u \in Update : Cardinality({i \in DOMAIN buf : buf[i] = u}) % 2 = 1}

New(has) ==
  [left |-> None, right |-> None, up |-> None, down |-> None, parent |-> None,
   size |-> 1, agg |-> IF has THEN {} ELSE None, buf |-> <<>>]

Init ==
  /\ heap = [n \in Address |-> None]
  /\ temp = {}
  /\ height \in [Vertex -> 1..MaxHeight]

-----------------------------------------------------------------------------
(* Walks and updates.                                                      *)

RECURSIVE GetRoot(_, _)
GetRoot(h, n) == IF h[n].parent = None THEN n ELSE GetRoot(h, h[n].parent)

RECURSIVE Down(_, _), DownRight(_, _)
Down(h, n) == IF h[n].down = None THEN n ELSE Down(h, h[n].down)
DownRight(h, n) ==
  IF h[n].right # None THEN DownRight(h, h[n].right)
  ELSE IF h[n].down # None THEN DownRight(h, h[n].down) ELSE n

GetFirst(h, n) == Down(h, GetRoot(h, n))
GetLast(h, n) == DownRight(h, GetRoot(h, n))

ProcessUpdates(h, n) ==
  IF h[n].agg = None THEN h
  ELSE [h EXCEPT ![n].agg = Merge(@, Applied(h[n].buf)), ![n].buf = <<>>]

\* Slip: the buffer is emptied one update too late.
Slip_UpdateAgg(h, n, u) ==
  IF h[n].agg = None THEN h
  ELSE LET g == [h EXCEPT ![n].buf = Append(@, u)]
       IN  IF Len(g[n].buf) > BufferCap THEN ProcessUpdates(g, n) ELSE g

UpdateAgg(h, n, u) ==
  IF h[n].agg = None THEN h
  ELSE LET g == [h EXCEPT ![n].buf = Append(@, u)]
       IN  IF Len(g[n].buf) = BufferCap THEN ProcessUpdates(g, n) ELSE g

\* update_path_agg of an update, and of a sketch: a node without a sketch
\* takes the given one.
RECURSIVE UpdatePath(_, _, _), GivePath(_, _, _)
UpdatePath(h, n, u) ==
  IF n = None THEN h ELSE UpdatePath(UpdateAgg(h, n, u), h[n].parent, u)

GivePath(h, n, s) ==
  IF n = None THEN h
  ELSE GivePath([h EXCEPT ![n].agg = IF @ = None THEN s ELSE Merge(@, s)], h[n].parent, s)

\* EulerTourTree::update_sketches: up both paths, to the first common node.
RECURSIVE UpdateBoth(_, _, _, _)
UpdateBoth(h, a, b, u) ==
  IF a = b THEN h
  ELSE LET next(n) == IF n = None THEN None ELSE h[n].parent
           g == IF a = None THEN h ELSE UpdateAgg(h, a, u)
       IN  UpdateBoth(IF b = None THEN g ELSE UpdateAgg(g, b, u), next(a), next(b), u)

-----------------------------------------------------------------------------
(* Elements.                                                               *)

\* init_element: level by level, and the root over both towers.
RECURSIVE Tower(_, _, _, _)
Tower(h, n, top, has) ==
  LET b == Bdry(n)
      last == n[2] = top
      link(x, new) == [new EXCEPT !.down = IF n[2] = 1 THEN None ELSE Below(x)]
      g == [h EXCEPT
        ![n] = link(n, [New(has) EXCEPT !.left = b, !.up = IF last THEN None ELSE Above(n),
                          !.parent = IF last THEN Above(b) ELSE Above(n)]),
        ![b] = link(b, [New(n[2] > 1) EXCEPT !.right = n, !.up = Above(b), !.parent = Above(b)])]
  IN  IF last THEN [g EXCEPT ![Above(b)] = [New(TRUE) EXCEPT !.down = b, !.size = 2]]
      ELSE Tower(g, Above(n), top, TRUE)

InitElement(h, e, has) == Tower(h, Bottom(e), height[e[1]], has)

RECURSIVE FreeTower(_, _)
FreeTower(h, n) == IF n = None THEN h ELSE FreeTower([h EXCEPT ![n] = None], h[n].up)

\* uninit_element(true)
UninitElement(h, n) == FreeTower(FreeTower(h, n), h[n].left)

-----------------------------------------------------------------------------
(* join                                                                    *)

\* Slip: the updates that wait in r are lost with it.
Slip_Take(h, l, r, old) ==
  LET x == h[r].right
      linked == [h EXCEPT ![l].right = x]
      both == IF x = None THEN linked ELSE [linked EXCEPT ![x].left = l]
      merged == [both EXCEPT ![l].size = @ + both[r].size - 1,
                   ![l].agg = IF None \in {@, both[r].agg} THEN @ ELSE Merge(@, both[r].agg)]
  IN  IF old = None THEN merged ELSE [merged EXCEPT ![old] = None]

\* On one level, l takes the place of the boundary r and what r stands for;
\* the boundary node below r is freed.
Take(h, l, r, old) ==
  LET x == h[r].right
      linked == [h EXCEPT ![l].right = x]
      both == ProcessUpdates(IF x = None THEN linked ELSE [linked EXCEPT ![x].left = l], r)
      merged == [both EXCEPT ![l].size = @ + both[r].size - 1,
                   ![l].agg = IF None \in {@, both[r].agg} THEN @ ELSE Merge(@, both[r].agg)]
  IN  IF old = None THEN merged ELSE [merged EXCEPT ![old] = None]

\* Up the levels that both lists have.
RECURSIVE Zip(_, _, _, _, _)
Zip(h, l, r, lprev, rprev) ==
  IF None \in {l, r} THEN [heap |-> h, l |-> l, r |-> r, lprev |-> lprev, rprev |-> rprev]
  ELSE LET g == Take(h, l, r, rprev) IN Zip(g, g[l].parent, g[r].up, l, r)

\* The rest of a path gets the sketch s and k more elements, ...
RECURSIVE AddUp(_, _, _, _), TakeUp(_, _, _, _)
AddUp(h, l, s, k) ==
  IF l = None THEN h
  ELSE AddUp([h EXCEPT ![l].agg = Merge(@, s), ![l].size = @ + k], h[l].parent, s, k)

\* ... or loses them.
TakeUp(h, l, s, k) ==
  IF l = None THEN h
  ELSE TakeUp([h EXCEPT ![l].agg = Merge(@, s), ![l].size = @ - k], h[l].parent, s, k)

\* A new node of the boundary, over b.
Raise(h, b, s, k) ==
  [h EXCEPT ![Above(b)] = [New(TRUE) EXCEPT !.down = b, !.agg = s, !.size = k],
            ![b].up = Above(b), ![b].parent = Above(b)]

\* If the right list is taller the left one's boundary grows; s and k are what
\* the left list was.
RECURSIVE Grow(_, _, _, _, _, _)
Grow(h, lprev, r, rprev, s, k) ==
  IF r = None THEN [heap |-> h, root |-> lprev, rprev |-> rprev]
  ELSE Grow(Take(Raise(h, lprev, s, k), Above(lprev), r, rprev),
            Above(lprev), h[r].up, r, s, k)

\* Slip: only the first node of each level.
RECURSIVE Slip_Reparent(_, _)
Slip_Reparent(h, n) ==
  IF n = None THEN h
  ELSE IF h[n].up # None THEN Slip_Reparent(h, h[n].up)
  ELSE [h EXCEPT ![n].parent = h[h[n].left].parent]

\* The nodes of the right list that stand left of a higher one get the parent
\* of the node on their left.
RECURSIVE Reparent(_, _)
Reparent(h, n) ==
  IF n = None THEN h
  ELSE IF h[n].up # None THEN Reparent(h, h[n].up)
  ELSE Reparent([h EXCEPT ![n].parent = h[h[n].left].parent], h[n].right)

JoinLists(h, left, right) ==
  LET first == GetFirst(h, right)
      z == Zip(h, GetLast(h, left), first, None, None)
      b == z.rprev
      g == AddUp(z.heap, z.l, z.heap[b].agg, z.heap[b].size - 1)
      p == ProcessUpdates(g, z.lprev)
      t == z.lprev
      grown == IF z.r = None THEN [heap |-> g, rprev |-> b]
               ELSE Grow(p, t, z.r, b, Merge(p[t].agg, p[b].agg), p[t].size - (p[b].size - 1))
  IN  Reparent([grown.heap EXCEPT ![grown.rprev] = None], h[first].right)

-----------------------------------------------------------------------------
(* split_left                                                              *)

\* The boundary node b stands for the nodes from r to the next higher one.
RECURSIVE Absorb(_, _, _)
Absorb(h, r, b) ==
  IF r = None THEN [heap |-> h, r |-> None]
  ELSE IF h[r].up # None THEN [heap |-> h, r |-> h[r].up]
  ELSE LET g == ProcessUpdates(h, r)
       IN  Absorb([g EXCEPT ![r].parent = b, ![b].size = @ + g[r].size,
                     ![b].agg = IF g[r].agg = None THEN @ ELSE Merge(@, g[r].agg)],
                  h[r].right, b)

\* Up the levels that the right list has: b, the boundary before r, is cut
\* off from l and what it stands for is taken from l.
RECURSIVE Unzip(_, _, _, _)
Unzip(h, l, r, b) ==
  IF r = None THEN [heap |-> h, l |-> l, b |-> b]
  ELSE LET cut == [h EXCEPT ![r].left = b, ![b].right = r, ![l].right = None,
                     ![l].agg = IF None \in {@, h[b].agg} THEN @ ELSE Merge(@, h[b].agg),
                     ![l].size = @ - (h[b].size - 1)]
           a == Absorb(Raise(cut, b, IF h[b].agg = None THEN {} ELSE h[b].agg, h[b].size),
                       r, Above(b))
       IN  Unzip(a.heap, h[l].parent, a.r, Above(b))

\* Slip: the nodes that are cut off are not freed.
RECURSIVE Slip_Trim(_, _)
Slip_Trim(h, top) ==
  IF h[h[top].down].right = None THEN Slip_Trim(h, h[top].down)
  ELSE [h EXCEPT ![top].up = None, ![top].parent = None]

\* The boundary is one higher than the highest element.
RECURSIVE Trim(_, _)
Trim(h, top) ==
  IF h[h[top].down].right = None THEN Trim([h EXCEPT ![top] = None], h[top].down)
  ELSE [h EXCEPT ![top].up = None, ![top].parent = None]

\* n is not the first of its list.
SplitLists(h, n) ==
  LET b == Bdry(n)
      z == Unzip([h EXCEPT ![b] = New(FALSE)], h[n].left, n, b)
      g == TakeUp(z.heap, z.l, z.heap[z.b].agg, z.heap[z.b].size - 1)
  IN  Trim(g, GetRoot(g, z.l))

-----------------------------------------------------------------------------
(* What the Euler tour trees do with the lists.                            *)

Live == {e \in Elem : heap[Bottom(e)] # None}
EdgesOf(v) == {e \in Live : e[1] = v}
AllowedCaller(v) == CHOOSE e \in EdgesOf(v) : heap[Bottom(e)].agg # None

\* make_edge: the first element of a vertex is its allowed caller and takes
\* temp_sketch.
MakeEdge(e) ==
  /\ e \notin Live
  /\ IF EdgesOf(e[1]) = {}
     THEN /\ heap' = GivePath(InitElement(heap, e, TRUE), Bottom(e), temp)
          /\ temp' = {}
     ELSE /\ heap' = InitElement(heap, e, FALSE)
          /\ UNCHANGED temp
  /\ UNCHANGED height

\* Slip: the sketch is handed over without the updates that wait.
Slip_Handed(h, n) == h[n].agg

\* What a node that is deleted hands over.
Handed(h, n) == ProcessUpdates(h, n)[n].agg

\* delete_edge, of an element that is alone in its list: another of the
\* vertex, or else temp_sketch, gets its sketch.
DeleteEdge(e) ==
  LET n == Bottom(e)
      others == EdgesOf(e[1]) \ {e}
  IN  /\ e \in Live /\ heap[heap[n].left].left = None /\ heap[n].right = None
      /\ \/ /\ heap[n].agg = None
            /\ heap' = UninitElement(heap, n)
            /\ UNCHANGED temp
         \/ /\ heap[n].agg # None
            /\ \E heir \in others :
                 heap' = UninitElement(GivePath(heap, Bottom(heir), Handed(heap, n)), n)
            /\ UNCHANGED temp
         \/ /\ heap[n].agg # None /\ others = {}
            /\ temp' = Merge(temp, Handed(heap, n))
            /\ heap' = UninitElement(heap, n)
      /\ UNCHANGED height

\* join of two lists, known by any of their elements
Join(e, f) ==
  /\ {e, f} \subseteq Live
  /\ GetRoot(heap, Bottom(e)) # GetRoot(heap, Bottom(f))
  /\ heap' = JoinLists(heap, Bottom(e), Bottom(f))
  /\ UNCHANGED <<temp, height>>

\* split_left does nothing to the left of the first element, and split_right
\* nothing to the right of the last.
SplitLeft(e) ==
  /\ e \in Live
  /\ LET n == Bottom(e)
     IN  heap' = IF heap[heap[n].left].left = None THEN heap ELSE SplitLists(heap, n)
  /\ UNCHANGED <<temp, height>>

SplitRight(e) ==
  /\ e \in Live
  /\ LET right == heap[Bottom(e)].right
     IN  heap' = IF right = None THEN heap ELSE SplitLists(heap, right)
  /\ UNCHANGED <<temp, height>>

UpdateSketch(v, u) ==
  /\ EdgesOf(v) # {}
  /\ heap' = UpdatePath(heap, Bottom(AllowedCaller(v)), u)
  /\ UNCHANGED <<temp, height>>

UpdateSketches(v, w, u) ==
  /\ v # w /\ EdgesOf(v) # {} /\ EdgesOf(w) # {}
  /\ heap' = UpdateBoth(heap, Bottom(AllowedCaller(v)), Bottom(AllowedCaller(w)), u)
  /\ UNCHANGED <<temp, height>>

\* The tiers apply what waits at a root before they sample it.
ReadRoot(e) ==
  /\ e \in Live
  /\ heap' = ProcessUpdates(heap, GetRoot(heap, Bottom(e)))
  /\ UNCHANGED <<temp, height>>

Next ==
  \/ \E e \in Elem : MakeEdge(e) \/ DeleteEdge(e) \/ SplitLeft(e) \/ SplitRight(e) \/ ReadRoot(e)
  \/ \E e, f \in Elem : Join(e, f)
  \/ \E v \in Vertex, u \in Update : UpdateSketch(v, u)
  \/ \E v, w \in Vertex, u \in Update : UpdateSketches(v, w, u)

Spec == Init /\ [][Next]_vars

-----------------------------------------------------------------------------
(* Properties.                                                             *)

Allocated == {n \in Address : heap[n] # None}
Pointer == Address \cup {None}

\* The heap holds nodes, temp_sketch a sketch and no buffer is full.
TypeOK ==
  /\ \A n \in Allocated :
       /\ \A p \in {"left", "right", "up", "down", "parent"} : heap[n][p] \in Pointer
       /\ heap[n].size \in Nat \ {0}
       /\ heap[n].agg # None => heap[n].agg \subseteq Update
       /\ heap[n].buf \in Seq(Update) /\ Len(heap[n].buf) < BufferCap
       /\ heap[n].agg = None => heap[n].buf = <<>> /\ n[2] = 1
  /\ temp \subseteq Update

\* The nodes from n on to the right, on n's level.
RECURSIVE Rightward(_)
Rightward(n) == IF n = None THEN <<>> ELSE <<n>> \o Rightward(heap[n].right)

\* The boundary nodes where the lists begin, and a list's elements in order.
Firsts == {b \in {Bdry(Bottom(e)) : e \in Elem} : heap[b] # None}
ListAt(b) == LET row == Rightward(b) IN [i \in 1..Len(row) - 1 |-> row[i + 1][1]]

\* isvalid() of test/skiplist_test.cpp and what skiplist.h says of parent:
\* every pointer is answered by its opposite, and after any splits and joins
\* the parent that every walk to a root follows is the closest node at or
\* left of a node on the next level.
WellFormed ==
  /\ \A n \in Allocated : \A pair \in {<<"up", "down">>, <<"down", "up">>,
                                       <<"left", "right">>, <<"right", "left">>} :
       heap[n][pair[1]] # None => heap[heap[n][pair[1]]][pair[2]] = n
  /\ \A n \in Allocated :
       /\ heap[n].up # None => heap[n].parent = heap[n].up
       /\ heap[n].up = None =>
            heap[n].parent = IF heap[n].left = None THEN None ELSE heap[heap[n].left].parent

\* The nodes of the bottom level that a node stands for.
RECURSIVE Covered(_)
Covered(n) ==
  IF heap[n].down = None THEN {n}
  ELSE LET RECURSIVE Run(_)
           Run(x) == Covered(x) \cup
             (IF heap[x].right = None THEN {}
              ELSE IF heap[heap[x].right].up # None THEN {} ELSE Run(heap[x].right))
       IN  Run(heap[n].down)

Value(n) ==
  IF heap[n].agg = None THEN None ELSE Merge(heap[n].agg, Applied(heap[n].buf))

\* The sum of the sketches of a set of nodes.
Sum(nodes) ==
  {u \in Update : Cardinality({n \in nodes : Value(n) # None /\ u \in Value(n)}) % 2 = 1}

\* Through all splits and joins, and updates that still wait in one node and
\* are applied in the next, every node counts what it stands for and its
\* sketch is the sum of the sketches below it.  What get_list_size and the
\* sample of a root rest on.
Covers ==
  \A n \in Allocated :
    LET below == Covered(n)
    IN  heap[n].size = Cardinality(below) /\ (heap[n].agg # None => Value(n) = Sum(below))

\* No node is left behind, and none freed that is still needed: what is
\* allocated is one tower for each element and for each list one boundary,
\* one higher than its highest element.
NoLeak ==
  LET tower(e, top, kind) == {<<e, l, kind>> : l \in 1..top}
      highest(b) == CHOOSE t \in 1..MaxHeight :
        /\ \E n \in Covered(GetRoot(heap, b)) \ {b} : height[n[1][1]] = t
        /\ \A n \in Covered(GetRoot(heap, b)) \ {b} : height[n[1][1]] =< t
  IN  Allocated = UNION ({tower(e, height[e[1]], "node") : e \in Live} \cup
                         {tower(b[1], highest(b) + 1, "bdry") : b \in Firsts})

\* The lists behave as sequences: joining concatenates, splitting cuts, and
\* an element's sketch is moved, never changed or lost, except by an update
\* of its vertex.
Lists == INSTANCE ElementLists WITH
  lists <- {ListAt(b) : b \in Firsts},
  sketches <- [e \in Elem |-> IF heap[Bottom(e)] = None THEN None ELSE Value(Bottom(e))],
  spare <- temp

KeepsLists == Lists!Spec
=============================================================================
