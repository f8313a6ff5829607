---------------------------- MODULE LinkCutTrees ----------------------------
(***************************************************************************)
(* The link-cut tree, src/link_cut_tree.cpp, down to its pointers.  The    *)
(* forest is cut into preferred paths; a path is a splay tree in the order *)
(* of the path, turned round lazily by reversal bits, and its head knows   *)
(* by dparent the vertex above the path.  The root of a splay tree caches  *)
(* the path's head and tail, every node the heaviest edge of its subtree.  *)
(*                                                                         *)
(* A node is its vertex, an edge the set of its ends.  The edge ids 0 and  *)
(* MAX_UINT64, which stand for no edge, are both NoEdge.  An operator      *)
(* named after a method takes the nodes and gives what they become; the    *)
(* methods that return the root of a path give a record with it.           *)
(***************************************************************************)
EXTENDS Forests, SequencesExt

CONSTANTS
  NoVertex,   \* nullptr
  Weight      \* the weights that link is called with

ASSUME LctAssumption ==
  NoVertex \notin Vertex /\ Weight \subseteq Nat

VARIABLE nodes

NoEdge == {}
None == <<0, NoEdge>>

Init ==
  nodes = [v \in Vertex |->
    [left |-> NoVertex, right |-> NoVertex, parent |-> NoVertex,
     dparent |-> NoVertex, head |-> v, tail |-> v, reversed |-> FALSE,
     preferred |-> <<NoEdge, NoEdge>>, edges |-> [e \in {} |-> 0], max |-> None]]

-----------------------------------------------------------------------------
(* LinkCutNode.                                                            *)

\* recompute_head (FALSE) and recompute_tail (TRUE): the last node on the way
\* to the left or to the right, which every reversal on the way exchanges.
End(n, v, turned) ==
  LET end[x \in Vertex] == [t \in BOOLEAN |->
        LET turn == t # n[x].reversed
            next == IF turn THEN n[x].right ELSE n[x].left
        IN  IF next = NoVertex THEN x ELSE end[next][turn]]
  IN  end[v][turned]

RecomputeHead(n, v) == [n EXCEPT ![v].head = End(n, v, FALSE)]
RecomputeEnds(n, v) == [RecomputeHead(n, v) EXCEPT ![v].tail = End(n, v, TRUE)]

Turn(n, c) == IF c = NoVertex THEN n ELSE [n EXCEPT ![c].reversed = ~@]

\* Slip: the children are exchanged, but not what is below them.
Slip_PushDown(n, v) ==
  IF n[v].reversed
  THEN [n EXCEPT ![v].left = n[v].right, ![v].right = n[v].left, ![v].reversed = FALSE]
  ELSE n

\* A reversed node exchanges its children and hands the reversal to both.
PushDown(n, v) ==
  IF n[v].reversed
  THEN Turn(Turn([n EXCEPT ![v].left = n[v].right, ![v].right = n[v].left,
                           ![v].reversed = FALSE], n[v].left), n[v].right)
  ELSE n

\* correct_reversals: from the root of v's splay tree down to v.
CorrectReversals(n, v) ==
  LET corrected[x \in Vertex \cup {NoVertex}] ==
        IF x = NoVertex THEN n ELSE PushDown(corrected[n[x].parent], x)
  IN  corrected[v]

MakePreferredEdge(n, v, e) ==
  [n EXCEPT ![v].preferred[IF n[v].preferred[1] = NoEdge THEN 1 ELSE 2] = e]

UnmakePreferredEdge(n, v, e) ==
  [n EXCEPT ![v].preferred[IF n[v].preferred[1] = e THEN 1 ELSE 2] = NoEdge]

\* Slip: the weights are added up.
Slip_Heavier(best, m) == IF m[1] > 0 THEN <<best[1] + m[1], m[2]>> ELSE best

Heavier(best, m) == IF m[1] > best[1] THEN m ELSE best

\* rebuild_max: the first of the heaviest, if it is heavier than 0, of the
\* node's preferred edges that it still has and of its children's.
MaxOf(n, v) ==
  LET own(e) == IF e \in DOMAIN n[v].edges THEN <<n[v].edges[e], e>> ELSE None
      below(c) == IF c = NoVertex THEN None ELSE n[c].max
  IN  Heavier(Heavier(Heavier(Heavier(None,
        own(n[v].preferred[1])), own(n[v].preferred[2])),
        below(n[v].left)), below(n[v].right))

RebuildMax(n, v) == [n EXCEPT ![v].max = MaxOf(n, v)]

\* link_left and link_right
LinkChild(n, v, side, c) ==
  LET adopted == IF c = NoVertex THEN n ELSE [n EXCEPT ![c].parent = v]
  IN  RebuildMax([adopted EXCEPT ![v][side] = c], v)

SideOf(n, p, v) == IF n[p].left = v THEN "left" ELSE "right"
Other(side) == IF side = "left" THEN "right" ELSE "left"

RotateUp(n, v) ==
  LET p == n[v].parent
      g == n[p].parent
      side == SideOf(n, p, v)
      turned == LinkChild(LinkChild(n, p, side, n[v][Other(side)]), v, Other(side), p)
  IN  IF g = NoVertex THEN [turned EXCEPT ![v].parent = NoVertex]
      ELSE LinkChild(turned, g, SideOf(n, g, p), v)

\* zig, zig-zig and zig-zag, unless v is the root.
Zig(n, v) ==
  LET p == n[v].parent
      g == n[p].parent
  IN  IF p = NoVertex THEN n
      ELSE IF g = NoVertex THEN RotateUp(n, v)
      ELSE RotateUp(RotateUp(n, IF SideOf(n, g, p) = SideOf(n, p, v) THEN p ELSE v), v)

\* Until v is the root, which it is after fewer rounds than there are vertices.
Raise(n, v) ==
  LET raised[i \in 0 .. Cardinality(Vertex)] ==
        IF i = 0 THEN n ELSE Zig(raised[i - 1], v)
  IN  raised[Cardinality(Vertex)]

Splay(n, v) == RebuildMax(RecomputeEnds(Raise(CorrectReversals(n, v), v), v), v)

-----------------------------------------------------------------------------
(* LinkCutTree.                                                            *)

\* The path from root v and the one from root w become one.
Join(n, v, w) ==
  LET t == n[v].tail
      h == n[w].head
      preferred == MakePreferredEdge(MakePreferredEdge(n, t, {t, h}), h, {t, h})
  IN  [nodes |-> RecomputeEnds(LinkChild(Splay(Splay(preferred, t), h), t, "right", h), t),
       root |-> t]

\* Slip: the edge the path is split at stays preferred.
Slip_Unprefer(n, v, w) == n

Unprefer(n, v, w) == UnmakePreferredEdge(UnmakePreferredEdge(n, v, {v, w}), w, {v, w})

\* What is behind v, its right subtree, becomes a path of its own below v.
CutBehind(n, v) ==
  LET r == n[v].right
      w == End(n, r, FALSE)
      apart == LinkChild(Unprefer(RecomputeHead(n, r), v, w), v, "right", NoVertex)
      rest == [apart EXCEPT ![r].parent = NoVertex, ![w].dparent = v]
  IN  IF r = NoVertex THEN n ELSE RecomputeEnds(Splay(rest, w), w)

\* The path of v, split behind v.
Split(n, v) ==
  [nodes |-> RecomputeEnds(CutBehind(Splay(n, v), v), v), root |-> v]

\* The vertex above the path of root p.
Above(n, p) == n[n[p].head].dparent

JoinBelow(path, p) ==
  Join([path.nodes EXCEPT ![path.nodes[p].head].dparent = NoVertex], path.root, p)

Splice(n, p) == JoinBelow(Split(n, Above(n, p)), p)

Spliced(path) ==
  IF Above(path.nodes, path.root) = NoVertex THEN path ELSE Splice(path.nodes, path.root)

\* Until there is none above, which takes fewer rounds than there are vertices.
SpliceUp(path) ==
  LET spliced[i \in 0 .. Cardinality(Vertex)] ==
        IF i = 0 THEN path ELSE Spliced(spliced[i - 1])
  IN  spliced[Cardinality(Vertex)]

\* Slip: only the path next above is spliced.
Slip_Expose(n, v) ==
  LET s == Split(n, v)
  IN  IF Above(s.nodes, s.root) = NoVertex THEN s ELSE Splice(s.nodes, s.root)

\* The path from the root of the forest's tree to v becomes a preferred path.
Expose(n, v) == SpliceUp(Split(n, v))

ReversePath(path) ==
  [path EXCEPT !.nodes = RecomputeEnds(Turn(path.nodes, path.root), path.root)]

\* v becomes the root of its tree.
Evert(n, v) == ReversePath(Expose(n, v))

Linked(n, v, w, weight) ==
  LET put(m, x) == [m EXCEPT ![x].edges =
                     [e \in DOMAIN @ \cup {{v, w}} |-> IF e = {v, w} THEN weight ELSE @[e]]]
      exposed == Expose(put(put(n, v), w), v)
      everted == Evert(exposed.nodes, w)
  IN  Join(everted.nodes, exposed.root, everted.root).nodes

\* Slip: v's tree is not turned, w may be above v.
Slip_WithoutEdge(n, v, w) ==
  LET drop(m, x) == [m EXCEPT ![x].edges = [e \in DOMAIN @ \ {{v, w}} |-> @[e]]]
  IN  [Expose(drop(drop(n, v), w), v).nodes EXCEPT ![w].dparent = NoVertex]

WithoutEdge(n, v, w) ==
  LET drop(m, x) == [m EXCEPT ![x].edges = [e \in DOMAIN @ \ {{v, w}} |-> @[e]]]
      everted == Evert(drop(drop(n, v), w), v)
  IN  [Expose(everted.nodes, v).nodes EXCEPT ![w].dparent = NoVertex]

\* The path from v to w, exposed.
PathBetween(n, v, w) == Expose(Evert(n, v).nodes, w)

Up(n, x) == IF n[x].parent # NoVertex THEN n[x].parent ELSE n[n[x].head].dparent

\* Slip: a walk that meets a vertex seen before begins a tree of its own.
Slip_Climb(n, root, v) ==
  LET passed[x \in Vertex] ==
        IF Up(n, x) \in DOMAIN root \cup {NoVertex} THEN {x} ELSE {x} \cup passed[Up(n, x)]
  IN  [x \in DOMAIN root \cup passed[v] |-> IF x \in DOMAIN root THEN root[x] ELSE v]

\* The walk of get_cc up from v, to where both pointers lead to a vertex seen
\* before or nowhere: who was passed, and under which root.  Nothing is splayed,
\* and heads are read at inner nodes too.
Climb(n, root, v) ==
  LET climbed[x \in Vertex] ==
        IF {n[x].parent, n[n[x].head].dparent} \subseteq DOMAIN root \cup {NoVertex}
        THEN [passed |-> {x}, top |-> IF Up(n, x) = NoVertex THEN x ELSE root[Up(n, x)]]
        ELSE [climbed[Up(n, x)] EXCEPT !.passed = @ \cup {x}]
      way == climbed[v]
  IN  [x \in DOMAIN root \cup way.passed |-> IF x \in DOMAIN root THEN root[x] ELSE way.top]

Visit(n, root, v) == IF v \in DOMAIN root THEN root ELSE Climb(n, root, v)

\* get_cc: the trees, found from each vertex that was not yet passed.
GetCC(n, order) ==
  LET visited[i \in 0 .. Len(order)] ==
        IF i = 0 THEN [x \in {} |-> NoVertex] ELSE Visit(n, visited[i - 1], order[i])
      found == visited[Len(order)]
  IN  {{v \in Vertex : found[v] = r} : r \in {found[x] : x \in Vertex}}

-----------------------------------------------------------------------------
(* The calls of the tiers and of the input node.  link, find_root and      *)
(* path_aggregate first ask find_root in an assertion: the build decides   *)
(* whether it does, and it is one more FindRoot.                           *)

PathOrder(n, v, turned) ==
  LET order[x \in Vertex] == [t \in BOOLEAN |->
        LET turn == t # n[x].reversed
            below(c) == IF c = NoVertex THEN <<>> ELSE order[c][turn]
        IN  IF turn THEN below(n[x].right) \o <<x>> \o below(n[x].left)
            ELSE below(n[x].left) \o <<x>> \o below(n[x].right)]
  IN  order[v][turned]

Roots == {v \in Vertex : nodes[v].parent = NoVertex}

\* The path of a root, from its head to its tail.
PathOf(r) == PathOrder(nodes, r, FALSE)

Preferred(path) == {{path[i], path[i + 1]} : i \in 1 .. Len(path) - 1}

\* The forest as the pointers have it.
ForestEdges ==
  UNION {LET path == PathOf(r)
             above == nodes[path[1]].dparent
         IN  Preferred(path) \cup (IF above = NoVertex THEN {} ELSE {{path[1], above}}) :
           r \in Roots}

Link(v, w, weight) == nodes' = Linked(nodes, v, w, weight)

Cut(v, w) == nodes' = WithoutEdge(nodes, v, w)

FindRoot(v) == nodes' = Expose(nodes, v).nodes

PathAggregate(v, w) == nodes' = PathBetween(nodes, v, w).nodes

\* What the callers have asked before they call.
Next ==
  \E tree \in Blocks(ForestEdges, Vertex), v \in Vertex :
    /\ v \in tree
    /\ \/ FindRoot(v)
       \/ \E w \in tree \ {v} : PathAggregate(v, w)
       \/ \E w \in tree \ {v} : {v, w} \in DOMAIN nodes[v].edges /\ Cut(v, w)
       \/ \E w \in Vertex \ tree, weight \in Weight : Link(v, w, weight)

Spec == Init /\ [][Next]_nodes

-----------------------------------------------------------------------------
(* Properties.                                                             *)

Node ==
  [left : Vertex \cup {NoVertex}, right : Vertex \cup {NoVertex},
   parent : Vertex \cup {NoVertex}, dparent : Vertex \cup {NoVertex},
   head : Vertex, tail : Vertex, reversed : BOOLEAN,
   preferred : [1 .. 2 -> Edge \cup {NoEdge}],
   edges : UNION {[F -> Weight] : F \in SUBSET Edge},
   max : (Weight \cup {0}) \X (Edge \cup {NoEdge})]

TypeOK == nodes \in [Vertex -> Node]

\* What the caller relies on: link, cut and all the exposing between them
\* change the forest by the one edge, with its weight.
Represented ==
  [e \in ForestEdges |->
     IF \A v \in e : e \in DOMAIN nodes[v].edges
     THEN nodes[CHOOSE v \in e : TRUE].edges[e] ELSE -1]

Trees == INSTANCE WeightedForest WITH forest <- Represented

KeepsForest == Trees!Spec

\* The splay trees hang together (validate of link_cut_tree_test.cpp), and what
\* is cached is what the lazily reversed pointers say: at the root of each
\* splay tree the ends of its path and its heaviest edge; a vertex's preferred
\* edges are those of its path, and only heads lead above their path.
CachesAgree ==
  LET forest == Represented IN
  /\ \A v \in Vertex : \A c \in {nodes[v].left, nodes[v].right} \ {NoVertex} :
       nodes[c].parent = v
  /\ \A r \in Roots :
       LET path == PathOf(r)
           weights == {forest[e] : e \in Preferred(path)} \cup {0}
       IN  /\ nodes[r].head = path[1]
           /\ nodes[r].tail = Last(path)
           /\ nodes[r].max[1] \in weights
           /\ \A weight \in weights : weight <= nodes[r].max[1]
           /\ \A i \in 2 .. Len(path) : nodes[path[i]].dparent = NoVertex
           /\ \A i \in DOMAIN path :
                {nodes[path[i]].preferred[j] : j \in {1, 2}} \ {NoEdge}
                  = {e \in Preferred(path) : path[i] \in e}

\* What is exposed is the path of the forest from v to w, and the maximum at its
\* root is a heaviest edge of it with its weight.
NamesHeaviest(exposed, forest, v, w) ==
  LET path == PathOrder(exposed.nodes, exposed.root, FALSE)
      answer == exposed.nodes[exposed.root].max
  IN  /\ path[1] = v /\ Last(path) = w
      /\ Preferred(path) \subseteq DOMAIN forest
      /\ answer[2] \in Preferred(path)
      /\ answer[1] = forest[answer[2]]
      /\ \A e \in Preferred(path) : forest[e] <= answer[1]

\* path_aggregate exposes the path it is asked for and answers with a heaviest
\* edge of it, in every state it can be called in.  The tiers cut that edge.
AggregateIsHeaviest ==
  LET forest == Represented IN
  \A tree \in Blocks(DOMAIN forest, Vertex) : \A v \in tree : \A w \in tree \ {v} :
    NamesHeaviest(PathBetween(nodes, v, w), forest, v, w)

\* The answers of find_root for two vertices, one asked behind the other, are
\* the same exactly when the vertices are connected.
RootsTell ==
  LET trees == Blocks(ForestEdges, Vertex)
      root(path) == path.nodes[path.root].head
  IN  \A v \in Vertex :
        LET first == Expose(nodes, v) IN
        \A w \in Vertex :
          root(first) = root(Expose(first.nodes, w))
            <=> \E tree \in trees : {v, w} \subseteq tree

\* get_cc finds the connected components, whatever is cached at the inner nodes
\* whose heads it reads, and in every order of the vertices.
ComponentsFound ==
  \A order \in {f \in [1 .. Cardinality(Vertex) -> Vertex] : IsInjective(f)} :
    GetCC(nodes, order) = Blocks(ForestEdges, Vertex)
=============================================================================
