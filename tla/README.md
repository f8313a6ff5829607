# Verification of DynamicQueriesCC

The program answers connectivity queries about a graph that a stream of edge
insertions and deletions describes. It keeps a logarithmic number of *tiers*; each is
a forest of Euler tour trees with linear sketches. A sketch of a tree samples an edge
that leaves the tree. Whenever a tree is *isolated* (the same vertices in its tier and
in the next one although an edge leaves it), an edge sampled in the tier is linked in
the tiers above, and if it closes a cycle there, the heaviest edge of that cycle is
evicted. The top tier is then a spanning forest of the graph.

There are two implementations: a shared-memory one (`src/graph_tiers.cpp`) and a
distributed one over MPI (`src/input_node.cpp`, `src/tier_node.cpp`). Both are modelled,
and shown to implement one specification, `Connectivity`: a query is answered from the
graph as it is when the query is made. Below them stand the data structures, modelled down
to their pointers: Euler tour trees on skip lists, and a link-cut tree on splay trees; and
beside them the threads that read the stream from a file.

Contents: [the system](#the-system) · [the modules](#the-modules) ·
[the runs](#the-runs) · [fairness](#fairness) · [the proofs](#the-proofs) ·
[divergences found](#divergences-found) · [what is not modelled](#what-is-not-modelled) ·
[plan](#plan)

## The system

| Component | State | Operations | Called by | Modelled |
|---|---|---|---|---|
| `GraphTiers` | a vector of Euler tour trees, a link-cut tree, the roots the last update touched | `update` (with `refresh`), `is_connected`, `get_cc` | the caller's thread; OpenMP loops over tiers inside | yes |
| `InputNode` (rank 0) | update buffer, link-cut tree, query forest, undo buffer, isolation history | `update`, `process_updates`, `connectivity_query`, `cc_query`, `end` | the driver | yes |
| `TierNode` (rank t + 1) | the tier's Euler tour tree, buffers of the batch, its sizes, samples and cuts | `main`, `refresh_tier`, `ett_update_tier` | MPI messages | yes |
| `mpi_functions.h` | messages on their way | `bcast`, `allreduce` (and unused others), `MPI_Send`, `MPI_Recv` | the nodes | what the nodes use |
| `EulerTourTree`, `SketchlessEulerTourTree` | per vertex: its list nodes, its allowed caller; `temp_sketch` | `link`, `cut`, `has_edge`, `get_root`, `get_size`, `get_aggregate`, `update_sketch(es)`, `cc_query` | tiers, input node | yes |
| `SkipList`, `SketchlessSkipList` | levels, boundary nodes, aggregates, buffers of pending updates | `join`, `split_left`, `split_right`, `update_agg`, ... | Euler tour trees | yes, pointers |
| `LinkCutTree` | splay trees, reversal bits, maxima, weights | `link`, `cut`, `find_root`, `path_aggregate`, `has_edge`, `get_edge_weight` | `GraphTiers`, `InputNode` | yes, pointers |
| `Sketch` (CameoSketch, external) | buckets | `update`, `merge`, `sample` | Euler tour trees | what `sample` may return |
| `BinaryGraphStream_MT` and its readers | atomic offset, query index and block; each reader's buffer | `get_edge`, `register_query`, `on_demand_query`, `post_query_resume`, `stream_reset` | reader threads and a client | yes |
| `BinaryGraphStream` | file offset, buffer | `get_edge` | drivers | no |
| tests, drivers, scripts, build files | | | | the driver's calls |

**How they interact.** In the shared-memory version all is called in one thread; the
parallel loops touch disjoint tiers. In the distributed version the input node buffers
updates and broadcasts a batch of them. Every tier applies the whole batch greedily,
noting after each update the sizes of the endpoints' trees and whether their sketches
give an edge; sizes go down one tier by point-to-point messages; an allreduce finds the
first update that isolates a tree on any tier. If there is none the batch is done.
Otherwise every rank undoes its part from that update on, and the rest of the batch is
applied one update at a time, each followed by a refresh: the tiers take their turns
from the bottom up, each receives the samples of the tier below, announces by broadcast
for each endpoint whether it is isolated, asks the input node whether the sampled edge
closes a cycle, and broadcasts a cut and a link, or a link only.

**What is hard.** Two structures (link-cut tree and one forest per tier) must agree
although each edit reaches a different range of tiers; `EulerTourNode::link` refuses
silently, `LinkCutTree::link` does not. Repair visits two endpoints only, once per tier.
Each rank must make the same collective calls in the same order, and that order depends
on data. Sizes and samples are read before, and used after, other tiers' edits. The
greedy pass is undone on each rank from what that rank noted. Sketches fail. Vertices
hand their sketches from one list node to another. The skip lists leave updates pending in
their nodes while joins and splits merge aggregates, and cache a parent in each node; the
splay trees turn paths round lazily while heads, tails and maxima are cached. The reader
threads claim blocks of the file by one `fetch_add`, pass the query and the end of the file
together, and write the offset back. `PROJECT.json` lists these hazards at
their lines, each with the properties that cover it.

**Correctness.** `GraphTiers`, and the nodes together: answers are those of the graph
(`Connectivity`); the forests are one nested family; the top one is a forest of the
graph; nothing is isolated when an update or a batch is over; repair never disconnects;
with failing sketches answers are still sound. The nodes: collective calls match, no
message is left over, sketches hold each update once, every call returns, `end()` stops
all. Euler tour trees: the lists are Euler tours, each vertex keeps its sketch, link and
cut change the forest by the one edge. Skip lists: they are sequences, their nodes count and
sum what they stand for, no node is lost or used after it was freed. Link-cut tree: its caches
say what its pointers say, and `path_aggregate` names a heaviest edge. Readers: each update
reaches the application once, a query finds a prefix of the stream, all threads halt for it.

## The modules

| Module | Models | Uses |
|---|---|---|
| `Forests` | edges, components, joins, paths, boundaries, as operators on edge sets | |
| `DynamicTrees` | what Euler tour trees and the link-cut tree do to their forests | `Forests` |
| `Sketches` | what `sample` may return | |
| `Connectivity` | the promise of the whole program (abstract) | `Forests` |
| `GraphTiers` | `graph_tiers.cpp` | `DynamicTrees` |
| `Mpi` | queues of messages and broadcasts, both semantics of sending | |
| `Batches` | what the greedy pass and its undoing do | `DynamicTrees` |
| `InputNode`, `TierNode` | `input_node.cpp`, `tier_node.cpp`, one action per stretch between MPI calls | `Batches`, `Mpi` |
| `DynamicCC` | input node, all tiers, MPI and the driver, composed | `InputNode`, `TierNode` |
| `IsolationHistory` | `isolation_history_queue`, `isolation_count` | |
| `DynamicForest` | the promise of an Euler tour tree (abstract) | `DynamicTrees` |
| `EulerTours` | `euler_tour_tree.cpp` and its sketchless twin | `Forests` |
| `ElementLists` | the promise of the skip lists (abstract): sequences, and a sketch per vertex | |
| `SkipLists` | `skiplist.cpp` and its sketchless twin, and the part of `euler_tour_tree.cpp` that makes and deletes elements | |
| `WeightedForest` | the promise of the link-cut tree (abstract) | `DynamicTrees` |
| `LinkCutTrees` | `link_cut_tree.cpp` | `Forests` |
| `UpdateStream` | the promise of the readers (abstract) | |
| `StreamReaders` | `BinaryGraphStream_MT` of `binary_graph_stream.h` | |
| `ForestLemmas` | lemmas on graphs, natural numbers and cardinalities | `Forests` |
| `GraphTiersProofs` | proofs | `GraphTiers` |
| `ReplayProofs` | the invariant of the distributed program, and proofs | `DynamicCC` |
| `DynamicCCProofs` | proofs | `ReplayProofs` |
| `StreamReadersProofs` | proofs | `StreamReaders` |
| `EulerToursProofs` | proofs | `EulerTours` |
| `LinkCutLemmas` | lemmas on the splay trees of the link-cut tree: rotations, maxima, splaying, reversals, ends, splitting | `LinkCutTrees` |
| `LinkCutTreesProofs` | proofs: joining, exposing, everting, the calls, the queries | `LinkCutLemmas` |
| `MCGraphTiers`, `MCDynamicCC`, `MCEulerTours`, `MCSkipLists`, `MCLinkCutTrees` | instances for TLC; `MCDynamicCC` holds its `KeepsPromise` | |

The abstract specifications are the joints. `GraphTiers` and the nodes use the operators of
`DynamicTrees`, which is what `DynamicForest` (implemented by `EulerTours`) and
`WeightedForest` (implemented by `LinkCutTrees`) promise; `EulerTours` has its lists as
sequences, which is what `ElementLists` (implemented by `SkipLists`) promises.

Operators named `Slip_...` are wrong variants of the operator after them, of the kind a
slip in the code would give. No specification uses them; each property is known to fail
when one of them takes its operator's place.

**State and actions.** In `GraphTiers`, `ett[t]` is the edge set of tier `t`'s forest and
`lct` maps each edge of the link-cut tree to its weight; `graph` is what every tier's
sketches hold. `Insert` and `Delete` are `update()` up to the end of the isolation check
of `refresh()`; `Skip` and `Grow` are the iterations of the loop that follows, at the
round `(tier, side)`; `IsConnected` and `GetCC` are the queries. Nothing comes between
the rounds of one refresh, since the thread runs them without returning.

In `InputNode` and `TierNode` the control state is `pc` and the loop variables the code
has (`idx` for `update_idx`, `tier`, `side` for the endpoint, `edits` for the broadcast of
the inner loop); buffers keep their names. A step begins with the MPI call the node is at
and goes on to the next. `inp.call` is the call of the driver that waits. Buffers are
emptied where the source reads them for the last time; this makes states equal that the
program cannot tell apart.

In `SkipLists` the heap maps addresses to nodes; an address names an element, a level, and the
node or the boundary before it, so that equal lists are equal states wherever `new` puts them.
Each method is an operator on the heap that follows its loops. An action is one call:
`MakeEdge`, `DeleteEdge`, `Join`, `SplitLeft`, `SplitRight`, `UpdateSketch`, `UpdateSketches`,
and `ReadRoot`, which applies what the root's buffer holds. An Euler tour tree calls them in
the orders that link and cut need; the model allows every order of them, which has all of
those. The heights that a hash gives elements are chosen per vertex in `Init`.

In `LinkCutTrees` the methods (`Splay`, `Splice`, `Expose`, `Evert`, ...) are operators on the
function of nodes, and the actions are `Link`, `Cut`, `FindRoot` and `PathAggregate`. The
`find_root` calls in the assertions of link and cut expose paths too; they are `FindRoot` steps.

In `StreamReaders` a step of a reader is one access to a shared atomic, or a piece of code
without one; `at` names the place. The three checks before the `fetch_add` are three steps, in
their order, and so are the `fetch_add`, the comparisons behind it, and the stores that write
the offset back. The client follows the comments of the class: it registers queries while the
readers stand, asks on demand while they run, queries when each has returned `BREAKPOINT`, then
resumes.

**Connectivity without paths.** `Component(F, v)` is what every closed set that holds `v`
has in common. This needs no recursion, so the definition that TLC evaluates is the one
the proofs use. `PathEdges(F, e)` are the edges of the forest whose removal separates
`e`'s ends.

**Abstractions, and why they are sound.**

- The sketch's aggregate at a root is the set of edges that leave the tree, because an
  edge inside is added twice. `Samples(seed, tier, cut)` is a *constant operator*: the
  set of edges `sample()` may return, none when it fails. The theorems hold for every
  such operator that returns edges of the cut (`SamplesAssumption`); checksums guarantee
  that with high probability. The real `sample()` is a function of the sketch; a set is an
  over-approximation that also frees the models from the order of the buckets.
- A size in the source is the number of tour nodes of a list and its boundary node,
  `2k` for `k` vertices. Sizes are only compared for equality, so the models use `k`.
- `path_aggregate` returns some heaviest edge of the path; which of several depends on
  the shape of the splay tree, hence `\E c \in Heaviest(lct, e)`.
- The stream is legal (an edge is inserted when it is absent and deleted when it is
  present), as the graph streams of the drivers are. A self-loop never occurs.
- `bcast` at `input_node.cpp:110` names the size of `UpdateMessage` where the other ranks
  name that of `EttUpdateMessage`; the two types have the same size, and the models send
  messages whole.
- A sketch in `SkipLists` is the set of updates it has seen an odd number of times: adding is
  symmetric difference, as in the real, linear sketch.
- Offsets of the file count updates; the header is left out. Updates are their positions.
- MPI does not fail. A rank that crashes ends the program; nothing is persisted.

## The runs

| Run | Question | Properties |
|---|---|---|
| `tiers_exact` | 5 vertices, sketches that do not fail: is every answer right? | `KeepsPromise` (refinement of `Connectivity`), `RepairNeverDisconnects`, `EvictedFromAbove` |
| `tiers_lossy` | 4 vertices, sketches that fail: what still holds? | `TypeOK`, `TiersAgree`, `SpanningForest`, `NoIsolation`, `IsolationIsAhead`, `SoundAnswers` |
| `tiers_two_vertices` | 2 vertices: is every answer right? **No** | `AnswersExact` |
| `mpi_exact` | 4 vertices, 3 tiers: is every answer right, in mid-batch too? | `KeepsPromise`, `ForestsAgree` |
| `mpi_buffered` | 3 vertices, sends return at once, sketches that fail: can ranks get out of step, and what still holds? | `TypeOK`, `CollectivesMatch`, `NothingLeftOver`, `SketchesAgree`, `SpanningForest`, `NoIsolation`, `SoundAnswers` |
| `mpi_liveness` | 4 tiers, sends wait: does every call return, and `end()` stop all? | `CallsReturn`, no deadlock |
| `euler_tours` | 5 vertices: are the lists tours, and sketches where they belong? | `ToursAreTours`, `SketchesStay`, `KeepsForest` (refinement of `DynamicForest`) |
| `skip_lists` | 4 elements, 3 levels: are pointers, counts and sketches right, and nodes freed? | `TypeOK`, `WellFormed`, `Covers`, `NoLeak`, `KeepsLists` (refinement of `ElementLists`) |
| `link_cut` | 4 vertices: are caches and answers right, whatever was exposed before? | `TypeOK`, `CachesAgree`, `AggregateIsHeaviest`, `RootsTell`, `ComponentsFound`, `KeepsForest` (refinement of `WeightedForest`) |
| `readers` | 3 threads, 5 updates in blocks of 2: is each update handed out once, do queries find prefixes, do threads halt? | `TypeOK`, `OneHolder`, `KeepsPromise` (refinement of `UpdateStream`), `ReadersStop`, `StreamArrives` |
| `readers_short` | short reads: does a reader hand out its block? **No** | `ReadsItsBlock` |
| `isolation_history` | is `isolation_count` what its name says? **No** | `CountsIsolations` |

**Bounds.** Streams of edges, and sequences of calls, are of any length in every run but
`readers`: graphs, forests and buffers are finite, so no counter needs a bound. `BoundedSpec`
of `MCSkipLists` and `MCLinkCutTrees` leaves out steps to states larger than they name. What is
bounded:

- *Vertices.* Evictions need a sampled edge that closes a cycle in a higher tier. With
  the constructor's number of tiers they happen from 4 vertices on, and then with an edge
  whose weight is not the lowest possible. `tiers_exact` has 5 vertices and 3 tiers: the round of
  tier 0 may evict an edge of tier 2. Evictions that reach over several tiers need 4 tiers,
  6 vertices; the theorems cover them. For the distributed program all
  pairs of 4 vertices are too many states; `PawPairs`, a triangle with a pendant edge, is
  the smallest graph in which an update starts a round that evicts another edge than the
  one it samples, and `mpi_exact` uses it. `mpi_buffered` takes a triangle,
  because delays and failed samples rather than evictions are its subject.
- *Tiers.* Those the constructor computes for the vertices (`NumTiersFor`, `log2(n) /
  (log2(3) - 1)` truncated) in the shared-memory runs. 3 tiers are the least with a tier
  that both sends and receives sizes; 4 have an odd and an even one, and so both orders.
- *Batches* of 2 updates: one may be accepted and the next isolated, both may be, the
  batch may be cut short by a query, and its second update may delete what its first
  inserted.
- *Sketch failure.* `LossySeeds` fixes, per tier, which edges are deep: none (finds an edge
  only in a cut of one), and two that fail for some cuts.
- *Skip lists.* Heights up to 3 and boundaries of 4 levels: lists of different heights meet, in
  both orders, and boundaries are trimmed by more than one level. Two vertices with two
  elements each: a sketch is handed over to the vertex's other element or to `temp_sketch`.
  Buffers hold one update and are applied by the second. `FewNodes` allows elements and
  nodes of elements together 12 while no sketch or buffer holds anything, and 7 otherwise, which is four elements of
  two nodes, or with updates pending two elements of two and three nodes, or three of four
  nodes together.
- *Link-cut tree.* Four vertices give splay trees of four nodes with zig-zig, zig-zag and zig
  rotations, pending reversals at any of them, and up to three preferred edges to exchange. Two
  weights in forests of two edges (`FewWeights`), one in larger ones. Weights start at 1, as
  those of the tiers do.
- *Readers.* Three threads: one may write the offset back while a second is behind the query and
  a third is between its checks and its `fetch_add`. 5 updates in blocks of 2 end inside a
  block; a query may be registered at every index, one behind the end included.
  `MaxRequests` = 2 bounds registered and on-demand queries and resets together, so that two
  queries, or a query and another pass, follow each other. Offsets stay below
  `NoQuery`, as at most each thread overshoots once. The theorems have no such bounds.
- *Symmetry* of vertices where sketches do not fail and the stream has all pairs, so that
  nothing distinguishes one vertex from another, and never with a liveness property.

Deadlock is checked in every run. In `DynamicCC`, `Done` is the state in which every
`main()` has returned; any other state without a step is reported.

**What the properties mean.** Each has its explanation above it in its module. The most
telling: `KeepsPromise` says that the counting argument behind the number of tiers works
for the instance, for every stream and every choice of samples and evictions.
`IsolationIsAhead` says why one pass over the tiers is enough. `CollectivesMatch` says
that a rank never meets a broadcast with a root other than the one its code names.
`ForestsAgree` and `SketchesAgree` compare all ranks between batches and before each
update that is applied alone, right after the undoing included. They are weaker inside a
refresh, where ranks lag behind each other by design. `Covers` says of every node of a skip
list, with updates still pending anywhere, that its count and its sketch are those of the
bottom level below it; `WellFormed` that each cached parent is the one the walk to the root
needs. `AggregateIsHeaviest` and `RootsTell` ask the splay trees from every state the calls can
lead to. `OneHolder` accounts for every update of the file at every step of the threads.

## Fairness

`DynamicCC!Fairness` is weak fairness of the input node, of each tier node and of the
allreduce: a process that can go on does, and MPI completes a call whose partners have
come to it. Both are what an operating system and MPI's progress rule give. The driver is
not assumed to make a call. `CallsReturn` is checked with sending calls that wait for their
receivers, the semantics under which a wrong order of sends and receives deadlocks; MPI
allows a program to rely on no other.

`StreamReaders!Fairness` is weak fairness of each reader, which has a thread of its own and
never waits for another, and of the client's `Start`, `Query` and `Resume`: it goes on with
what it began, as the comments of the class ask it to. (No driver of the repository uses the
threaded reader.) It need not ask for a query, and need not reset. `ReadersStop` and
`StreamArrives` hold with it.

`GraphTiers`, `EulerTours`, `SkipLists` and `LinkCutTrees` are sequential; their
specifications have no fairness and no liveness property is stated of them.

## The proofs

`GraphTiersProofs` holds for any finite set of vertices (`VertexAssumption`), any number of
tiers from one (`NumTiersAssumption`) and any sketch that samples from the cut or fails
(`SamplesAssumption`). For these constants TLAPS checks:

| Theorem | Says |
|---|---|
| `TypeCorrect` | `Spec => []TypeOK` |
| `TiersAgreeAlways` | `Spec => []TiersAgree` |
| `SpanningForestAlways` | `Spec => []SpanningForest` |
| `SoundAnswersAlways` | `Spec => []SoundAnswers` |
| `RepairTheorem` | `Spec => RepairNeverDisconnects` |
| `EvictedTheorem` | `Spec => EvictedFromAbove` |
| `IsolationIsAheadAlways` | `Spec => []IsolationIsAhead` |
| `NoIsolationAlways` | `Spec => []NoIsolation` |

The theorems on answers add two assumptions, that sketches do not fail (`PerfectSketches`) and that there
are more than log2(n) tiers (`EnoughTiers`), and prove that they are what exact answers take:

| Theorem | Says |
|---|---|
| `KeepsPromiseAlways` | `Spec => KeepsPromise`: `GraphTiers` implements `Connectivity` |
| `AnswersExactAlways` | `Spec => []AnswersExact` |
| `ConstructorMakesEnough` | from three vertices on the constructor's number of tiers satisfies `EnoughTiers` |

`DynamicCCProofs` holds for the distributed program with any finite set of vertices, any number of
tiers from two, both semantics of sending (`MpiAssumption`), any size of the buffer
(`BatchSizeAssumption`), any pairs in the stream (`StreamAssumption`) and any sketch that samples
from the cut or fails:

| Theorem | Says |
|---|---|
| `KeepsInStep` | `Spec => []InStep`, the inductive invariant, at the head of module `ReplayProofs` |
| `TypeCorrect` | `Spec => []TypeOK` |
| `CollectivesMatchAlways` | `Spec => []CollectivesMatch` |
| `NothingLeftOverAlways` | `Spec => []NothingLeftOver` |
| `ForestsAgreeAlways` | `Spec => []ForestsAgree` |
| `SketchesAgreeAlways` | `Spec => []SketchesAgree` |
| `SpanningForestAlways` | `Spec => []SpanningForest` |
| `SoundAnswersAlways` | `Spec => []SoundAnswers` |
| `NoIsolationAlways` | `Spec => []NoIsolation` |
| `KeepsPromiseAlways` | `Spec => KeepsPromise`: the distributed program implements `Connectivity`, when its sketches do not fail (`PerfectSketches`) and there are more than log2(n) tiers (`EnoughTiers`) |

`EulerToursProofs` holds for any finite set of vertices:

| Theorem | Says |
|---|---|
| `ToursAreToursAlways` | `Spec => []ToursAreTours` |
| `SketchesStayAlways` | `Spec => []SketchesStay` |
| `KeepsForestAlways` | `Spec => KeepsForest`: link and cut of the tours implement `DynamicForest` |

`LinkCutTreesProofs` holds for any finite set of vertices and any set of weights (`LctAssumption`):

| Theorem | Says |
|---|---|
| `TreesAreWhole` | `Spec => []Inv`, the inductive invariant: the nodes are the splay trees of some paths, which hang in some forest |
| `NodesAlways` | `Spec => []TypeOK` |
| `CachesAgreeAlways` | `Spec => []CachesAgree` |
| `KeepsForestAlways` | `Spec => KeepsForest`: the link-cut tree implements `WeightedForest` |
| `RootsTellAlways` | `Spec => []RootsTell` |
| `AggregateIsHeaviestAlways` | `Spec => []AggregateIsHeaviest`, when no weight is 0 |
| `ComponentsFoundAlways` | `Spec => []ComponentsFound` |

`StreamReadersProofs` holds for any finite set of threads, any file and any length of a block
(`StreamAssumption`); all but `TypeCorrect` when `pread` returns what it is asked for (`~ShortReads`):

| Theorem | Says |
|---|---|
| `TypeCorrect` | `Spec => []TypeOK` |
| `OneHolderAlways` | `Spec => []OneHolder` |
| `ReadsItsBlockAlways` | `Spec => []ReadsItsBlock`, which short reads violate (run `readers_short`) |
| `KeepsPromiseAlways` | `Spec => KeepsPromise`: the readers and the client implement `UpdateStream` |

**The argument, readers.** What a reader holds is an interval of the file (`Owned`): from its
claim to the query or the block's end, then what it is to read, then what is left in its buffer.
`IInv` says that these intervals are disjoint and make up, with what was handed out, exactly what
the offset has passed below the query (`Distributed`). Alone this is not inductive. A `fetch_add` may
pass the query, so that the offset is ahead of it until a reader writes it back: `Ahead` says that
while it is, some reader is still to do so, or the query is behind the end. `Sound` ties each
place of the code to the locals and the offset: who is to write back is at or behind the query, so
that writing back never uncovers a claimed block. `Halted` says that a reader has stopped only
with a reason. `QuietStep` is the common part of all steps that move no interval; `ClaimStep`,
`HandStep`, `RegisterStep` and `ResetStep` are those that do. When all have stopped nothing is
held and the offset is not ahead (`Settled`), therefore what was handed out is a prefix: with it
`QueryMaps`, and with `HandStep` the refinement.

For `ReadsItsBlockAlways`, `Sound` has a buffer's contents in the order of the file from the claimed offset on, and
`Filled` that there are as many as the reader wants.

`TypeCorrect` has an invariant of its own, `Typed`. That the offset is bounded is not inductive:
every reader that saw it before the end may still add a block, whatever the others have added since.
`Load` counts these readers (those between the check for the end and the `fetch_add`), and the
offset with their blocks never exceeds the file and one block for each reader. With short reads the
bound on `inBuf` needs that a reader goes on reading only while `inBuf < want` (`Fits`).

**The argument, tiers.** `IInv == TypeOK /\ TiersAgree /\ SpanningForest` is inductive; no part is
without the others. Agreement survives a link only if `EulerTourNode::link` refuses on no
tier, which holds because the top forest, less the evicted edge, does not connect the new
edge's ends and every tier's forest is a part of it. That the eviction has this effect
needs the top forest to be acyclic. That the evicted edge is cut wherever it is needs the
agreement.

1. `ForestLemmas` is graph theory: components partition the vertices; adding an edge
   between two trees keeps a forest a forest (`AcyclicLink`); if every edge of the path
   between the ends of `e` is in a part of the forest, that part joins them (`PathJoins`);
   exchanging an edge of the path for `e` disconnects nothing (`ExchangeConnects`).
2. `GrowKeeps` says what a round that links does to all forests; with it
   `GrowInvariant`, and with `InsertInvariant` and `DeleteInvariant`, `Invariant`.
3. `GrowLeaves`: the sampled edge leaves its tree in the round's tier *and* in the next,
   for they are nested and of equal size (`SameSize`). Therefore (`EvictionAbove`) the
   heaviest edge of the cycle is of a tier above the next. This gives `EvictedTheorem`,
   and with the exchange lemma `RepairTheorem` (`GrowTrees`).
4. `IsolationIsAhead` is inductive relative to `IInv`. An update isolates only trees with
   an endpoint in them (`UpdateAhead`), and `StartRefresh` finds those. A round that links
   frees its own tree, and the trees it makes hold its endpoint and are of later tiers; any
   other tree that is isolated was so before, as trees of the next tier have only grown
   (`GrowAhead`). When no round is ahead, nothing is isolated: `NoIsolation`.

**The argument, answers.** A tree of tier `t` that an edge of the graph leaves has at least `2^t`
vertices (`TreesGrow` of `ForestLemmas`): nothing is isolated, so its tree on tier `t` is not its tree on tier
`t - 1`, and is made of several trees that an edge leaves as well (`Doubling`). On the top tier such
a tree, and the tree that the edge goes to, would have `2^NumTiers` vertices together, more than
there are. The top tier's trees are therefore the graph's components (`GrownConnect`). The number
of tiers is `log2(n) / (log2(3) - 1)` truncated, which the model has as an integer comparison
of powers; that it exceeds `log2(n)` from three vertices on needs `3^(k+1) <= 2^(2k+1)` for `k >= 2`
(`PowersCompare`). For two vertices it does not exceed it, and that is the violation that
`tiers_two_vertices` finds. The inductions over natural numbers go through the
lemma `Induction` of `ForestLemmas`, which a least element gives.

**The argument, Euler tours.** `IInv == Good(tours) /\ Kept(nodes, All(tours))`. A list is read as
a walk (`Walk`): each of its nodes begins at the vertex where the one before it arrived. Splitting and joining
lists parts walks and joins them (`WalkParted`, `WalkJoined`), so that `LinkedTour` and `CutTour` need no
induction. `Good` says that each list is a closed walk through one sentinel in which no node comes twice, that no two
lists have a vertex in common, and that the nodes of all lists come in pairs, one for each
direction of an edge of a forest. Alone, `ToursAreTours` is not inductive: that the twin of a
node to be deleted is in the same list, and that `link` is given two trees when it is given two
lists, follows only from the pairs and the forest. A walk along the edges stays in every closed set
(`WalkStays`); therefore a list holds one tree of the forest, all of it (`TourIsTree`), which makes
`Fragments` find the twin and gives the refinement its trees. `Kept` is about the maps and holds in the middle of
`link` and `cut` too: `temp_sketch` then holds the sketches of the vertices that have no node.
There is one at most, and the node made next is its own (`LinkStep`, `CutStep`): after `link` has deleted
the sentinel only a vertex with no edges can be without a node, and it is `v`; after `cut` has
deleted both nodes of the edge it is the vertex that gets the new sentinel.

**The argument, link-cut tree.** Nothing in the nodes says which vertices a subtree holds, and a walk down the
pointers would need induction over trees. A *layout* says it in numbers: of each vertex the head of its
path, its position on the path, the interval of positions that its subtree takes up, and whether the
reversals above it, and its own, turn it round. `Shape` says that the pointers fit a layout: intervals are disjoint or
nested, each node's children have the intervals before and behind its position, on the sides that its
flag says. A rotation changes the intervals of two nodes, pushing a reversal down changes one flag, and neither
changes the paths; cutting a path shortens intervals, joining two shifts positions, reversing one mirrors
them. So each method is a map of layouts (`Rotated`, `Parting`, `Joining`, `Flipping`, ...), and that the pointers
still fit is arithmetic.

The loops and walks of the methods are recursive functions over vertices or rounds. That a function with
such equations exists is shown by induction on the size of a subtree (for `End` and `PathOrder`, which go down), on
the depth of a node (for `CorrectReversals`, which starts at the root), or by stating it (for `Climb`, whose
walk is `Way` and ends at `Top`); what it gives, by the same inductions. The loops of `splay` and `expose` are over
within the model's bound on their rounds: each round of the one gives the vertex a larger subtree, each round of
the other brings the head of the exposed path nearer to the root of its tree.

`Sound` is `Shape`, with the preferred edges of each vertex those to its neighbours on its path, and with each
root's head and tail the ends of its path. `Caches` says of every node but a set of exceptions that its maximum is
a heaviest of its subtree's preferred edges: the method that changes a node's edges makes it an
exception, the splaying that follows takes it back. The paths hang in a forest: `up` gives the
vertex above each vertex, `B` the root of its tree, and a rank that falls on the way up shows that there is no cycle
(`Ranked`); `Carries` ties `up` to the order of each path and to `dparent` of its head. `Whole` is all of this with the
weights that both ends of an edge know, and is inductive. `Exposed` says what `expose` comes to, namely that
the path of a vertex begins at the root of its tree; `Everted` that of `evert`, which exchanges `up` for the way
up of the tree turned round, with the same edges (`TreeEdges`). `LinkKeeps` and `CutKeeps` follow: the edges become `F`
with the new one, or `F` without the old one (`Carry`).

`PathOrder` is the order of the layout (`PathOrderIs`), which gives `CachesAgree` and the forest that the
pointers have; two vertices have one root in `B` exactly when the forest connects them (`RootsAre`), which gives
`RootsTell`; the exposed path from `v` to `w` is all that a root holds, which gives `AggregateIsHeaviest`. There the
hypothesis is needed that no weight is 0: `rebuild_max` names no edge on a path whose edges all have weight 0.
The tiers' weights start at 1. For `get_cc`, each vertex seen so far knows the root
of its own tree (`Met`). The walk goes up to `parent` before it looks at a head, and a root's head is right, so it never
leaves the tree; a stale head read at an inner node only makes the walk go on where it could have stopped
(`ClimbIs`, `GetCCMeets`).

**The argument, distributed program.** Ranks lag behind each other, so no relation between two
ranks' states can be stated directly. `InStep` says that there is a *log* of all collective calls
so far, in their order: batches, the results of the allreduces, announcements, edits. A *plan* is
what a prefix of the log determines: where the program is in its batch and its refresh, the forest
with its weights, and the graph (`After` takes a plan over one entry). For each rank there
is a prefix that it has replayed: its program counter, loop variables, buffers, forest and
sketches are those of that plan (`InputFollows`, `TierFollows`), and its queue of broadcasts is the
rest of the log (`LogIs`). Why all of this is needed:

1. Only the owner of the last plan may add to the log, and only when it has replayed all of it:
   two ranks never broadcast at once. Every entry is one the code can make of that
   plan (`Legal`), and every plan is `Good`: forests are acyclic and within the graph, the rest of
   the batch is legal for it. `AfterGood` shows that a legal entry leads from a good plan to a good
   one; this is where an evicted cycle edge meets the link that follows, and where the greedy
   pass, stopped at any update, must leave a forest and its graph.
2. What the greedy pass noted allows it to be undone: `RelinkedIs` and `SketchBack` say that
   linking again what was cut, from any update on, and toggling these updates, give the forest
   and the sketches from before that update, on each tier from its own notes.
3. `MessagesFit` describes each point-to-point queue: empty, or the one message that its two ends'
   places in the code ask for, with the contents the receiver's plan expects. The samples and
   sizes in a refresh were computed from a forest that later edits change, and plans keep
   that forest (`seen`).
4. `Ahead` of each plan is what `IsolationIsAhead` is for `GraphTiers`: a tree that is isolated holds an
   endpoint of the update, and its round is still to come. A round may find an edge from sizes and
   samples that earlier rounds of other tiers have made old; that they have not
   (`StillSeen`) holds since an eviction is from above the round's tier (`EvictionAbove`). The
   greedy pass is stopped at the first update that isolates a tree anywhere, not only at its
   endpoints (`GreedyNone`), so that each refresh starts from forests with none isolated.
5. `KeepUp` bounds how far ranks are apart where a message must not overtake a broadcast: the log
   does not go past a tier's turn before that tier has come to it.

One lemma per action (in `ReplayProofs` those of the tier nodes, in `DynamicCCProofs` the others) shows that `InStep` holds after it. From
it `CollectivesMatch` follows since a queue's first entry is legal for the rank's plan, and the plan
gives the program counter; `NothingLeftOver` and the agreement of forests and sketches since ranks
that are all between batches, or all at one update, have equal plans.

For `KeepsPromise`, a query is answered when the buffer is empty and the input node has replayed all
of the log (`AtAnswer`): then no tree of the last plan is isolated, and `GrownConnect` applies to the
forests of the plan's tiers (`PlanConnects`), also while tier nodes have yet to finish the batch.
`StepMaps` shows that updates are the promise's updates when the caller makes them, the
answer is its query, and all that the nodes do in between is a stutter.

**Only model-checked:** of the distributed program, liveness (`CallsReturn`); of the readers, `ReadersStop`
and `StreamArrives`: liveness and `ENABLED` are beyond the prover. Of the skip lists everything:
`SkipLists` walks up, down and along its lists with `RECURSIVE` operators, behind which the prover has no SMT
solver, and frees and allocates nodes on the way, so that a layout would have to say for every address
whether it is in use. The finite run has boundaries and pending updates on all three levels.

## Divergences found

- **Two vertices.** `GraphTiers(2)` computes one tier. `refresh()` loops over the tiers below
  the top and so links nothing; `is_connected(0, 1)` is false after the edge is inserted.
  Run `tiers_two_vertices`. (With three, four and five vertices TLC finds no wrong answer.) The drivers of the
  distributed program would, for two vertices, start one tier node, which waits for sizes
  from a rank that does not exist; `MpiAssumption` excludes this.
- **`isolation_count`.** For the updates of a batch that precede the first isolated one
  the input node pushes `true` (isolated) and adds nothing to the count. The count then
  falls behind the queue and may become negative. The rule the count was for ("less than
  1/10 of the last updates are isolated") is switched off, so answers are not affected.
  Run `isolation_history`.
- **Short reads.** The loop of `read_data` goes on after a short `pread` at the right place of the
  file, but stores what it gets at the start of the buffer and asks for the whole length again.
  The start of the block is lost, its end is what the buffer held before. Run `readers_short`.

Seen while modelling, with no run of their own:

- `post_query_resume` sets the query index to -1 whatever stopped the readers: a registered
  query that an on-demand query overtook is forgotten, though the comment of `register_query`
  says the index will be queried. `Resume` does so, and `UpdateStream` promises no more.
- `link_cut_tree.cpp:158` starts a maximum at weight 0 and compares strictly: on a path of edges of weight 0
  `path_aggregate` names no edge. The tiers use weights from 1; `link_cut_tree_test.cpp`
  uses random ones from 0.
- `EulerTourNode::get_aggregate` returns the root's sketch without the updates pending in it. Only
  tests call it; the tiers go through `get_root` and `process_updates`, as `ReadRoot` does.

## What is not modelled

- `uninit_list` of the skip lists: nobody calls it, and it would free the last element twice.
- `validate` and printing of the link-cut tree; the allocation of its vertices.
- The sliding window of the nodes: `using_sliding_window` is assigned `false`, and its
  branches cannot be reached. `gather`, `allgather`, `barrier` and `LctQueryMessage` are not
  used.
- `BinaryGraphStream`, the reader for one thread: a buffer that is filled again when it is used up.
- A `pread` that fails, which throws in a thread and ends the program, and files shorter than
  their header says.
- Timers, canaries, output; scripts, build files; the tests themselves.

## Plan

Done: the shared-memory structure with its theorems, up to the refinement of `Connectivity`; the
distributed program with its theorems, up to the same refinement; the Euler tours with their theorems, up to the
refinement of `DynamicForest`; skip lists; the link-cut tree with its theorems, up to the refinement of `WeightedForest`; the threads that
read the stream, with their theorems. Next:

1. The skip lists, as the link-cut tree was done: their walks as recursive functions over addresses, and a
   layout that gives each node the interval of its bottom level that it covers. `Covers` and `WellFormed`
   then say that the intervals fit.
