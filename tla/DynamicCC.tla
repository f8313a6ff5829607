----------------------------- MODULE DynamicCC -----------------------------
(***************************************************************************)
(* The distributed program: the input node, a node per tier, and MPI       *)
(* between them.  The program that drives it (test/mpi_graph_tiers_test.   *)
(* cpp) runs in the input node's rank: it passes a legal stream, asks      *)
(* queries between updates, and ends the stream when it likes.             *)
(***************************************************************************)
EXTENDS InputNode, TierNode

CONSTANT StreamPairs   \* the pairs <<src, dst>> the stream's updates have

ASSUME StreamAssumption ==
  StreamPairs \subseteq {p \in Vertex \X Vertex : p[1] # p[2]}

vars == <<inputVars, tierVars, mpi>>

TypeOK ==
  /\ InputTypeOK
  /\ TierTypeOK
  /\ \A r, s \in Rank : \A i \in DOMAIN p2p[r][s] :
       p2p[r][s][i].kind \in {"sizes", "refresh", "lct"}
  /\ \A r \in Rank : \A i \in DOMAIN bcasts[r] :
       bcasts[r][i].root \in Rank \ {r}

Init == InputInit /\ TierInit /\ MpiInit

\* The driver's calls.
Caller ==
  /\ \/ \E p \in StreamPairs : Update(p[1], p[2])
     \/ \E a, b \in Vertex : a # b /\ Call(Query({a, b}))
     \/ Call(Query(Vertex))
     \/ Call(End)
  /\ UNCHANGED tierVars

\* MPI_Allreduce: all ranks are at it and leave with the least of their
\* values; a tier's is its first isolated update, MAX_INT for the input node.
FirstIsolated ==
  LET isolated == UNION {IsolatedUpdates(t) : t \in Tier}
  IN  CHOOSE i \in isolated \cup {NoUpdate} :
        \A j \in isolated \cup {NoUpdate} : i <= j

Allreduce ==
  /\ inp.pc = "allreduce"
  /\ \A t \in Tier : node[t].pc = "allreduce"
  /\ \A r \in Rank : Returned(r)
  /\ InputReduced(FirstIsolated)
  /\ node' = [t \in Tier |-> TierReduced(t, FirstIsolated)]
  /\ UNCHANGED <<graph, lct, queryEtt, answer, seed, ett, sketch, mpi>>

InputNext == InputStep /\ UNCHANGED tierVars

TierNext(t) == TierStep(t) /\ UNCHANGED inputVars

\* Every main() has returned.
Done ==
  /\ inp.pc = "done"
  /\ \A t \in Tier : node[t].pc = "done"
  /\ UNCHANGED vars

Next ==
  \/ Caller
  \/ InputNext
  \/ Allreduce
  \/ \E t \in Tier : TierNext(t)
  \/ Done

\* Each process goes on running while it can; the caller need not call.
Fairness ==
  /\ WF_vars(InputNext)
  /\ WF_vars(Allreduce)
  /\ \A t \in Tier : WF_vars(TierNext(t))

Spec == Init /\ [][Next]_vars /\ Fairness

-----------------------------------------------------------------------------
(* The states in which the nodes can be compared: all of them between two  *)
(* batches, or all about to apply the same update of one.                  *)

Quiet ==
  /\ inp.pc = "fill" /\ inp.buffer = <<>>
  /\ \A t \in Tier : node[t].pc = "batch"

Aligned ==
  /\ inp.pc = "start"
  /\ \A t \in Tier : node[t].pc = "start" /\ node[t].idx = inp.idx

\* The positions of the updates not applied yet in such a state.
Remaining == IF Aligned THEN inp.idx .. Len(inp.buffer) ELSE {}

\* The root of the next broadcast rank r takes part in; NumTiers + 1 when
\* another collective call, the allreduce, comes first.
NextRoot(r) ==
  LET pc == IF r = 0 THEN inp.pc ELSE node[r - 1].pc
      tier == IF r = 0 THEN inp.tier ELSE node[r - 1].tier
  IN  CASE pc \in {"round", "listen", "edits"} -> RankOf(tier)
        [] pc \in {"sizes", "sizes2", "allreduce"} -> NumTiers + 1
        [] pc \in {"undo", "start"} -> RankOf(1)
        [] pc \in {"refresh", "forward"} -> IF r = RankOf(0) \/ pc = "forward"
                                           THEN r + 1 ELSE r
        [] pc \in {"announce", "lct", "link"} -> r
        [] OTHER -> 0

-----------------------------------------------------------------------------
(* Properties.                                                             *)

\* The collective calls of all ranks come in one order: whatever the delays, a
\* rank never meets a broadcast with another root than its code names, though
\* the roots change from round to round and the number of edits a root sends
\* depends on the input node's answer.
CollectivesMatch ==
  \A r \in Rank : bcasts[r] # <<>> => Head(bcasts[r]).root = NextRoot(r)

\* No message outlives its batch: a size, refresh, answer or edit left over
\* would be taken for one of the next batch.
NothingLeftOver == Quiet => Silent

\* Between batches, and before each update of a batch that is applied one by
\* one - thus right after the undo too - the tiers' forests, the link-cut tree
\* and the query forest are one nested family, although each node cut, relinked
\* and edited its own on its own messages.
ForestsAgree ==
  /\ queryEtt = DOMAIN lct
  /\ Quiet \/ Aligned =>
       \A t \in Tier : ett[t] = {e \in DOMAIN lct : lct[e] <= t}

\* Every tier's sketches hold exactly the updates applied so far: none is lost
\* or applied twice when the greedy pass is undone and the updates redone.
SketchesAgree ==
  Quiet \/ Aligned =>
    \A t \in Tier : SketchAfter(sketch[t], inp.buffer, Remaining) = graph

\* The top forest never gets a cycle (the assertion of LinkCutTree::link), and
\* between batches has no edge the stream has deleted.
SpanningForest ==
  /\ Acyclic(DOMAIN lct)
  /\ Quiet => DOMAIN lct \subseteq graph

\* Between batches no tree of any tier is isolated: the greedy pass stopped in
\* time, and the refreshes left nothing behind.
NoIsolation ==
  Quiet => \A t \in 0 .. Top - 1, v \in Vertex :
             \/ TreeSize(ett[t], v) # TreeSize(ett[t + 1], v)
             \/ Sampled(t, sketch[t], ett[t], v) = {}

\* Queries that come in the middle of a batch, with sketches that may fail,
\* never report a connection the graph does not have.
SoundAnswers ==
  \A B \in answer : \A u, v \in B : Connected(graph, u, v)

Promise == INSTANCE Connectivity

\* With sketches that do not fail, and enough tiers, every answer is that of the
\* stream's graph at the time of the query, the updates still in the buffer included.
KeepsPromise == Promise!Spec

\* Every call of the driver returns, and end() ends the main() of every node.
CallsReturn ==
  inp.pc # "fill" ~> (inp.pc = "fill" \/ \A t \in Tier : node[t].pc = "done")

=============================================================================
