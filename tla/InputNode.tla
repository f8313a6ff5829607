----------------------------- MODULE InputNode -----------------------------
(***************************************************************************)
(* Rank 0, src/input_node.cpp: it buffers the stream's updates, broadcasts *)
(* them in batches, keeps the link-cut tree and the forest that queries    *)
(* read, and starts the refresh of every update that needs one.            *)
(*                                                                         *)
(* An action runs from one MPI call to the next.  The sliding window is    *)
(* switched off in the source (using_sliding_window = false), so its       *)
(* branches are left out; so is the history of isolated updates, which     *)
(* nothing reads (module IsolationHistory).                                *)
(***************************************************************************)
EXTENDS Batches, Mpi

CONSTANT BatchSize   \* updates the buffer holds

ASSUME BatchSizeAssumption == BatchSize \in Nat \ {0}

VARIABLES
  graph,     \* the stream's graph, with the updates still in the buffer
  lct,       \* the link-cut tree: weight of each edge of the top forest
  queryEtt,  \* the forest that answers queries
  inp,       \* the node's control state, its buffer, its place in a refresh
  answer     \* the answer to the last query, {} when an update followed it

inputVars == <<graph, lct, queryEtt, inp, answer>>

\* What the caller waits for: nothing, a query's answer, the stream's end.
NoCall == <<>>
Query(Q) == <<"query", Q>>
End == <<"end">>

\* MAX_INT of the allreduce: no update of the batch is isolated.
NoUpdate == BatchSize + 1

InputTypeOK ==
  /\ graph \subseteq Edge
  /\ DOMAIN lct \subseteq Edge
  /\ lct \in [DOMAIN lct -> 1 .. NumTiers - 1]
  /\ queryEtt \subseteq Edge
  /\ inp.pc \in {"fill", "batch", "allreduce", "undo", "start", "round",
                 "edits", "return", "done"}
  /\ inp.buffer \in Seq(UpdateMessage) /\ Len(inp.buffer) <= BatchSize
  /\ inp.undo \in Seq(0 .. NumTiers - 1)
  /\ inp.idx \in 0 .. NoUpdate
  /\ inp.tier \in Tier
  /\ inp.side \in {1, 2}
  /\ inp.edits \in 0 .. 1
  /\ answer \in SUBSET (SUBSET Vertex)

InputInit ==
  /\ graph = {}
  /\ lct = [e \in {} |-> 0]
  /\ queryEtt = {}
  /\ inp = [pc |-> "fill", buffer |-> <<>>, undo |-> <<>>, idx |-> 0,
            tier |-> 1, side |-> 1, edits |-> 0, call |-> NoCall]
  /\ answer = {}

\* Slip: the buffer is not emptied.
Slip_Finished(state) ==
  [state EXCEPT !.pc = IF state.call = NoCall THEN "fill" ELSE "return",
                !.undo = <<>>, !.idx = 0]

\* process_updates() is over: the buffer is empty and the caller goes on.
Finished(state) ==
  [state EXCEPT !.pc = IF state.call = NoCall THEN "fill" ELSE "return",
                !.buffer = <<>>, !.undo = <<>>, !.idx = 0]

-----------------------------------------------------------------------------
\* update(): the last free place of the buffer makes it process the batch.
\* The stream is legal: it deletes what is in the graph, inserts what is not.
Update(src, dst) ==
  /\ inp.pc = "fill"
  /\ src # dst
  /\ LET u == [type |-> IF {src, dst} \in graph THEN "delete" ELSE "insert",
               src |-> src, dst |-> dst]
     IN  inp' = [inp EXCEPT !.buffer = Append(@, u),
                            !.pc = IF Len(inp.buffer) + 1 = BatchSize
                                   THEN "batch" ELSE "fill"]
  /\ graph' = Toggle(graph, {src, dst})
  /\ answer' = {}
  /\ UNCHANGED <<lct, queryEtt, mpi>>

\* Slip: the call does not process the buffered updates.
Slip_Call(call) ==
  /\ inp.pc = "fill"
  /\ inp' = [inp EXCEPT !.call = call, !.pc = "return"]
  /\ UNCHANGED <<graph, lct, queryEtt, answer, mpi>>

\* connectivity_query(), cc_query() and end() begin with process_all_updates().
Call(call) ==
  /\ inp.pc = "fill"
  /\ inp' = [inp EXCEPT !.call = call,
                        !.pc = IF inp.buffer = <<>> THEN "return" ELSE "batch"]
  /\ UNCHANGED <<graph, lct, queryEtt, answer, mpi>>

\* The query, once the buffer is empty, reads the query forest.
Answer ==
  /\ inp.pc = "return"
  /\ inp.call # End
  /\ answer' = Blocks(queryEtt, inp.call[2])
  /\ inp' = [inp EXCEPT !.pc = "fill", !.call = NoCall]
  /\ UNCHANGED <<graph, lct, queryEtt, mpi>>

EndStream ==
  /\ inp.pc = "return"
  /\ inp.call = End
  /\ Returned(0)
  /\ Bcast(0, [kind |-> "end"])
  /\ inp' = [inp EXCEPT !.pc = "done"]
  /\ UNCHANGED <<graph, lct, queryEtt, answer, p2p>>

-----------------------------------------------------------------------------
\* Broadcast the batch and cut the tree edges it deletes.
StartBatch ==
  /\ inp.pc = "batch"
  /\ Returned(0)
  /\ Bcast(0, [kind |-> "batch", updates |-> inp.buffer])
  /\ LET b == inp.buffer
         forest == DOMAIN lct
         cuts == {i \in DOMAIN b : Cuts(forest, b, i)}
         cut == {EdgeOf(b[i]) : i \in cuts}
     IN  /\ inp' = [inp EXCEPT
                      !.pc = "allreduce",
                      !.undo = [i \in DOMAIN b |-> IF i \in cuts
                                                   THEN lct[EdgeOf(b[i])]
                                                   ELSE 0]]
         /\ lct' = [e \in forest \ cut |-> lct[e]]
         /\ queryEtt' = queryEtt \ cut
  /\ UNCHANGED <<graph, answer, p2p>>

\* What the allreduce returns decides: nothing is isolated and the batch is
\* done, or the updates from the first isolated one on are undone.
InputReduced(first) ==
  inp' = IF first = NoUpdate
         THEN Finished(inp)
         ELSE [inp EXCEPT !.pc = "undo", !.idx = first]

Undo ==
  /\ inp.pc = "undo"
  /\ lct' = RelinkedWeighted(lct, inp.buffer, inp.undo, inp.idx)
  /\ queryEtt' = Relinked(queryEtt, inp.buffer,
                          [i \in DOMAIN inp.undo |-> inp.undo[i] # 0], inp.idx)
  /\ inp' = [inp EXCEPT !.pc = "start"]
  /\ UNCHANGED <<graph, answer, mpi>>

\* Apply update idx and send tier 0 the refresh of its endpoints.
StartUpdate ==
  LET u == inp.buffer[inp.idx]
      cut == u.type = "delete" /\ EdgeOf(u) \in DOMAIN lct
  IN
  /\ inp.pc = "start"
  /\ Returned(0)
  /\ lct' = IF cut THEN LctCut(lct, EdgeOf(u)) ELSE lct
  /\ queryEtt' = IF cut THEN EttCut(queryEtt, EdgeOf(u)) ELSE queryEtt
  /\ Send(0, RankOf(0), [kind |-> "refresh",
                         ends |-> << [v |-> u.src], [v |-> u.dst] >>])
  /\ inp' = [inp EXCEPT !.pc = "round", !.tier = 1, !.side = 1]
  /\ UNCHANGED <<graph, answer, bcasts>>

-----------------------------------------------------------------------------
\* Slip: the last tier's rounds are left out.
Slip_HasNextTier(tier) == tier + 2 < NumTiers

HasNextTier(tier) == tier + 1 < NumTiers

\* The rounds of a refresh: each tier from 1 up, each of the two endpoints;
\* then the next update of the batch.
NextInputRound(state) ==
  LET over == [state EXCEPT !.side = 1, !.tier = 1, !.edits = 0]
  IN  IF state.side = 1
      THEN [state EXCEPT !.pc = "round", !.side = 2, !.edits = 0]
      ELSE IF HasNextTier(state.tier)
      THEN [over EXCEPT !.pc = "round", !.tier = state.tier + 1]
      ELSE IF state.idx < Len(state.buffer)
      THEN [over EXCEPT !.pc = "start", !.idx = @ + 1]
      ELSE Finished(over)

InputNotIsolated ==
  /\ inp.pc = "round"
  /\ Returned(0)
  /\ IncomingFrom(0, RankOf(inp.tier))
  /\ BcastReceived(0).kind = "not_isolated"
  /\ ReceiveBcast(0)
  /\ inp' = NextInputRound(inp)
  /\ UNCHANGED <<graph, lct, queryEtt, answer, p2p>>

\* Tell the tier whether the edge it found closes a cycle, and with which edge.
AnswerLctQuery ==
  /\ inp.pc = "round"
  /\ Returned(0)
  /\ IncomingFrom(0, RankOf(inp.tier))
  /\ BcastReceived(0).kind = "isolated"
  /\ ReceiveBcast(0)
  /\ LET e == BcastReceived(0).edge
     IN  IF Joins(DOMAIN lct, e)
         THEN \E c \in Heaviest(lct, e) :
                Send(0, RankOf(inp.tier), [kind |-> "lct", connected |-> TRUE,
                                           cycleEdge |-> c, weight |-> lct[c]])
         ELSE Send(0, RankOf(inp.tier), [kind |-> "lct", connected |-> FALSE])
  /\ inp' = [inp EXCEPT !.pc = "edits", !.edits = 0]
  /\ UNCHANGED <<graph, lct, queryEtt, answer>>

\* Slip: two edits are awaited, whatever they are.
Slip_InputLastEdit(m) == inp.edits = 1

\* The loop over the edits ends with a link or with the second one.
InputLastEdit(m) == m.kind = "link" \/ inp.edits = 1

\* The edits of a tier that found an isolated tree: a cut if the edge closes a
\* cycle, and a link.
ReceiveEdit ==
  /\ inp.pc = "edits"
  /\ Returned(0)
  /\ IncomingFrom(0, RankOf(inp.tier))
  /\ ReceiveBcast(0)
  /\ LET m == BcastReceived(0)
     IN  /\ \/ /\ m.kind = "link"
               /\ lct' = LctLink(lct, m.edge, m.startTier)
               /\ queryEtt' = EttLink(queryEtt, m.edge)
            \/ /\ m.kind = "cut"
               /\ lct' = LctCut(lct, m.edge)
               /\ queryEtt' = EttCut(queryEtt, m.edge)
         /\ inp' = IF InputLastEdit(m) THEN NextInputRound(inp)
                                       ELSE [inp EXCEPT !.edits = 1]
  /\ UNCHANGED <<graph, answer, p2p>>

\* Steps of the node itself: all but the caller's and the allreduce.
InputStep ==
  \/ Answer \/ EndStream
  \/ StartBatch \/ Undo \/ StartUpdate
  \/ InputNotIsolated \/ AnswerLctQuery \/ ReceiveEdit
=============================================================================
