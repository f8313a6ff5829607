------------------------------ MODULE TierNode ------------------------------
(***************************************************************************)
(* Rank t + 1, the node of tier t, src/tier_node.cpp, for every tier: it   *)
(* keeps the tier's forest and the sketches of its trees.  It applies a    *)
(* batch greedily, finds out with the others which update is the first to  *)
(* leave a tree isolated, undoes the batch from there, and then applies    *)
(* one update at a time with a refresh of all tiers after each.            *)
(*                                                                         *)
(* An action runs from one MPI call to the next.  The sliding window, that *)
(* is switched off in the source, is left out.  Buffers are emptied when   *)
(* the source has read them for the last time.                             *)
(***************************************************************************)
EXTENDS Batches, Mpi

CONSTANTS
  Seeds,            \* the random choices of the sketches
  Samples(_, _, _)  \* Samples(seed, tier, cut): the edges a tier's sketch may
                    \* return for a tree with this cut, none if it fails

ASSUME SamplesAssumption ==
  \A s \in Seeds, t \in 0 .. NumTiers - 2, cut \in SUBSET Edge :
    Samples(s, t, cut) \subseteq cut

VARIABLES
  seed,     \* the seeds of the tiers
  ett,      \* ett[t]: the forest of tier t
  sketch,   \* sketch[t]: the edges added to tier t's sketches
  node      \* node[t]: the control state of tier t's node and its buffers

tierVars == <<seed, ett, sketch, node>>

Top == NumTiers - 1

TierIdle ==
  [pc |-> "batch", updates |-> <<>>, sizes |-> <<>>, next |-> <<>>,
   good |-> <<>>, cut |-> <<>>, idx |-> 0, tier |-> 0, side |-> 1,
   edits |-> 0, ends |-> <<>>]

TierTypeOK ==
  /\ seed \in Seeds
  /\ ett \in [Tier -> SUBSET Edge]
  /\ sketch \in [Tier -> SUBSET Edge]
  /\ \A t \in Tier :
       /\ node[t].pc \in {"batch", "sizes", "sizes2", "allreduce", "undo",
                          "start", "refresh", "announce", "lct", "link",
                          "forward", "listen", "edits", "done"}
       /\ node[t].updates \in Seq(UpdateMessage)
       /\ node[t].tier \in Tier
       /\ node[t].side \in {1, 2}
       /\ node[t].edits \in 0 .. 1
       /\ node[t].idx \in 0 .. Len(node[t].updates)
       /\ Len(node[t].ends) \in {0, 2}

TierInit ==
  /\ seed \in Seeds
  /\ ett = [t \in Tier |-> {}]
  /\ sketch = [t \in Tier |-> {}]
  /\ node = [t \in Tier |-> TierIdle]

\* What the sketch at the root of v's tree may return.
Sampled(t, G, F, v) == Samples(seed, t, Boundary(G, Component(F, v)))

-----------------------------------------------------------------------------
\* Receive a batch, apply all of it, and note after each update the sizes of
\* the endpoints' trees and whether their sketches give an edge.  The top
\* tier's samples are never looked at.
ReceiveBatch(t) ==
  /\ node[t].pc = "batch"
  /\ Returned(RankOf(t))
  /\ IncomingFrom(RankOf(t), 0)
  /\ BcastReceived(RankOf(t)).kind = "batch"
  /\ ReceiveBcast(RankOf(t))
  /\ LET b == BcastReceived(RankOf(t)).updates
         F(i) == ForestAfter(ett[t], b, i)
         G(i) == SketchAfter(sketch[t], b, 1 .. i)
         size(i, v) == TreeSize(F(i), v)
         good(i, v) == t # Top /\ Sampled(t, G(i), F(i), v) # {}
     IN  /\ node' = [node EXCEPT ![t] =
              [@ EXCEPT
                !.pc = "sizes",
                !.updates = b,
                !.cut = [i \in DOMAIN b |-> Cuts(ett[t], b, i)],
                !.sizes = [i \in DOMAIN b |-> <<size(i, b[i].src),
                                                size(i, b[i].dst)>>],
                !.good = [i \in DOMAIN b |-> <<good(i, b[i].src),
                                               good(i, b[i].dst)>>]]]
         /\ ett' = [ett EXCEPT ![t] = F(Len(b))]
         /\ sketch' = [sketch EXCEPT ![t] = G(Len(b))]
  /\ UNCHANGED <<seed, p2p>>

ReceiveEnd(t) ==
  /\ node[t].pc = "batch"
  /\ Returned(RankOf(t))
  /\ IncomingFrom(RankOf(t), 0)
  /\ BcastReceived(RankOf(t)).kind = "end"
  /\ ReceiveBcast(RankOf(t))
  /\ node' = [node EXCEPT ![t].pc = "done"]
  /\ UNCHANGED <<seed, ett, sketch, p2p>>

-----------------------------------------------------------------------------
(* The sizes go down one tier.  Tier 0 only receives, the top tier only    *)
(* sends; of the others the even tiers send first, the odd receive first.  *)

SendsFirst(t) == t = Top \/ (t # 0 /\ t % 2 = 0)

SendSizes(t) ==
  /\ t # 0
  /\ node[t].pc = IF SendsFirst(t) THEN "sizes" ELSE "sizes2"
  /\ Returned(RankOf(t))
  /\ Send(RankOf(t), RankOf(t) - 1, [kind |-> "sizes", sizes |-> node[t].sizes])
  /\ node' = [node EXCEPT ![t].pc = IF t # Top /\ SendsFirst(t)
                                    THEN "sizes2" ELSE "allreduce"]
  /\ UNCHANGED <<seed, ett, sketch, bcasts>>

ReceiveSizes(t) ==
  /\ t # Top
  /\ node[t].pc = IF SendsFirst(t) THEN "sizes2" ELSE "sizes"
  /\ Returned(RankOf(t))
  /\ Incoming(RankOf(t), RankOf(t) + 1)
  /\ Receive(RankOf(t), RankOf(t) + 1)
  /\ node' = [node EXCEPT ![t].next = Received(RankOf(t), RankOf(t) + 1).sizes,
                          ![t].pc = IF t # 0 /\ ~SendsFirst(t)
                                    THEN "sizes2" ELSE "allreduce"]
  /\ UNCHANGED <<seed, ett, sketch, bcasts>>

\* Slip: the loop over the updates ends before the last one.
Slip_IsolatedUpdates(t) ==
  {i \in DOMAIN node[t].next : i < Len(node[t].next) /\ \E k \in {1, 2} :
     node[t].sizes[i][k] = node[t].next[i][k] /\ node[t].good[i][k]}

\* The updates that leave a tree of an endpoint isolated in this tier.
IsolatedUpdates(t) ==
  {i \in DOMAIN node[t].next : \E k \in {1, 2} :
     node[t].sizes[i][k] = node[t].next[i][k] /\ node[t].good[i][k]}

\* The allreduce gave every node the first isolated update of any tier.
TierReduced(t, first) ==
  IF first > Len(node[t].updates)
  THEN TierIdle
  ELSE [node[t] EXCEPT !.pc = "undo", !.idx = first,
                       !.sizes = <<>>, !.next = <<>>, !.good = <<>>]

\* Undo the updates from the first isolated one on.
TierUndo(t) ==
  /\ node[t].pc = "undo"
  /\ LET b == node[t].updates
     IN  /\ ett' = [ett EXCEPT ![t] = Relinked(@, b, node[t].cut, node[t].idx)]
         /\ sketch' = [sketch EXCEPT
                         ![t] = SketchAfter(@, b, UpdatesFrom(b, node[t].idx))]
  /\ node' = [node EXCEPT ![t].pc = "start", ![t].cut = <<>>]
  /\ UNCHANGED <<seed, mpi>>

-----------------------------------------------------------------------------
\* The next round of a refresh that node t takes part in: its own tier's, or
\* those of the two endpoints of another tier but tier 0, which has none.
EnterTier(t, state, tier) ==
  IF tier = t
  THEN [state EXCEPT !.pc = "refresh", !.tier = tier, !.side = 1]
  ELSE [state EXCEPT !.pc = "listen", !.tier = tier, !.side = 1, !.edits = 0]

NextTier(t, state) ==
  IF state.tier < Top
  THEN EnterTier(t, state, state.tier + 1)
  ELSE IF state.idx < Len(state.updates)
  THEN [state EXCEPT !.pc = "start", !.idx = @ + 1, !.tier = 0, !.side = 1,
                     !.edits = 0]
  ELSE TierIdle

\* Slip: one round per tier.
Slip_NextListen(t, state) == NextTier(t, state)

NextListen(t, state) ==
  IF state.side = 1
  THEN [state EXCEPT !.pc = "listen", !.side = 2, !.edits = 0]
  ELSE NextTier(t, state)

\* Apply update idx.
TierStartUpdate(t) ==
  LET u == node[t].updates[node[t].idx]
  IN
  /\ node[t].pc = "start"
  /\ ett' = [ett EXCEPT ![t] = IF u.type = "delete" THEN EttCut(@, EdgeOf(u))
                                                    ELSE @]
  /\ sketch' = [sketch EXCEPT ![t] = Toggle(@, EdgeOf(u))]
  /\ node' = [node EXCEPT ![t] = IF t = 0 THEN EnterTier(t, @, 0)
                                          ELSE EnterTier(t, @, 1)]
  /\ UNCHANGED <<seed, mpi>>

\* The round of the node's own tier begins with a message of the tier below,
\* or of the input node.
ReceiveRefresh(t) ==
  LET source == IF t = 0 THEN 0 ELSE RankOf(t) - 1
  IN
  /\ node[t].pc = "refresh"
  /\ Returned(RankOf(t))
  /\ Incoming(RankOf(t), source)
  /\ Receive(RankOf(t), source)
  /\ node' = [node EXCEPT ![t].ends = Received(RankOf(t), source).ends,
                          ![t].pc = IF t = 0 THEN "forward" ELSE "announce"]
  /\ UNCHANGED <<seed, ett, sketch, bcasts>>

\* Once both endpoints are done the top tier ends the refresh, the others
\* forward it.
AfterEndpoint(t, state) ==
  IF state.side = 1
  THEN [state EXCEPT !.pc = "announce", !.side = 2]
  ELSE IF t = Top
  THEN NextTier(t, [state EXCEPT !.ends = <<>>])
  ELSE [state EXCEPT !.pc = "forward"]

\* refresh_tier() for one endpoint: tell all whether its tree in the tier
\* below is isolated.
Announce(t) ==
  LET end == node[t].ends[node[t].side]
      isolated == end.size = TreeSize(ett[t], end.v) /\ end.sample # {}
  IN
  /\ node[t].pc = "announce"
  /\ Returned(RankOf(t))
  /\ IF isolated
     THEN /\ Bcast(RankOf(t), [kind |-> "isolated", edge |-> end.sample])
          /\ node' = [node EXCEPT ![t].pc = "lct"]
     ELSE /\ Bcast(RankOf(t), [kind |-> "not_isolated"])
          /\ node' = [node EXCEPT ![t] = AfterEndpoint(t, @)]
  /\ UNCHANGED <<seed, ett, sketch, p2p>>

\* The input node's answer: the edge closes a cycle, so an edge of the cycle
\* is cut first, or it closes none.
ReceiveCycle(t) ==
  /\ node[t].pc = "lct"
  /\ Returned(RankOf(t))
  /\ Incoming(RankOf(t), 0)
  /\ Receive(RankOf(t), 0)
  /\ LET m == Received(RankOf(t), 0)
     IN  IF m.connected
         THEN /\ Bcast(RankOf(t), [kind |-> "cut", edge |-> m.cycleEdge,
                                   startTier |-> m.weight])
              /\ ett' = [ett EXCEPT ![t] = IF t >= m.weight
                                           THEN EttCut(@, m.cycleEdge) ELSE @]
         ELSE UNCHANGED <<bcasts, ett>>
  /\ node' = [node EXCEPT ![t].pc = "link"]
  /\ UNCHANGED <<seed, sketch>>

LinkFound(t) ==
  LET e == node[t].ends[node[t].side].sample
  IN
  /\ node[t].pc = "link"
  /\ Returned(RankOf(t))
  /\ Bcast(RankOf(t), [kind |-> "link", edge |-> e, startTier |-> t])
  /\ ett' = [ett EXCEPT ![t] = EttLink(@, e)]
  /\ node' = [node EXCEPT ![t] = AfterEndpoint(t, @)]
  /\ UNCHANGED <<seed, sketch, p2p>>

\* Send the next tier the sizes and samples of the endpoints' trees here; {}
\* stands for a sample that is not GOOD.
EndpointChoices(t, v) ==
  LET found == Sampled(t, sketch[t], ett[t], v)
  IN  [v : {v}, size : {TreeSize(ett[t], v)},
       sample : IF found = {} THEN {{}} ELSE found]

Forward(t) ==
  LET ends == node[t].ends
  IN
  /\ node[t].pc = "forward"
  /\ Returned(RankOf(t))
  /\ \E e1 \in EndpointChoices(t, ends[1].v), e2 \in EndpointChoices(t, ends[2].v) :
       Send(RankOf(t), RankOf(t) + 1, [kind |-> "refresh", ends |-> <<e1, e2>>])
  /\ node' = [node EXCEPT ![t] = NextTier(t, [@ EXCEPT !.ends = <<>>])]
  /\ UNCHANGED <<seed, ett, sketch, bcasts>>

-----------------------------------------------------------------------------
\* A round of another tier: its announcement, then at most two edits.
Listen(t) ==
  LET root == RankOf(node[t].tier)
  IN
  /\ node[t].pc = "listen"
  /\ Returned(RankOf(t))
  /\ IncomingFrom(RankOf(t), root)
  /\ ReceiveBcast(RankOf(t))
  /\ node' = [node EXCEPT ![t] =
                IF BcastReceived(RankOf(t)).kind = "isolated"
                THEN [@ EXCEPT !.pc = "edits", !.edits = 0]
                ELSE NextListen(t, @)]
  /\ UNCHANGED <<seed, ett, sketch, p2p>>

\* Slip: the start tier itself is left out.
Slip_Edited(t, F, m) ==
  IF t <= m.startTier THEN F
  ELSE IF m.kind = "link" THEN EttLink(F, m.edge) ELSE EttCut(F, m.edge)

\* ett_update_tier(): an edit concerns the tiers from its start tier up.
Edited(t, F, m) ==
  IF t < m.startTier THEN F
  ELSE IF m.kind = "link" THEN EttLink(F, m.edge) ELSE EttCut(F, m.edge)

ReceiveTierEdit(t) ==
  LET root == RankOf(node[t].tier)
      m == BcastReceived(RankOf(t))
  IN
  /\ node[t].pc = "edits"
  /\ Returned(RankOf(t))
  /\ IncomingFrom(RankOf(t), root)
  /\ ReceiveBcast(RankOf(t))
  /\ ett' = [ett EXCEPT ![t] = Edited(t, @, m)]
  /\ node' = [node EXCEPT ![t] = IF m.kind = "cut" /\ @.edits = 0
                                 THEN [@ EXCEPT !.edits = 1]
                                 ELSE NextListen(t, @)]
  /\ UNCHANGED <<seed, sketch, p2p>>

TierStep(t) ==
  \/ ReceiveBatch(t) \/ ReceiveEnd(t) \/ SendSizes(t) \/ ReceiveSizes(t)
  \/ TierUndo(t) \/ TierStartUpdate(t)
  \/ ReceiveRefresh(t) \/ Announce(t) \/ ReceiveCycle(t) \/ LinkFound(t)
  \/ Forward(t) \/ Listen(t) \/ ReceiveTierEdit(t)
=============================================================================
