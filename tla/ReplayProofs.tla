----------------------------- MODULE ReplayProofs -----------------------------
(***************************************************************************)
(* How the nodes of DynamicCC keep in step.  All the broadcasts and        *)
(* allreduces of a run, in their order, are a log.  Each says what the     *)
(* whole program does next: a batch, the first update that needs refresh,  *)
(* an announcement, an edit.  A *plan* is what a node knows from a prefix  *)
(* of the log, and is a function of the prefix: Plan after one more entry  *)
(* is After.  Every node has replayed some prefix; its queue of broadcasts *)
(* is the rest of the log, and its state, forest and sketches are those of *)
(* its plan.  Only the owner of the last plan may add to the log, and it   *)
(* has replayed all of it.                                                 *)
(*                                                                         *)
(* This is the invariant from which the properties of DynamicCC follow;    *)
(* it is stated first.  Then: what the greedy pass over a batch and its    *)
(* undoing come to, that plans stay good along the log, and what the       *)
(* nodes' broadcasts do to the log.  A good plan's forest is a forest of   *)
(* its graph; an entry that the code can make, of a good plan, leads to a  *)
(* good plan (AfterGood).  Trees that are isolated are ahead of the plan's *)
(* round, and stay so (AfterAhead).                                        *)
(*                                                                         *)
(* Last, for every action of module TierNode, that the nodes keep in step. *)
(***************************************************************************)
EXTENDS DynamicCC, ForestLemmas, SequenceTheorems

-----------------------------------------------------------------------------
(* Plans.                                                                  *)

\* Function l gives weights to the edges of a forest.
Weighted(l) == DOMAIN l \subseteq Edge /\ l \in [DOMAIN l -> 1 .. Top]

\* The forest of tier t.
Below(l, t) == {e \in DOMAIN l : l[e] <= t}

Restricted(l, F) == [e \in F |-> l[e]]

\* From the i-th on, the updates of b are legal for the graph G: they delete
\* what is there and insert what is not.
StreamLegal(G, b, i) ==
  \A k \in i .. Len(b) :
    /\ EdgeOf(b[k]) \in Edge
    /\ b[k].type = "delete" <=> EdgeOf(b[k]) \in SketchAfter(G, b, i .. k - 1)

\* A plan: where the program is (update idx of batch b, in the refresh of tier
\* tier for endpoint side, which is to link edge), the forest with its weights
\* (L now, prev before the update, seen when the round of the tier began), and
\* the graph G with the update.
Plan(phase, b, idx, tier, side, edge, L, prev, seen, G) ==
  [phase |-> phase, b |-> b, idx |-> idx, tier |-> tier, side |-> side,
   edge |-> edge, L |-> L, prev |-> prev, seen |-> seen, G |-> G]

\* The plan between two batches.
Between(L, G) == Plan("idle", <<>>, 0, 1, 1, {}, L, L, L, G)

\* What update u does to the forest before any refresh.
CutBy(L, u) == IF u.type = "delete" THEN LctCut(L, EdgeOf(u)) ELSE L

\* The plan for update k, when the forest was L and the graph G before it.
Begin(b, k, L, G) ==
  Plan("turn", b, k, 1, 1, {}, CutBy(L, b[k]), L, CutBy(L, b[k]),
       Toggle(G, EdgeOf(b[k])))

\* The next announcement when the forest is L: of the other endpoint, of the
\* next tier, or for the next update.
NextTurn(s, L) ==
  IF s.side = 1
  THEN Plan("turn", s.b, s.idx, s.tier, 2, {}, L, s.prev, s.seen, s.G)
  ELSE IF s.tier < Top
  THEN Plan("turn", s.b, s.idx, s.tier + 1, 1, {}, L, s.prev, L, s.G)
  ELSE IF s.idx < Len(s.b)
  THEN Begin(s.b, s.idx + 1, L, s.G)
  ELSE Between(L, s.G)

\* The rank that the next entry of the log comes from.
Owner(s) ==
  IF s.phase = "idle" THEN 0
  ELSE IF s.phase \in {"turn", "edit1", "edit2"} THEN RankOf(s.tier)
  ELSE NumTiers + 1

Endpoint(s, k) == IF k = 1 THEN s.b[s.idx].src ELSE s.b[s.idx].dst

\* What the tier below tells tier s.tier of an endpoint, before either is
\* repaired.
SeenSize(s, k) == TreeSize(Below(s.seen, s.tier - 1), Endpoint(s, k))
SeenSamples(s, k) ==
  Sampled(s.tier - 1, s.G, Below(s.seen, s.tier - 1), Endpoint(s, k))

\* The endpoint whose turn it is has an isolated tree in the tier below.
Stuck(s) ==
  /\ SeenSize(s, s.side) = TreeSize(Below(s.L, s.tier), Endpoint(s, s.side))
  /\ SeenSamples(s, s.side) # {}

\* What the greedy pass finds out about update i.
SizesAfter(F, b, i) ==
  <<TreeSize(ForestAfter(F, b, i), b[i].src),
    TreeSize(ForestAfter(F, b, i), b[i].dst)>>
Sizes(F, b) == [i \in DOMAIN b |-> SizesAfter(F, b, i)]
GoodAfter(t, G, F, b, i) ==
  <<t # Top /\ Sampled(t, SketchAfter(G, b, 1 .. i), ForestAfter(F, b, i), b[i].src) # {},
    t # Top /\ Sampled(t, SketchAfter(G, b, 1 .. i), ForestAfter(F, b, i), b[i].dst) # {}>>
Goods(t, G, F, b) == [i \in DOMAIN b |-> GoodAfter(t, G, F, b, i)]

IsolatedAfter(s, i) ==
  \E t \in 0 .. Top - 1, k \in {1, 2} :
    /\ SizesAfter(Below(s.L, t), s.b, i)[k] = SizesAfter(Below(s.L, t + 1), s.b, i)[k]
    /\ GoodAfter(t, s.G, Below(s.L, t), s.b, i)[k]

\* Entry ev may follow plan s.
Legal(s, ev) ==
  /\ ev.root = Owner(s)
  /\ \/ /\ s.phase = "idle"
        /\ ev.msg.kind = "batch"
        /\ ev.msg.updates \in Seq(UpdateMessage)
        /\ Len(ev.msg.updates) \in 1 .. BatchSize
        /\ StreamLegal(s.G, ev.msg.updates, 1)
     \/ s.phase = "idle" /\ ev.msg.kind = "end"
     \/ /\ s.phase = "reduce"
        /\ ev.msg.kind = "first"
        /\ ev.msg.first \in (1 .. Len(s.b)) \cup {NoUpdate}
        /\ \A i \in 1 .. Len(s.b) : i < ev.msg.first => ~IsolatedAfter(s, i)
     \/ s.phase = "turn" /\ ev.msg.kind = "not_isolated" /\ ~Stuck(s)
     \/ /\ s.phase = "turn"
        /\ ev.msg.kind = "isolated"
        /\ Stuck(s)
        /\ ev.msg.edge \in SeenSamples(s, s.side)
     \/ /\ s.phase = "edit1"
        /\ ev.msg.kind = "cut"
        /\ ev.msg.edge \in Heaviest(s.L, s.edge)
        /\ ev.msg.startTier = s.L[ev.msg.edge]
        /\ Joins(DOMAIN s.L, s.edge)
     \/ /\ s.phase \in {"edit1", "edit2"}
        /\ ev.msg.kind = "link"
        /\ ev.msg.edge = s.edge
        /\ ev.msg.startTier = s.tier
        /\ ~Joins(DOMAIN s.L, s.edge)

\* The plan after update k of the batch in the greedy pass.
Kept(s, k) == Restricted(s.L, ForestAfter(DOMAIN s.L, s.b, k))
Applied(s, k) == SketchAfter(s.G, s.b, 1 .. k)

After(s, ev) ==
  CASE ev.msg.kind = "batch" ->
         Plan("reduce", ev.msg.updates, s.idx, s.tier, s.side, s.edge, s.L, s.prev, s.seen, s.G)
    [] ev.msg.kind = "end" ->
         Plan("end", s.b, s.idx, s.tier, s.side, s.edge, s.L, s.prev, s.seen, s.G)
    [] ev.msg.kind = "first" ->
         IF ev.msg.first = NoUpdate
         THEN Between(Kept(s, Len(s.b)), Applied(s, Len(s.b)))
         ELSE Begin(s.b, ev.msg.first, Kept(s, ev.msg.first - 1), Applied(s, ev.msg.first - 1))
    [] ev.msg.kind = "not_isolated" -> NextTurn(s, s.L)
    [] ev.msg.kind = "isolated" ->
         Plan("edit1", s.b, s.idx, s.tier, s.side, ev.msg.edge, s.L, s.prev, s.seen, s.G)
    [] ev.msg.kind = "cut" ->
         Plan("edit2", s.b, s.idx, s.tier, s.side, s.edge, LctCut(s.L, ev.msg.edge),
              s.prev, s.seen, s.G)
    [] OTHER -> NextTurn(s, LctLink(s.L, ev.msg.edge, ev.msg.startTier))

\* The plan waits for tier T's announcement of the first endpoint.
FirstTurn(s, T) == s.phase = "turn" /\ s.tier = T /\ s.side = 1

\* What holds of every plan.
Good(s) ==
  /\ s.phase \in {"idle", "reduce", "turn", "edit1", "edit2", "end"}
  /\ s.b \in Seq(UpdateMessage) /\ Len(s.b) <= BatchSize
  /\ s.tier \in 1 .. Top /\ s.side \in {1, 2}
  /\ s.idx \in 0 .. Len(s.b)
  /\ s.phase = "idle" => s.b = <<>>
  /\ s.phase \in {"idle", "reduce"} => s.idx = 0
  /\ s.phase \in {"turn", "edit1", "edit2"} => s.idx # 0
  /\ Weighted(s.L) /\ Weighted(s.prev) /\ Weighted(s.seen)
  /\ Acyclic(DOMAIN s.L) /\ Acyclic(DOMAIN s.prev)
  /\ s.G \subseteq Edge /\ DOMAIN s.L \subseteq s.G
  /\ StreamLegal(s.G, s.b, s.idx + 1)
  /\ s.idx # 0 => EdgeOf(s.b[s.idx]) \in Edge
  /\ s.phase \in {"edit1", "edit2"} => s.edge \in s.G
  /\ s.phase = "edit2" => ~Joins(DOMAIN s.L, s.edge)
  /\ s.phase = "turn" /\ s.side = 1 => s.seen = s.L
  /\ FirstTurn(s, 1) => s.L = CutBy(s.prev, s.b[s.idx])

-----------------------------------------------------------------------------
(* Isolated trees.                                                         *)

\* The tree of v in tier t is isolated when the forest is L and the graph G.
IsolatedIn(L, G, t, v) ==
  /\ TreeSize(Below(L, t), v) = TreeSize(Below(L, t + 1), v)
  /\ Sampled(t, G, Below(L, t), v) # {}

NoneIsolated(L, G) == \A t \in 0 .. Top - 1, v \in Vertex : ~IsolatedIn(L, G, t, v)

\* When the forest is L, an isolated tree holds an endpoint of the update, and
\* its round is a later one than round side of the plan's tier.
StillAhead(s, L, side) ==
  \A t \in 0 .. Top - 1, v \in Vertex :
    IsolatedIn(L, s.G, t, v) =>
      \E i \in {1, 2} :
        /\ Endpoint(s, i) \in Component(Below(L, t), v)
        /\ t >= s.tier \/ (t = s.tier - 1 /\ i > side)

\* What the tier was told when its rounds began is still so when the forest is L.
StillSeen(s, L) == Below(s.seen, s.tier - 1) = Below(L, s.tier - 1)

\* The round found the plan's edge when the forest was L.
FoundIn(s, L) ==
  LET v == Endpoint(s, s.side)
  IN  /\ IsolatedIn(L, s.G, s.tier - 1, v)
      /\ s.edge \in Sampled(s.tier - 1, s.G, Below(L, s.tier - 1), v)

\* The edge was found when the forest was L, which is the plan's but for the
\* cut of a heaviest edge of the cycle.
CutFrom(s, L) ==
  /\ Weighted(L) /\ Acyclic(DOMAIN L) /\ DOMAIN L \subseteq s.G
  /\ StillAhead(s, L, s.side - 1) /\ StillSeen(s, L) /\ FoundIn(s, L)
  /\ Joins(DOMAIN L, s.edge)
  /\ \E c \in Heaviest(L, s.edge) : s.L = LctCut(L, c)

\* Isolated trees are only in a refresh, and are still to have their rounds.
Ahead(s) ==
  /\ s.phase \in {"idle", "reduce", "end"} => NoneIsolated(s.L, s.G)
  /\ s.phase \in {"turn", "edit1"} => StillAhead(s, s.L, s.side - 1) /\ StillSeen(s, s.L)
  /\ s.phase = "edit1" => FoundIn(s, s.L)
  /\ s.phase = "edit2" => \E L : CutFrom(s, L)

-----------------------------------------------------------------------------
(* The log: n entries, plans[i] the plan after i of them, done[r] the      *)
(* number of entries that rank r has replayed.                             *)

\* The entries of the log after the d-th.
Queue(log, d, n) == [i \in 1 .. n - d |-> log[d + i]]

LogIs(n, log, plans, done) ==
  /\ n \in Nat
  /\ done \in [Rank -> 0 .. n]
  /\ \A i \in 0 .. n : Good(plans[i])
  /\ Ahead(plans[n])
  /\ \A i \in 1 .. n : Legal(plans[i - 1], log[i]) /\ plans[i] = After(plans[i - 1], log[i])
  /\ bcasts = [r \in Rank |-> Queue(log, done[r], n)]
  /\ \A r \in Rank : \A i \in done[r] + 1 .. n : log[i].root \in Rank \ {r}
  /\ n # 0 /\ log[n].root \in Rank => done[log[n].root] = n

\* The same update is refreshed, and it is the turn of a tier up to t.
NotPast(s, t) ==
  /\ s.phase \in {"turn", "edit1", "edit2"}
  /\ ~FirstTurn(s, 1)
  /\ s.tier <= t

\* How far the others may be behind: the log goes on after an update's first
\* turn, or after an edge was found, when the ranks have come so far that it
\* takes to answer; and not past the turn of a tier that has not come to it.
KeepUp(n, plans, done) ==
  /\ \A i \in 0 .. n - 1 :
       /\ FirstTurn(plans[i], 1) => done[0] >= i /\ done[RankOf(0)] >= i
       /\ plans[i].phase = "edit1" => done[0] >= i
  /\ \A t \in 1 .. Top : \A d \in done[RankOf(t)] .. n :
       FirstTurn(plans[d], 1) => \A i \in d + 1 .. n : NotPast(plans[i], t)

\* view[r] is the plan of rank r, front that of the whole log, and at[r] says
\* that rank r has replayed all of it.
Log(view, front, at) ==
  \E n, log, plans, done :
    /\ LogIs(n, log, plans, done)
    /\ KeepUp(n, plans, done)
    /\ view = [r \in Rank |-> plans[done[r]]]
    /\ front = plans[n]
    /\ at = [r \in Rank |-> done[r] = n]

-----------------------------------------------------------------------------
(* The nodes follow their plans.                                           *)

InputShape ==
  DOMAIN inp = {"pc", "buffer", "undo", "idx", "tier", "side", "edits", "call"}

InputFollows(s) ==
  /\ InputShape
  /\ inp.undo \in Seq(0 .. Top)
  /\ inp.tier \in 1 .. Top /\ inp.side \in {1, 2} /\ inp.edits \in {0, 1}
  /\ inp.call \in {NoCall, End} \cup {Query(Q) : Q \in SUBSET Vertex}
  /\ queryEtt = DOMAIN lct
  /\ graph = SketchAfter(s.G, inp.buffer, s.idx + 1 .. Len(inp.buffer))
  /\ \/ /\ inp.pc \in {"fill", "batch", "return"} /\ s.phase = "idle"
        /\ inp.buffer \in Seq(UpdateMessage) /\ Len(inp.buffer) <= BatchSize
        /\ inp.pc = "fill" => Len(inp.buffer) # BatchSize
        /\ inp.pc = "batch" => inp.buffer # <<>>
        /\ inp.pc = "return" => inp.buffer = <<>> /\ inp.call # NoCall
        /\ StreamLegal(s.G, inp.buffer, 1)
        /\ inp.idx = 0
        /\ lct = s.L
     \/ /\ inp.pc = "allreduce" /\ s.phase = "reduce"
        /\ inp.buffer = s.b /\ inp.idx = 0
        /\ lct = Restricted(s.L, ForestAfter(DOMAIN s.L, s.b, Len(s.b)))
        /\ inp.undo = [i \in DOMAIN s.b |-> IF Cuts(DOMAIN s.L, s.b, i)
                                            THEN s.L[EdgeOf(s.b[i])] ELSE 0]
     \/ /\ inp.pc = "undo" /\ FirstTurn(s, 1)
        /\ inp.buffer = s.b /\ inp.idx = s.idx
        /\ Weighted(lct) /\ DOMAIN lct \subseteq DOMAIN s.prev
        /\ RelinkedWeighted(lct, s.b, inp.undo, s.idx) = s.prev
        /\ Relinked(queryEtt, s.b, [i \in DOMAIN inp.undo |-> inp.undo[i] # 0], s.idx)
             = DOMAIN s.prev
     \/ /\ inp.pc = "start" /\ FirstTurn(s, 1)
        /\ inp.buffer = s.b /\ inp.idx = s.idx
        /\ lct = s.prev
     \/ /\ \/ inp.pc = "round" /\ s.phase = "turn"
           \/ inp.pc = "edits" /\ s.phase = IF inp.edits = 0 THEN "edit1" ELSE "edit2"
        /\ inp.buffer = s.b /\ inp.idx = s.idx
        /\ inp.tier = s.tier /\ inp.side = s.side
        /\ lct = s.L
     \/ /\ inp.pc = "done" /\ s.phase = "end"
        /\ inp.buffer = <<>> /\ inp.idx = 0
        /\ lct = s.L

NodeShape(x) == DOMAIN x = DOMAIN TierIdle

\* Tier t has received the sizes of the tier above, has sent its own.
GotSizes(t) ==
  /\ t # Top
  /\ \/ node[t].pc = "allreduce"
     \/ node[t].pc = "sizes2" /\ ~SendsFirst(t)
SentSizes(t) ==
  /\ t # 0
  /\ \/ node[t].pc = "allreduce"
     \/ node[t].pc = "sizes2" /\ SendsFirst(t)

\* What tier s.tier has been told of the endpoints; of an update that begins
\* tier 0 is told the endpoints only.
ToldEnds(s, ends) ==
  /\ ends = <<ends[1], ends[2]>>
  /\ \A k \in {1, 2} : ends[k].v = Endpoint(s, k)
ToldSizes(s, ends) ==
  /\ ToldEnds(s, ends)
  /\ \A k \in {1, 2} :
       /\ ends[k].size = SeenSize(s, k)
       /\ IF SeenSamples(s, k) = {} THEN ends[k].sample = {}
                                    ELSE ends[k].sample \in SeenSamples(s, k)

\* In the greedy pass over a batch.
TierReduces(t, s) ==
  LET x == node[t]
      F == Below(s.L, t)
  IN  /\ x.pc \in {"sizes", "sizes2", "allreduce"} /\ s.phase = "reduce"
      /\ x.pc = "sizes2" => t # 0 /\ t # Top
      /\ x.updates = s.b
      /\ x.sizes = Sizes(F, s.b)
      /\ x.good = Goods(t, s.G, F, s.b)
      /\ x.cut = [i \in DOMAIN s.b |-> Cuts(F, s.b, i)]
      /\ x.next = IF GotSizes(t) THEN Sizes(Below(s.L, t + 1), s.b) ELSE <<>>
      /\ x.idx = 0 /\ x.tier = 0 /\ x.side = 1 /\ x.edits = 0 /\ x.ends = <<>>
      /\ ett[t] = ForestAfter(F, s.b, Len(s.b))
      /\ sketch[t] = SketchAfter(s.G, s.b, 1 .. Len(s.b))

\* About to apply an update.
TierStarts(t, s) ==
  LET x == node[t]
  IN  /\ FirstTurn(s, 1)
      /\ x.updates = s.b /\ x.idx = s.idx /\ x.tier = 0 /\ x.side = 1 /\ x.edits = 0
      /\ x.ends = <<>>
      /\ \/ /\ x.pc = "undo"
            /\ Relinked(ett[t], s.b, x.cut, s.idx) = Below(s.prev, t)
            /\ ett[t] \subseteq Edge
            /\ SketchAfter(sketch[t], s.b, UpdatesFrom(s.b, s.idx))
                 = Toggle(s.G, EdgeOf(s.b[s.idx]))
            /\ sketch[t] \subseteq Edge
         \/ /\ x.pc = "start"
            /\ ett[t] = Below(s.prev, t)
            /\ sketch[t] = Toggle(s.G, EdgeOf(s.b[s.idx]))

\* In a refresh.
TierRefreshes(t, s) ==
  LET x == node[t]
  IN  /\ x.updates = s.b /\ x.idx = s.idx /\ x.edits \in {0, 1}
      /\ ett[t] = Below(s.L, t) /\ sketch[t] = s.G
      /\ \/ /\ x.pc = "refresh"
            /\ FirstTurn(s, IF t = 0 THEN 1 ELSE t)
            /\ x.tier = t /\ x.side = 1 /\ x.ends = <<>>
         \/ /\ x.pc = "forward" /\ t # Top
            /\ FirstTurn(s, t + 1)
            /\ x.tier = t /\ x.side = (IF t = 0 THEN 1 ELSE 2)
            /\ ToldEnds(s, x.ends)
         \/ /\ x.pc \in {"announce", "lct", "link"} /\ t # 0
            /\ s.phase \in CASE x.pc = "announce" -> {"turn"}
                             [] x.pc = "lct" -> {"edit1"}
                             [] x.pc = "link" -> {"edit1", "edit2"}
            /\ x.tier = t /\ s.tier = t /\ x.side = s.side
            /\ ToldSizes(s, x.ends)
            /\ x.pc # "announce" => s.edge = x.ends[s.side].sample
         \/ /\ \/ x.pc = "listen" /\ s.phase = "turn"
               \/ x.pc = "edits" /\ s.phase = IF x.edits = 0 THEN "edit1" ELSE "edit2"
            /\ x.tier = s.tier /\ x.tier # t /\ x.side = s.side
            /\ x.ends = <<>>

TierFollows(t, s) ==
  /\ NodeShape(node[t])
  /\ \/ /\ node[t] = TierIdle /\ s.phase = "idle"
        /\ ett[t] = Below(s.L, t) /\ sketch[t] = s.G
     \/ TierReduces(t, s)
     \/ TierStarts(t, s)
     \/ TierRefreshes(t, s)
     \/ /\ node[t] = [TierIdle EXCEPT !.pc = "done"] /\ s.phase = "end"
        /\ ett[t] = Below(s.L, t) /\ sketch[t] = s.G

-----------------------------------------------------------------------------
(* The messages between two ranks.                                         *)

SentRefresh(T, front, at) ==
  /\ FirstTurn(front, IF T = 0 THEN 1 ELSE T)
  /\ at[T]
  /\ IF T = 0 THEN inp.pc = "round" ELSE node[T - 1].pc = "listen"
GotRefresh(T, front, at) ==
  /\ FirstTurn(front, IF T = 0 THEN 1 ELSE T)
  /\ at[RankOf(T)]
  /\ node[T].pc \in IF T = 0 THEN {"forward", "listen"} ELSE {"announce"}

\* The queue from r to s is empty, or holds one message as described by P.
SizesSent(t, front) ==
  /\ GotSizes(t) => SentSizes(t + 1)
  /\ p2p[RankOf(t + 1)][RankOf(t)] =
       IF SentSizes(t + 1) /\ ~GotSizes(t)
       THEN << [kind |-> "sizes", sizes |-> Sizes(Below(front.L, t + 1), front.b)] >>
       ELSE <<>>

RefreshSent(T, front, at) ==
  /\ GotRefresh(T, front, at) => SentRefresh(T, front, at)
  /\ IF SentRefresh(T, front, at) /\ ~GotRefresh(T, front, at)
     THEN LET m == p2p[T][RankOf(T)][1]
          IN  /\ p2p[T][RankOf(T)] = <<m>>
              /\ m.kind = "refresh"
              /\ IF T = 0 THEN ToldEnds(front, m.ends) ELSE ToldSizes(front, m.ends)
     ELSE p2p[T][RankOf(T)] = <<>>

\* The input node's answer to tier T, where edge is announced.
CycleAnswer(L, edge, m) ==
  IF Joins(DOMAIN L, edge)
  THEN \E c \in Heaviest(L, edge) :
         m = [kind |-> "lct", connected |-> TRUE, cycleEdge |-> c, weight |-> L[c]]
  ELSE m = [kind |-> "lct", connected |-> FALSE]

AnswerSent(T, front, at) ==
  /\ node[T].pc = "link" /\ front.phase = "edit1" =>
       at[0] /\ ~Joins(DOMAIN front.L, front.edge)
  /\ IF front.phase = "edit1" /\ front.tier = T /\ at[0] /\ node[T].pc = "lct"
     THEN LET m == p2p[0][RankOf(T)][1]
          IN  p2p[0][RankOf(T)] = <<m>> /\ CycleAnswer(front.L, front.edge, m)
     ELSE p2p[0][RankOf(T)] = <<>>

OthersSilent ==
  \A r, s \in Rank :
    s # r + 1 /\ ~(r = s + 1 /\ s # 0) /\ ~(r = 0 /\ s > 1) => p2p[r][s] = <<>>

MessagesFit(front, at) ==
  /\ p2p = [r \in Rank |-> [s \in Rank |-> p2p[r][s]]]
  /\ \A t \in 0 .. Top - 1 : SizesSent(t, front)
  /\ \A T \in Tier : RefreshSent(T, front, at)
  /\ \A T \in 1 .. Top : AnswerSent(T, front, at)
  /\ OthersSilent

\* No update is refreshed before the input node and tier 0 have begun it, and no
\* tier announces before the tier below has sent it the refresh.
StartersAt(at) ==
  /\ inp.pc \in {"undo", "start"} => at[0]
  /\ node[0].pc \in {"undo", "start", "refresh"} => at[RankOf(0)]
  /\ \A t \in Tier : node[t].pc = "forward" => at[RankOf(t)]

Related(view, front, at) ==
  /\ seed \in Seeds
  /\ ett = [t \in Tier |-> ett[t]]
  /\ sketch = [t \in Tier |-> sketch[t]]
  /\ node = [t \in Tier |-> node[t]]
  /\ InputFollows(view[0])
  /\ \A t \in Tier : TierFollows(t, view[RankOf(t)])
  /\ MessagesFit(front, at)
  /\ StartersAt(at)

InStep == \E view, front, at : Log(view, front, at) /\ Related(view, front, at)

-----------------------------------------------------------------------------
(* Batches: sketches.                                                      *)

\* The updates of e at the positions S.
Touching(b, S, e) == {i \in S : EdgeOf(b[i]) = e}

\* An edge is in the sketch when it was before and an even number of updates touched it, or was not
\* and an odd number did.
LEMMA SketchMember ==
  ASSUME NEW G, NEW b, NEW S, NEW e \in Edge
  PROVE  e \in SketchAfter(G, b, S)
           <=> (e \in G <=> Cardinality(Touching(b, S, e)) % 2 = 0)
BY DEF SketchAfter, Touching

\* A sketch holds edges only.
LEMMA SketchInEdge ==
  ASSUME NEW G, NEW b, NEW S
  PROVE  SketchAfter(G, b, S) \in SUBSET Edge
BY DEF SketchAfter

\* Finitely many updates touch an edge.
LEMMA TouchingFinite ==
  ASSUME NEW b, NEW S, IsFiniteSet(S), NEW e
  PROVE  IsFiniteSet(Touching(b, S, e)) /\ Cardinality(Touching(b, S, e)) \in Nat
<1>1. Touching(b, S, e) \in SUBSET S
  BY DEF Touching
<1> QED
  BY <1>1, FS_Subset, FS_CardinalityType

\* The parity of a sum.
LEMMA Parity ==
  ASSUME NEW a \in Nat, NEW c \in Nat
  PROVE  (a + c) % 2 = 0 <=> (a % 2 = 0 <=> c % 2 = 0)
OBVIOUS

\* Updates of separate positions, one set after the other.
LEMMA SketchUnion ==
  ASSUME NEW G, NEW b, NEW S, IsFiniteSet(S), NEW T, IsFiniteSet(T), S \cap T = {}
  PROVE  SketchAfter(SketchAfter(G, b, S), b, T) = SketchAfter(G, b, S \cup T)
<1>1. ASSUME NEW e \in Edge
      PROVE  e \in SketchAfter(SketchAfter(G, b, S), b, T) <=> e \in SketchAfter(G, b, S \cup T)
  <2>1. /\ Touching(b, S \cup T, e) = Touching(b, S, e) \cup Touching(b, T, e)
        /\ Touching(b, S, e) \cap Touching(b, T, e) = {}
    BY DEF Touching
  <2>2. PICK m \in Nat, k \in Nat : m = Cardinality(Touching(b, S, e)) /\ k = Cardinality(Touching(b, T, e))
    BY TouchingFinite
  <2>3. Cardinality(Touching(b, S \cup T, e)) = m + k
    <3>1. Cardinality(Touching(b, S, e) \cap Touching(b, T, e)) = 0
      BY <2>1, FS_EmptySet
    <3>2. IsFiniteSet(Touching(b, S, e)) /\ IsFiniteSet(Touching(b, T, e))
      BY TouchingFinite
    <3>3. Cardinality(Touching(b, S \cup T, e)) = m + k - 0
      BY <2>1, <2>2, <3>1, <3>2, FS_Union, Zenon
    <3> QED
      BY <3>3
  <2>4. (m + k) % 2 = 0 <=> (m % 2 = 0 <=> k % 2 = 0)
    BY Parity
  <2>5. e \in SketchAfter(G, b, S \cup T) <=> (e \in G <=> (m + k) % 2 = 0)
    BY <2>3, SketchMember
  <2>6. e \in SketchAfter(G, b, S) <=> (e \in G <=> m % 2 = 0)
    BY <2>2, SketchMember
  <2>7. e \in SketchAfter(SketchAfter(G, b, S), b, T)
          <=> (e \in SketchAfter(G, b, S) <=> k % 2 = 0)
    BY <2>2, SketchMember
  <2> QED
    BY <2>4, <2>5, <2>6, <2>7
<1> QED
  BY <1>1, SketchInEdge

\* No updates leave a sketch as it is.
LEMMA SketchEmpty ==
  ASSUME NEW G \in SUBSET Edge, NEW b
  PROVE  SketchAfter(G, b, {}) = G
<1>1. ASSUME NEW e \in Edge
      PROVE  e \in SketchAfter(G, b, {}) <=> e \in G
  <2>1. Cardinality(Touching(b, {}, e)) = 0
    BY FS_EmptySet DEF Touching
  <2> QED
    BY <2>1, SketchMember
<1> QED
  BY <1>1, SketchInEdge

\* Updates applied twice have no effect.
LEMMA SketchTwice ==
  ASSUME NEW G \in SUBSET Edge, NEW b, NEW S, IsFiniteSet(S)
  PROVE  SketchAfter(SketchAfter(G, b, S), b, S) = G
<1>1. ASSUME NEW e \in Edge
      PROVE  e \in SketchAfter(SketchAfter(G, b, S), b, S) <=> e \in G
  BY SketchMember
<1> QED
  BY <1>1, SketchInEdge

\* Taking back the updates at T leaves those at S.
LEMMA SketchBack ==
  ASSUME NEW G \in SUBSET Edge, NEW b, NEW S, IsFiniteSet(S), NEW T, IsFiniteSet(T),
         S \cap T = {}
  PROVE  SketchAfter(SketchAfter(G, b, S \cup T), b, T) = SketchAfter(G, b, S)
<1>1. SketchAfter(G, b, S \cup T) = SketchAfter(SketchAfter(G, b, S), b, T)
  BY SketchUnion
<1> QED
  BY <1>1, SketchTwice, SketchInEdge

\* One update toggles its edge.
LEMMA SketchOne ==
  ASSUME NEW G \in SUBSET Edge, NEW b, NEW i, EdgeOf(b[i]) \in Edge
  PROVE  SketchAfter(G, b, {i}) = Toggle(G, EdgeOf(b[i]))
<1>1. ASSUME NEW e \in Edge
      PROVE  e \in SketchAfter(G, b, {i}) <=> e \in Toggle(G, EdgeOf(b[i]))
  <2>1. CASE e = EdgeOf(b[i])
    <3>1. Touching(b, {i}, e) = {i}
      BY <2>1 DEF Touching
    <3>2. Cardinality(Touching(b, {i}, e)) = 1
      BY <3>1, FS_Singleton
    <3> QED
      BY <2>1, <3>2, SketchMember DEF Toggle
  <2>2. CASE e # EdgeOf(b[i])
    <3>1. Touching(b, {i}, e) = {}
      BY <2>2 DEF Touching
    <3>2. Cardinality(Touching(b, {i}, e)) = 0
      BY <3>1, FS_EmptySet
    <3> QED
      BY <2>2, <3>2, SketchMember DEF Toggle
  <2> QED
    BY <2>1, <2>2
<1>2. Toggle(G, EdgeOf(b[i])) \in SUBSET Edge
  BY DEF Toggle
<1> QED
  BY <1>1, <1>2, SketchInEdge

\* One more update.
LEMMA SketchNext ==
  ASSUME NEW G \in SUBSET Edge, NEW b, NEW S, IsFiniteSet(S), NEW i, i \notin S,
         EdgeOf(b[i]) \in Edge
  PROVE  SketchAfter(G, b, S \cup {i}) = Toggle(SketchAfter(G, b, S), EdgeOf(b[i]))
<1>1. IsFiniteSet({i}) /\ S \cap {i} = {}
  BY FS_Singleton
<1>2. SketchAfter(G, b, S \cup {i}) = SketchAfter(SketchAfter(G, b, S), b, {i})
  BY <1>1, SketchUnion
<1> QED
  BY <1>2, SketchOne, SketchInEdge

\* Only the updates at the positions count.
LEMMA SketchSame ==
  ASSUME NEW G, NEW b, NEW c, NEW S, \A i \in S : b[i] = c[i]
  PROVE  SketchAfter(G, b, S) = SketchAfter(G, c, S)
<1>1. \A e : Touching(b, S, e) = Touching(c, S, e)
  BY DEF Touching
<1>2. \A e \in Edge : e \in SketchAfter(G, b, S) <=> e \in SketchAfter(G, c, S)
  BY <1>1, SketchMember
<1> QED
  BY <1>2, SketchInEdge

\* Toggling an edge twice takes it back.
LEMMA ToggleTwice ==
  ASSUME NEW G, NEW e
  PROVE  Toggle(Toggle(G, e), e) = G
BY DEF Toggle

\* An interval is finite.
LEMMA IntervalFinite ==
  ASSUME NEW i \in Int, NEW j \in Int
  PROVE  IsFiniteSet(i .. j)
BY FS_Interval
-----------------------------------------------------------------------------
(* Forests.                                                                *)

\* No updates leave a forest as it is.
LEMMA ForestAfterNone ==
  ASSUME NEW F, NEW b
  PROVE  ForestAfter(F, b, 0) = F
BY DEF ForestAfter

\* The greedy pass links no edge.
LEMMA ForestAfterIn ==
  ASSUME NEW F, NEW b, NEW i
  PROVE  ForestAfter(F, b, i) \subseteq F
BY DEF ForestAfter

\* More updates leave fewer edges.
LEMMA ForestAfterLess ==
  ASSUME NEW F, NEW b, NEW i \in Int, NEW j \in Int, i <= j
  PROVE  ForestAfter(F, b, j) \subseteq ForestAfter(F, b, i)
BY DEF ForestAfter

\* What one more update does to the forest.
LEMMA ForestAfterNext ==
  ASSUME NEW F, NEW b, NEW i \in Nat \ {0}
  PROVE  ForestAfter(F, b, i) = IF b[i].type = "delete"
                                THEN ForestAfter(F, b, i - 1) \ {EdgeOf(b[i])}
                                ELSE ForestAfter(F, b, i - 1)
<1>1. 1 .. i = (1 .. i - 1) \cup {i}
  OBVIOUS
<1> QED
  BY <1>1 DEF ForestAfter

\* The edges that updates k .. i cut.
CutsFrom(F, b, k, i) == {EdgeOf(b[j]) : j \in {j \in k .. i : Cuts(F, b, j)}}

\* Nothing is cut by no updates.
LEMMA CutsFromNone ==
  ASSUME NEW F, NEW b, NEW k \in Int
  PROVE  CutsFrom(F, b, k, k - 1) = {}
BY DEF CutsFrom

\* What one more update cuts.
LEMMA CutsFromNext ==
  ASSUME NEW F, NEW b, NEW k \in Int, NEW i \in Int, k <= i
  PROVE  CutsFrom(F, b, k, i) = IF Cuts(F, b, i)
                                THEN CutsFrom(F, b, k, i - 1) \cup {EdgeOf(b[i])}
                                ELSE CutsFrom(F, b, k, i - 1)
<1>1. k .. i = (k .. i - 1) \cup {i}
  OBVIOUS
<1> QED
  BY <1>1 DEF CutsFrom

\* A forest before the updates from k on is what is left after them and what
\* they cut: the first of them that deletes an edge of it cuts it.
LEMMA CutsRestore ==
  ASSUME NEW F, NEW b \in Seq(UpdateMessage), NEW k \in 1 .. Len(b)
  PROVE  /\ ForestAfter(F, b, Len(b)) \cup CutsFrom(F, b, k, Len(b)) = ForestAfter(F, b, k - 1)
         /\ \A i \in k - 1 .. Len(b) : CutsFrom(F, b, k, i) \subseteq F
<1>0. Len(b) \in Nat /\ k \in Nat
  OBVIOUS
<1>1. ASSUME NEW e \in ForestAfter(F, b, k - 1), e \notin ForestAfter(F, b, Len(b))
      PROVE  e \in CutsFrom(F, b, k, Len(b))
  <2> DEFINE T == {j \in k .. Len(b) : b[j].type = "delete" /\ EdgeOf(b[j]) = e}
  <2>1. T # {} /\ T \in SUBSET Nat
    BY <1>0, <1>1 DEF ForestAfter
  <2> HIDE DEF T
  <2>2. PICK m \in T : \A j \in T : m <= j
    BY <2>1, LeastElement
  <2> USE DEF T
  <2>3. e \in ForestAfter(F, b, m - 1)
    BY <1>0, <1>1, <2>2 DEF ForestAfter
  <2>4. Cuts(F, b, m)
    BY <2>2, <2>3 DEF Cuts
  <2> QED
    BY <2>2, <2>4 DEF CutsFrom
<1>2. ASSUME NEW j \in k .. Len(b), Cuts(F, b, j)
      PROVE  EdgeOf(b[j]) \in ForestAfter(F, b, k - 1)
  <2>1. ForestAfter(F, b, j - 1) \subseteq ForestAfter(F, b, k - 1)
    BY <1>0, ForestAfterLess
  <2> QED
    BY <1>2, <2>1 DEF Cuts
<1>3. CutsFrom(F, b, k, Len(b)) \subseteq ForestAfter(F, b, k - 1)
  BY <1>2 DEF CutsFrom
<1>4. ForestAfter(F, b, Len(b)) \subseteq ForestAfter(F, b, k - 1)
  BY <1>0, ForestAfterLess
<1>5. ASSUME NEW i \in k - 1 .. Len(b)
      PROVE  CutsFrom(F, b, k, i) \subseteq F
  <2>1. CutsFrom(F, b, k, i) \subseteq CutsFrom(F, b, k, Len(b))
    BY <1>0 DEF CutsFrom
  <2> QED
    BY <1>3, <2>1, ForestAfterIn
<1> QED
  BY <1>1, <1>3, <1>4, <1>5
\* Undoing: the edges that updates k .. Len(b) cut are linked again, none of
\* the links is refused.
LEMMA RelinkedIs ==
  ASSUME NEW F \in SUBSET Edge, Acyclic(F), NEW b \in Seq(UpdateMessage), NEW k \in 1 .. Len(b)
  PROVE  Relinked(ForestAfter(F, b, Len(b)), b, [i \in DOMAIN b |-> Cuts(F, b, i)], k)
           = ForestAfter(F, b, k - 1)
<1> DEFINE F0 == ForestAfter(F, b, Len(b))
           cut == [i \in DOMAIN b |-> Cuts(F, b, i)]
           Step(f, i) == IF i < k THEN F0
                         ELSE IF cut[i] THEN EttLink(f[i - 1], EdgeOf(b[i])) ELSE f[i - 1]
           g == [i \in k - 1 .. Len(b) |-> F0 \cup CutsFrom(F, b, k, i)]
<1>0. Len(b) \in Nat /\ k \in Nat /\ k >= 1 /\ k <= Len(b) /\ DOMAIN b = 1 .. Len(b)
  OBVIOUS
<1>1. \A i \in k - 1 .. Len(b) : CutsFrom(F, b, k, i) \subseteq F
  BY CutsRestore
<1>2. F0 \subseteq F
  BY ForestAfterIn
<1>3. ASSUME NEW H \in SUBSET F, NEW e \in F
      PROVE  EttLink(H, e) = H \cup {e}
  <2>1. CASE e \in H
    BY <2>1 DEF EttLink
  <2>2. CASE e \notin H
    <3>1. H \subseteq F \ {e} /\ ~Joins(F \ {e}, e)
      BY <2>2 DEF Acyclic
    <3>2. ~Joins(H, e)
      BY <3>1, JoinsMonotone
    <3> QED
      BY <3>2 DEF EttLink
  <2> QED
    BY <2>1, <2>2
<1>4. ASSUME NEW i \in k - 1 .. Len(b)
      PROVE  g[i] = Step(g, i)
  <2>1. CASE i < k
    <3>1. i = k - 1
      BY <1>0, <2>1
    <3> QED
      BY <1>0, <2>1, <3>1, CutsFromNone
  <2>2. CASE ~(i < k)
    <3>1. /\ i - 1 \in k - 1 .. Len(b) /\ i \in DOMAIN b /\ k <= i
          /\ g[i] = F0 \cup CutsFrom(F, b, k, i)
          /\ g[i - 1] = F0 \cup CutsFrom(F, b, k, i - 1)
      BY <1>0, <2>2
    <3>2. CASE Cuts(F, b, i)
      <4>1. EdgeOf(b[i]) \in F
        BY <3>2, ForestAfterIn DEF Cuts
      <4>2. g[i - 1] \subseteq F
        BY <1>1, <1>2, <3>1
      <4>3. EttLink(g[i - 1], EdgeOf(b[i])) = g[i - 1] \cup {EdgeOf(b[i])}
        BY <1>3, <4>1, <4>2
      <4>4. g[i] = g[i - 1] \cup {EdgeOf(b[i])}
        BY <1>0, <3>1, <3>2, CutsFromNext
      <4> HIDE DEF g
      <4> QED
        BY <2>2, <3>1, <3>2, <4>3, <4>4
    <3>3. CASE ~Cuts(F, b, i)
      <4>1. g[i] = g[i - 1]
        BY <1>0, <3>1, <3>3, CutsFromNext
      <4> HIDE DEF g
      <4> QED
        BY <2>2, <3>1, <3>3, <4>1
    <3> QED
      BY <3>2, <3>3
  <2> QED
    BY <2>1, <2>2
<1>5. g = [i \in k - 1 .. Len(b) |-> Step(g, i)]
  <2>1. g = [i \in k - 1 .. Len(b) |-> g[i]]
    OBVIOUS
  <2> HIDE DEF g, Step
  <2> QED
    BY <1>4, <2>1
<1> DEFINE f == CHOOSE f : f = [i \in k - 1 .. Len(b) |-> Step(f, i)]
<1>6. f = [i \in k - 1 .. Len(b) |-> Step(f, i)]
  <2>1. \E h : h = [i \in k - 1 .. Len(b) |-> Step(h, i)]
    <3> HIDE DEF g, Step
    <3> QED
      BY <1>5
  <2> QED
    BY <2>1, Zenon
<1> HIDE DEF f
<1>7. \A i \in k - 1 .. Len(b) : f[i] = g[i]
  <2> DEFINE T == {i \in Nat : i \in k - 1 .. Len(b) => f[i] = g[i]}
  <2>0. \A i \in k - 1 .. Len(b) : f[i] = Step(f, i)
    <3> HIDE DEF Step
    <3> QED
      BY <1>6
  <2>1. \A i \in k - 1 .. Len(b) : i < k => f[i] = g[i]
    BY <1>4, <2>0
  <2> HIDE DEF g, Step
  <2>2. 0 \in T
    BY <1>0, <2>1
  <2>3. ASSUME NEW i \in Nat, i \in T
        PROVE  i + 1 \in T
    <3>1. SUFFICES ASSUME i + 1 \in k - 1 .. Len(b), ~(i + 1 < k)
                   PROVE  f[i + 1] = g[i + 1]
      BY <2>1
    <3>2. i \in k - 1 .. Len(b) /\ (i + 1) - 1 = i
      BY <1>0, <3>1
    <3>3. f[i] = g[i]
      BY <2>3, <3>2
    <3>4. Step(f, i + 1) = Step(g, i + 1)
      BY <3>1, <3>2, <3>3 DEF Step
    <3> QED
      BY <1>4, <2>0, <3>1, <3>4
  <2> HIDE DEF T
  <2>4. \A i \in Nat : i \in T
    BY <2>2, <2>3, Induction, Zenon
  <2> QED
    BY <1>0, <2>4 DEF T
<1>8. f[Len(b)] = ForestAfter(F, b, k - 1)
  <2>1. Len(b) \in k - 1 .. Len(b) /\ g[Len(b)] = F0 \cup CutsFrom(F, b, k, Len(b))
    BY <1>0
  <2> HIDE DEF g
  <2> QED
    BY <1>7, <2>1, CutsRestore
<1> QED
  BY <1>8, Zenon DEF Relinked, f

\* The same for the link-cut tree, whose edges get back their weights.
\* What a link-cut tree has left of the weights l after i updates of b, and the
\* weights of the edges that are cut.
WeightsAfter(l, b, i) == [e \in ForestAfter(DOMAIN l, b, i) |-> l[e]]
CutWeights(l, b) == [i \in DOMAIN b |-> IF Cuts(DOMAIN l, b, i) THEN l[EdgeOf(b[i])] ELSE 0]

\* Undoing the pass from update k on restores the link-cut tree, with its weights.
LEMMA RelinkedWeightedIs ==
  ASSUME NEW l, l \in [DOMAIN l -> Nat \ {0}],
         NEW b \in Seq(UpdateMessage), NEW k \in 1 .. Len(b)
  PROVE  RelinkedWeighted(WeightsAfter(l, b, Len(b)), b, CutWeights(l, b), k)
           = WeightsAfter(l, b, k - 1)
<1> DEFINE F == DOMAIN l
           F0 == ForestAfter(F, b, Len(b))
           l0 == [e \in F0 |-> l[e]]
           weights == [i \in DOMAIN b |-> IF Cuts(F, b, i) THEN l[EdgeOf(b[i])] ELSE 0]
           Step(f, i) == IF i < k THEN l0
                         ELSE IF weights[i] # 0
                         THEN LctLink(f[i - 1], EdgeOf(b[i]), weights[i])
                         ELSE f[i - 1]
           Part(H) == [e \in H |-> l[e]]
           g == [i \in k - 1 .. Len(b) |-> Part(F0 \cup CutsFrom(F, b, k, i))]
<1>0. Len(b) \in Nat /\ k \in Nat /\ k >= 1 /\ k <= Len(b) /\ DOMAIN b = 1 .. Len(b)
  OBVIOUS
<1>2. F0 \subseteq F
  BY ForestAfterIn
<1>3. ASSUME NEW H, NEW e
      PROVE  LctLink(Part(H), e, l[e]) = Part(H \cup {e})
  BY DEF LctLink
<1>4. ASSUME NEW i \in k - 1 .. Len(b)
      PROVE  g[i] = Step(g, i)
  <2>1. CASE i < k
    <3>1. i = k - 1
      BY <1>0, <2>1
    <3>2. F0 \cup CutsFrom(F, b, k, i) = F0
      BY <1>0, <3>1, CutsFromNone
    <3> QED
      BY <2>1, <3>2
  <2>2. CASE ~(i < k)
    <3>1. /\ i - 1 \in k - 1 .. Len(b) /\ i \in DOMAIN b /\ k <= i
          /\ g[i] = Part(F0 \cup CutsFrom(F, b, k, i))
          /\ g[i - 1] = Part(F0 \cup CutsFrom(F, b, k, i - 1))
      BY <1>0, <2>2
    <3>2. CASE Cuts(F, b, i)
      <4>1. EdgeOf(b[i]) \in F
        BY <3>2, ForestAfterIn DEF Cuts
      <4>2. weights[i] = l[EdgeOf(b[i])] /\ weights[i] # 0
        BY <3>1, <3>2, <4>1
      <4>3. F0 \cup CutsFrom(F, b, k, i) = (F0 \cup CutsFrom(F, b, k, i - 1)) \cup {EdgeOf(b[i])}
        <5> HIDE DEF F, F0, g, weights
        <5>1. i \in Int /\ k \in Int
          BY <1>0
        <5>2. CutsFrom(F, b, k, i) = CutsFrom(F, b, k, i - 1) \cup {EdgeOf(b[i])}
          BY <3>1, <3>2, <5>1, CutsFromNext, Zenon
        <5> QED
          BY <5>2
      <4> HIDE DEF g, Part, weights, F0
      <4>4. LctLink(g[i - 1], EdgeOf(b[i]), weights[i]) = g[i]
        BY <1>3, <3>1, <4>2, <4>3
      <4> QED
        BY <2>2, <4>2, <4>4
    <3>3. CASE ~Cuts(F, b, i)
      <4>1. weights[i] = 0
        BY <3>1, <3>3
      <4>2. CutsFrom(F, b, k, i) = CutsFrom(F, b, k, i - 1)
        <5> HIDE DEF F, F0, g, weights
        <5>1. i \in Int /\ k \in Int
          BY <1>0
        <5> QED
          BY <3>1, <3>3, <5>1, CutsFromNext, Zenon
      <4> HIDE DEF g, Part, weights, F0
      <4> QED
        BY <2>2, <3>1, <4>1, <4>2
    <3> QED
      BY <3>2, <3>3
  <2> QED
    BY <2>1, <2>2
<1>5. g = [i \in k - 1 .. Len(b) |-> Step(g, i)]
  <2>1. g = [i \in k - 1 .. Len(b) |-> g[i]]
    OBVIOUS
  <2> HIDE DEF g, Step
  <2> QED
    BY <1>4, <2>1
<1> DEFINE f == CHOOSE f : f = [i \in k - 1 .. Len(b) |-> Step(f, i)]
<1>6. f = [i \in k - 1 .. Len(b) |-> Step(f, i)]
  <2>1. \E h : h = [i \in k - 1 .. Len(b) |-> Step(h, i)]
    <3> HIDE DEF g, Step
    <3> QED
      BY <1>5
  <2> QED
    BY <2>1, Zenon
<1> HIDE DEF f
<1>7. \A i \in k - 1 .. Len(b) : f[i] = g[i]
  <2> DEFINE T == {i \in Nat : i \in k - 1 .. Len(b) => f[i] = g[i]}
  <2>0. \A i \in k - 1 .. Len(b) : f[i] = Step(f, i)
    <3> HIDE DEF Step
    <3> QED
      BY <1>6
  <2>1. \A i \in k - 1 .. Len(b) : i < k => f[i] = g[i]
    <3> HIDE DEF g
    <3> QED
      BY <1>4, <2>0
  <2> HIDE DEF g, Step
  <2>2. 0 \in T
    BY <1>0, <2>1
  <2>3. ASSUME NEW i \in Nat, i \in T
        PROVE  i + 1 \in T
    <3>1. SUFFICES ASSUME i + 1 \in k - 1 .. Len(b), ~(i + 1 < k)
                   PROVE  f[i + 1] = g[i + 1]
      BY <2>1
    <3>2. i \in k - 1 .. Len(b) /\ (i + 1) - 1 = i
      BY <1>0, <3>1
    <3>3. f[i] = g[i]
      BY <2>3, <3>2
    <3>4. Step(f, i + 1) = Step(g, i + 1)
      <4> HIDE DEF weights, l0
      <4> QED
        BY <3>1, <3>2, <3>3 DEF Step
    <3> QED
      BY <1>4, <2>0, <3>1, <3>4
  <2> HIDE DEF T
  <2>4. \A i \in Nat : i \in T
    BY <2>2, <2>3, Induction, Zenon
  <2> QED
    BY <1>0, <2>4 DEF T
<1>8. f[Len(b)] = Part(ForestAfter(F, b, k - 1))
  <2>1. Len(b) \in k - 1 .. Len(b) /\ g[Len(b)] = Part(F0 \cup CutsFrom(F, b, k, Len(b)))
    BY <1>0
  <2> HIDE DEF g, Part
  <2> QED
    BY <1>7, <2>1, CutsRestore
<1> QED
  BY <1>8, Zenon DEF RelinkedWeighted, f, WeightsAfter, CutWeights

\* The numbers of tiers and ranks.
LEMMA TopIs == Top \in Nat \ {0} /\ NumTiers = Top + 1 /\ Tier = 0 .. Top /\ Rank = 0 .. NumTiers
BY MpiAssumption DEF Top, Tier, Rank

-----------------------------------------------------------------------------
(* Forests with weights.                                                   *)

\* A cut takes the edge from every tier's forest.
LEMMA WeightedCut ==
  ASSUME NEW l, Weighted(l), NEW e
  PROVE  /\ Weighted(LctCut(l, e))
         /\ DOMAIN LctCut(l, e) = DOMAIN l \ {e}
         /\ \A t : Below(LctCut(l, e), t) = Below(l, t) \ {e}
BY DEF Weighted, LctCut, Below

\* A link adds the edge to the forests of its tier and those above.
LEMMA WeightedLink ==
  ASSUME NEW l, Weighted(l), NEW e \in Edge, NEW w \in 1 .. Top
  PROVE  /\ Weighted(LctLink(l, e, w))
         /\ DOMAIN LctLink(l, e, w) = DOMAIN l \cup {e}
         /\ e \notin DOMAIN l =>
              \A t \in Tier : Below(LctLink(l, e, w), t)
                = IF w <= t THEN Below(l, t) \cup {e} ELSE Below(l, t)
BY TopIs DEF Weighted, LctLink, Below

\* A part of a forest with the same weights.
LEMMA WeightedPart ==
  ASSUME NEW l, Weighted(l), NEW F \in SUBSET DOMAIN l
  PROVE  /\ Weighted(Restricted(l, F))
         /\ DOMAIN Restricted(l, F) = F
         /\ \A t : Below(Restricted(l, F), t) = Below(l, t) \cap F
BY DEF Weighted, Restricted, Below

\* All edges are in the top forest.
LEMMA BelowTop ==
  ASSUME NEW l, Weighted(l)
  PROVE  /\ Below(l, Top) = DOMAIN l
         /\ \A t : Below(l, t) \subseteq DOMAIN l /\ Below(l, t) \in SUBSET Edge
<1>1. DOMAIN l \subseteq Edge /\ \A e \in DOMAIN l : l[e] \in 1 .. Top
  BY DEF Weighted
<1>2. \A e \in DOMAIN l : l[e] <= Top
  BY <1>1, TopIs
<1>3. Below(l, Top) = DOMAIN l
  BY <1>2 DEF Below
<1>4. \A t : Below(l, t) \subseteq DOMAIN l
  BY DEF Below
<1> QED
  BY <1>1, <1>3, <1>4

\* What an update does to the forest before any refresh.
LEMMA CutByIs ==
  ASSUME NEW l, Weighted(l), Acyclic(DOMAIN l), NEW u
  PROVE  /\ Weighted(CutBy(l, u)) /\ Acyclic(DOMAIN CutBy(l, u))
         /\ DOMAIN CutBy(l, u) = IF u.type = "delete" THEN DOMAIN l \ {EdgeOf(u)} ELSE DOMAIN l
<1>1. DOMAIN l \ {EdgeOf(u)} \subseteq DOMAIN l
  OBVIOUS
<1>2. Acyclic(DOMAIN l \ {EdgeOf(u)})
  BY <1>1, AcyclicSubset
<1> QED
  BY <1>2, WeightedCut DEF CutBy

-----------------------------------------------------------------------------
(* Plans.                                                                  *)

\* The fields of a plan between two batches.
LEMMA BetweenIs ==
  ASSUME NEW L, NEW G, NEW s, s = Between(L, G)
  PROVE  /\ s.phase = "idle" /\ s.b = <<>> /\ s.idx = 0 /\ s.tier = 1 /\ s.side = 1
         /\ s.edge = {} /\ s.L = L /\ s.prev = L /\ s.seen = L /\ s.G = G
BY DEF Plan, Between

\* The fields of a plan that begins an update.
LEMMA BeginIs ==
  ASSUME NEW b, NEW k, NEW L, NEW G, NEW s, s = Begin(b, k, L, G)
  PROVE  /\ s.phase = "turn" /\ s.b = b /\ s.idx = k /\ s.tier = 1 /\ s.side = 1
         /\ s.edge = {} /\ s.L = CutBy(L, b[k]) /\ s.prev = L /\ s.seen = CutBy(L, b[k])
         /\ s.G = Toggle(G, EdgeOf(b[k]))
BY DEF Plan, Begin

\* A forest of the graph makes a good plan between two batches.
LEMMA BetweenGood ==
  ASSUME NEW L, Weighted(L), Acyclic(DOMAIN L), NEW G \in SUBSET Edge, DOMAIN L \subseteq G
  PROVE  Good(Between(L, G))
<1>2. <<>> \in Seq(UpdateMessage) /\ Len(<<>>) = 0 /\ BatchSize \in Nat
  BY BatchSizeAssumption
<1>3. StreamLegal(G, <<>>, 1)
  BY <1>2 DEF StreamLegal
<1>4. PICK s : s = Between(L, G)
  OBVIOUS
<1>5. /\ s.phase = "idle" /\ s.b = <<>> /\ s.idx = 0 /\ s.tier = 1 /\ s.side = 1
      /\ s.edge = {} /\ s.L = L /\ s.prev = L /\ s.seen = L /\ s.G = G
  BY <1>4, BetweenIs
<1>6. Good(s)
  BY <1>2, <1>3, <1>5, TopIs DEF Good, FirstTurn
<1> QED
  BY <1>4, <1>6

\* After an update of its first position, the rest of a stream is legal.
LEMMA LegalRest ==
  ASSUME NEW G \in SUBSET Edge, NEW b \in Seq(UpdateMessage), NEW k \in 1 .. Len(b),
         StreamLegal(G, b, k)
  PROVE  StreamLegal(Toggle(G, EdgeOf(b[k])), b, k + 1)
<1>1. SUFFICES ASSUME NEW j \in k + 1 .. Len(b)
               PROVE  SketchAfter(Toggle(G, EdgeOf(b[k])), b, k + 1 .. j - 1)
                        = SketchAfter(G, b, k .. j - 1)
  BY DEF StreamLegal
<1>2. EdgeOf(b[k]) \in Edge
  BY DEF StreamLegal
<1>3. Toggle(G, EdgeOf(b[k])) = SketchAfter(G, b, {k})
  BY <1>2, SketchOne
<1>4. /\ {k} \cup (k + 1 .. j - 1) = k .. j - 1 /\ {k} \cap (k + 1 .. j - 1) = {}
      /\ k \in Int /\ k + 1 \in Int /\ j - 1 \in Int
  BY <1>1
<1>5. IsFiniteSet({k}) /\ IsFiniteSet(k + 1 .. j - 1)
  BY <1>4, FS_Singleton, IntervalFinite
<1> QED
  BY <1>3, <1>4, <1>5, SketchUnion

\* So it is after several.
LEMMA LegalAfter ==
  ASSUME NEW G \in SUBSET Edge, NEW b \in Seq(UpdateMessage), StreamLegal(G, b, 1),
         NEW k \in 0 .. Len(b)
  PROVE  StreamLegal(SketchAfter(G, b, 1 .. k), b, k + 1)
<1>1. SUFFICES ASSUME NEW j \in k + 1 .. Len(b)
               PROVE  /\ EdgeOf(b[j]) \in Edge
                      /\ b[j].type = "delete" <=> EdgeOf(b[j]) \in SketchAfter(G, b, 1 .. j - 1)
                      /\ SketchAfter(SketchAfter(G, b, 1 .. k), b, k + 1 .. j - 1)
                           = SketchAfter(G, b, 1 .. j - 1)
  BY DEF StreamLegal
<1>2. /\ (1 .. k) \cup (k + 1 .. j - 1) = 1 .. j - 1
      /\ (1 .. k) \cap (k + 1 .. j - 1) = {}
      /\ k \in Int /\ k + 1 \in Int /\ j - 1 \in Int /\ j \in 1 .. Len(b)
  BY <1>1
<1>3. IsFiniteSet(1 .. k) /\ IsFiniteSet(k + 1 .. j - 1)
  BY <1>2, IntervalFinite
<1> QED
  BY <1>2, <1>3, SketchUnion DEF StreamLegal

\* What the greedy pass keeps of a forest of G is a forest of the new graph.
LEMMA ForestInGraph ==
  ASSUME NEW G \in SUBSET Edge, NEW F \in SUBSET G, NEW b \in Seq(UpdateMessage),
         StreamLegal(G, b, 1)
  PROVE  \A i \in 0 .. Len(b) : ForestAfter(F, b, i) \subseteq SketchAfter(G, b, 1 .. i)
<1> DEFINE T == {i \in Nat : i <= Len(b) =>
                   ForestAfter(F, b, i) \subseteq SketchAfter(G, b, 1 .. i)}
<1>1. 0 \in T
  <2>1. 1 .. 0 = {}
    OBVIOUS
  <2> QED
    BY <2>1, SketchEmpty, ForestAfterNone
<1>2. ASSUME NEW i \in Nat, i \in T
      PROVE  i + 1 \in T
  <2>1. SUFFICES ASSUME i + 1 <= Len(b)
                 PROVE  ForestAfter(F, b, i + 1) \subseteq SketchAfter(G, b, 1 .. i + 1)
    OBVIOUS
  <2>2. /\ i + 1 \in 1 .. Len(b) /\ (i + 1) - 1 = i /\ i + 1 \in Nat \ {0}
        /\ 1 .. i + 1 = (1 .. i) \cup {i + 1} /\ i + 1 \notin 1 .. i /\ IsFiniteSet(1 .. i)
    BY <2>1, IntervalFinite
  <2>3. ForestAfter(F, b, i) \subseteq SketchAfter(G, b, 1 .. i)
    BY <1>2, <2>1
  <2>4. /\ EdgeOf(b[i + 1]) \in Edge
        /\ b[i + 1].type = "delete" <=> EdgeOf(b[i + 1]) \in SketchAfter(G, b, 1 .. i)
    BY <2>2 DEF StreamLegal
  <2>5. SketchAfter(G, b, 1 .. i + 1) = Toggle(SketchAfter(G, b, 1 .. i), EdgeOf(b[i + 1]))
    <3>1. ASSUME NEW S, IsFiniteSet(S), NEW j, j \notin S, EdgeOf(b[j]) \in Edge
          PROVE  SketchAfter(G, b, S \cup {j}) = Toggle(SketchAfter(G, b, S), EdgeOf(b[j]))
      BY <3>1, SketchNext
    <3>2. SketchAfter(G, b, (1 .. i) \cup {i + 1}) = Toggle(SketchAfter(G, b, 1 .. i), EdgeOf(b[i + 1]))
      BY <3>1, <2>2, <2>4, Zenon
    <3> QED
      BY <3>2, <2>2
  <2>6. ForestAfter(F, b, i + 1) = IF b[i + 1].type = "delete"
                                   THEN ForestAfter(F, b, i) \ {EdgeOf(b[i + 1])}
                                   ELSE ForestAfter(F, b, i)
    <3>1. ForestAfter(F, b, i + 1) = IF b[i + 1].type = "delete"
                                     THEN ForestAfter(F, b, (i + 1) - 1) \ {EdgeOf(b[i + 1])}
                                     ELSE ForestAfter(F, b, (i + 1) - 1)
      BY <2>2, ForestAfterNext, Zenon
    <3> QED
      BY <3>1, <2>2
  <2> QED
    BY <2>3, <2>4, <2>5, <2>6 DEF Toggle
<1> HIDE DEF T
<1>3. \A i \in Nat : i \in T
  BY <1>1, <1>2, Induction, Zenon
<1> QED
  BY <1>3 DEF T

\* A legal update of a good forest makes a good plan.
LEMMA BeginGood ==
  ASSUME NEW b \in Seq(UpdateMessage), Len(b) <= BatchSize, NEW k \in 1 .. Len(b),
         NEW L, Weighted(L), Acyclic(DOMAIN L), NEW G \in SUBSET Edge, DOMAIN L \subseteq G,
         StreamLegal(G, b, k)
  PROVE  Good(Begin(b, k, L, G))
<1> DEFINE u == b[k]
<1>1. PICK s : s = Begin(b, k, L, G)
  OBVIOUS
<1>2. EdgeOf(u) \in Edge /\ (u.type = "delete" <=> EdgeOf(u) \in G)
  <2>1. k .. k - 1 = {} /\ k \in k .. Len(b)
    OBVIOUS
  <2>2. SketchAfter(G, b, k .. k - 1) = G
    BY <2>1, SketchEmpty
  <2> QED
    BY <2>1, <2>2 DEF StreamLegal
<1>3. /\ Weighted(CutBy(L, u)) /\ Acyclic(DOMAIN CutBy(L, u))
      /\ DOMAIN CutBy(L, u) = IF u.type = "delete" THEN DOMAIN L \ {EdgeOf(u)} ELSE DOMAIN L
  BY CutByIs
<1>4. Toggle(G, EdgeOf(u)) \in SUBSET Edge /\ DOMAIN CutBy(L, u) \subseteq Toggle(G, EdgeOf(u))
  BY <1>2, <1>3 DEF Toggle
<1>5. StreamLegal(Toggle(G, EdgeOf(u)), b, k + 1)
  BY LegalRest
<1>6. /\ s.phase = "turn" /\ s.b = b /\ s.idx = k /\ s.tier = 1 /\ s.side = 1
      /\ s.L = CutBy(L, u) /\ s.prev = L /\ s.seen = CutBy(L, u)
      /\ s.G = Toggle(G, EdgeOf(u)) /\ s.L = CutBy(s.prev, s.b[s.idx])
  BY <1>1, BeginIs
<1> HIDE DEF u
<1>7. EdgeOf(s.b[s.idx]) \in Edge
  BY <1>2, <1>6 DEF u
<1>8. Good(s)
  BY <1>3, <1>4, <1>5, <1>6, <1>7, TopIs DEF Good, FirstTurn
<1> QED
  BY <1>1, <1>8

\* The next turn by cases.
LEMMA NextTurnIs ==
  ASSUME NEW s, NEW L, NEW q, q = NextTurn(s, L)
  PROVE  /\ s.side = 1 =>
              /\ q.phase = "turn" /\ q.b = s.b /\ q.idx = s.idx /\ q.tier = s.tier /\ q.side = 2
              /\ q.edge = {} /\ q.L = L /\ q.prev = s.prev /\ q.seen = s.seen /\ q.G = s.G
         /\ s.side # 1 /\ s.tier < Top =>
              /\ q.phase = "turn" /\ q.b = s.b /\ q.idx = s.idx /\ q.tier = s.tier + 1
              /\ q.side = 1 /\ q.edge = {} /\ q.L = L /\ q.prev = s.prev /\ q.seen = L
              /\ q.G = s.G
         /\ s.side # 1 /\ ~(s.tier < Top) /\ s.idx < Len(s.b) =>
              q = Begin(s.b, s.idx + 1, L, s.G)
         /\ s.side # 1 /\ ~(s.tier < Top) /\ ~(s.idx < Len(s.b)) => q = Between(L, s.G)
BY DEF NextTurn, Plan

\* The next turn of a good plan is good.
LEMMA NextTurnGood ==
  ASSUME NEW s, Good(s), s.idx # 0, NEW L, Weighted(L), Acyclic(DOMAIN L), DOMAIN L \subseteq s.G
  PROVE  Good(NextTurn(s, L))
<1> DEFINE q == NextTurn(s, L)
<1>0. /\ s.tier \in 1 .. Top /\ s.side \in {1, 2} /\ s.b \in Seq(UpdateMessage)
      /\ Len(s.b) <= BatchSize /\ s.idx \in 1 .. Len(s.b) /\ s.G \in SUBSET Edge
      /\ Weighted(s.prev) /\ Weighted(s.seen) /\ Acyclic(DOMAIN s.prev)
      /\ StreamLegal(s.G, s.b, s.idx + 1) /\ EdgeOf(s.b[s.idx]) \in Edge
  BY DEF Good
<1> HIDE DEF q
<1>1. CASE s.side = 1 \/ s.tier < Top
  <2>1. /\ q.phase = "turn" /\ q.b = s.b /\ q.idx = s.idx /\ q.tier \in 1 .. Top
        /\ q.side \in {1, 2} /\ q.L = L /\ q.prev = s.prev /\ Weighted(q.seen) /\ q.G = s.G
        /\ q.side = 1 => q.seen = q.L /\ q.tier # 1
    BY <1>0, <1>1, NextTurnIs, TopIs DEF q
  <2> QED
    BY <2>1, <1>0 DEF Good, FirstTurn, q
<1>2. CASE s.side # 1 /\ ~(s.tier < Top) /\ s.idx < Len(s.b)
  <2>1. q = Begin(s.b, s.idx + 1, L, s.G)
    BY <1>2, NextTurnIs DEF q
  <2>2. s.idx + 1 \in 1 .. Len(s.b)
    BY <1>2, <1>0
  <2> QED
    BY <2>1, <2>2, <1>0, BeginGood DEF q
<1>3. CASE s.side # 1 /\ ~(s.tier < Top) /\ ~(s.idx < Len(s.b))
  <2>1. q = Between(L, s.G)
    BY <1>3, NextTurnIs DEF q
  <2> QED
    BY <2>1, <1>0, BetweenGood DEF q
<1> QED
  BY <1>1, <1>2, <1>3

\* What an entry may say, and what it does.
LEMMA LegalCases ==
  ASSUME NEW s, NEW ev, Legal(s, ev)
  PROVE  \/ s.phase = "idle" /\ ev.msg.kind = "batch"
         \/ s.phase = "idle" /\ ev.msg.kind = "end"
         \/ s.phase = "reduce" /\ ev.msg.kind = "first"
         \/ s.phase = "turn" /\ ev.msg.kind = "not_isolated"
         \/ s.phase = "turn" /\ ev.msg.kind = "isolated"
         \/ s.phase = "edit1" /\ ev.msg.kind = "cut"
         \/ s.phase \in {"edit1", "edit2"} /\ ev.msg.kind = "link"
BY DEF Legal

\* The plan after an entry, by the kinds of entries.
LEMMA AfterIs ==
  ASSUME NEW s, NEW ev, NEW q, q = After(s, ev)
  PROVE  /\ ev.msg.kind = "batch" =>
              /\ q.phase = "reduce" /\ q.b = ev.msg.updates /\ q.idx = s.idx /\ q.tier = s.tier
              /\ q.side = s.side /\ q.edge = s.edge /\ q.L = s.L /\ q.prev = s.prev
              /\ q.seen = s.seen /\ q.G = s.G
         /\ ev.msg.kind = "end" =>
              /\ q.phase = "end" /\ q.b = s.b /\ q.idx = s.idx /\ q.tier = s.tier
              /\ q.side = s.side /\ q.edge = s.edge /\ q.L = s.L /\ q.prev = s.prev
              /\ q.seen = s.seen /\ q.G = s.G
         /\ ev.msg.kind = "first" =>
              q = IF ev.msg.first = NoUpdate
                  THEN Between(Kept(s, Len(s.b)), Applied(s, Len(s.b)))
                  ELSE Begin(s.b, ev.msg.first, Kept(s, ev.msg.first - 1),
                             Applied(s, ev.msg.first - 1))
         /\ ev.msg.kind = "not_isolated" => q = NextTurn(s, s.L)
         /\ ev.msg.kind = "isolated" =>
              /\ q.phase = "edit1" /\ q.b = s.b /\ q.idx = s.idx /\ q.tier = s.tier
              /\ q.side = s.side /\ q.edge = ev.msg.edge /\ q.L = s.L /\ q.prev = s.prev
              /\ q.seen = s.seen /\ q.G = s.G
         /\ ev.msg.kind = "cut" =>
              /\ q.phase = "edit2" /\ q.b = s.b /\ q.idx = s.idx /\ q.tier = s.tier
              /\ q.side = s.side /\ q.edge = s.edge /\ q.L = LctCut(s.L, ev.msg.edge)
              /\ q.prev = s.prev /\ q.seen = s.seen /\ q.G = s.G
         /\ ev.msg.kind = "link" =>
              q = NextTurn(s, LctLink(s.L, ev.msg.edge, ev.msg.startTier))
BY DEF After, Plan

\* What the greedy pass keeps is a forest of the graph it has come to.
LEMMA KeptIs ==
  ASSUME NEW s, Good(s), s.phase = "reduce", NEW k \in 0 .. Len(s.b)
  PROVE  /\ Weighted(Kept(s, k)) /\ Acyclic(DOMAIN Kept(s, k))
         /\ DOMAIN Kept(s, k) = ForestAfter(DOMAIN s.L, s.b, k)
         /\ Applied(s, k) \in SUBSET Edge
         /\ DOMAIN Kept(s, k) \subseteq Applied(s, k)
         /\ StreamLegal(Applied(s, k), s.b, k + 1)
<1>1. /\ Weighted(s.L) /\ Acyclic(DOMAIN s.L) /\ s.b \in Seq(UpdateMessage)
      /\ s.G \in SUBSET Edge /\ DOMAIN s.L \in SUBSET s.G /\ s.idx = 0
      /\ StreamLegal(s.G, s.b, s.idx + 1)
  BY DEF Good
<1>2. StreamLegal(s.G, s.b, 1)
  <2>1. s.idx + 1 = 1
    BY <1>1
  <2> QED
    BY <1>1, <2>1
<1>3. ForestAfter(DOMAIN s.L, s.b, k) \in SUBSET DOMAIN s.L
  BY ForestAfterIn
<1>4. /\ Weighted(Kept(s, k)) /\ DOMAIN Kept(s, k) = ForestAfter(DOMAIN s.L, s.b, k)
  BY <1>1, <1>3, WeightedPart DEF Kept
<1>5. Acyclic(DOMAIN Kept(s, k))
  BY <1>1, <1>3, <1>4, AcyclicSubset
<1>6. Applied(s, k) \in SUBSET Edge
  BY SketchInEdge DEF Applied
<1>7. DOMAIN Kept(s, k) \subseteq Applied(s, k)
  BY <1>1, <1>2, <1>4, ForestInGraph DEF Applied
<1>8. StreamLegal(Applied(s, k), s.b, k + 1)
  BY <1>1, <1>2, LegalAfter DEF Applied
<1> QED
  BY <1>4, <1>5, <1>6, <1>7, <1>8

\* After the greedy pass over k updates, the forest of a tier.
LEMMA KeptBelow ==
  ASSUME NEW s, Good(s), s.phase = "reduce", NEW k \in 0 .. Len(s.b), NEW t \in Tier
  PROVE  Below(Kept(s, k), t) = ForestAfter(Below(s.L, t), s.b, k)
<1>1. PICK F : F = ForestAfter(DOMAIN s.L, s.b, k)
  OBVIOUS
<1>2. Weighted(s.L) /\ F \in SUBSET DOMAIN s.L
  BY <1>1, ForestAfterIn DEF Good
<1>3. Below(Restricted(s.L, F), t) = Below(s.L, t) \cap F
  <2>1. PICK l : l = s.L
    OBVIOUS
  <2>2. Weighted(l) /\ F \in SUBSET DOMAIN l
    BY <1>2, <2>1
  <2>3. \A u : Below(Restricted(l, F), u) = Below(l, u) \cap F
    BY <2>2, WeightedPart
  <2> QED
    BY <2>1, <2>3
<1>4. Below(s.L, t) \cap F = ForestAfter(Below(s.L, t), s.b, k)
  BY <1>1 DEF ForestAfter, Below
<1> QED
  BY <1>1, <1>3, <1>4 DEF Kept

\* A sketch returns an edge of the graph.
LEMMA SampledInGraph ==
  ASSUME seed \in Seeds, NEW t \in 0 .. Top - 1, NEW G \in SUBSET Edge, NEW F, NEW v
  PROVE  Sampled(t, G, F, v) \subseteq G
<1>1. Boundary(G, Component(F, v)) \in SUBSET G
  BY DEF Boundary
<1>2. Boundary(G, Component(F, v)) \in SUBSET Edge /\ t \in 0 .. NumTiers - 2
  BY <1>1, TopIs
<1>3. Sampled(t, G, F, v) \subseteq Boundary(G, Component(F, v))
  BY <1>2, SamplesAssumption DEF Sampled
<1> QED
  BY <1>1, <1>3

\* A legal entry makes a good plan of a good plan.
LEMMA AfterGood ==
  ASSUME seed \in Seeds, NEW s, Good(s), NEW ev, Legal(s, ev)
  PROVE  Good(After(s, ev))
<1> DEFINE q == After(s, ev)
           m == ev.msg
<1>0. /\ s.tier \in 1 .. Top /\ s.side \in {1, 2} /\ s.b \in Seq(UpdateMessage)
      /\ Len(s.b) <= BatchSize /\ s.idx \in 0 .. Len(s.b)
      /\ s.G \in SUBSET Edge /\ DOMAIN s.L \in SUBSET s.G
      /\ Weighted(s.L) /\ Weighted(s.prev) /\ Weighted(s.seen)
      /\ Acyclic(DOMAIN s.L) /\ Acyclic(DOMAIN s.prev)
      /\ StreamLegal(s.G, s.b, s.idx + 1)
      /\ s.idx # 0 => EdgeOf(s.b[s.idx]) \in Edge
      /\ s.phase \in {"edit1", "edit2"} => s.edge \in s.G
      /\ s.phase = "idle" => s.b = <<>>
      /\ s.phase \in {"idle", "reduce"} => s.idx = 0
      /\ s.phase \in {"turn", "edit1", "edit2"} => s.idx # 0
      /\ s.phase = "edit2" => ~Joins(DOMAIN s.L, s.edge)
  BY DEF Good
<1> HIDE DEF q
<1>1. CASE s.phase = "idle" /\ m.kind = "batch"
  <2>1. /\ m.updates \in Seq(UpdateMessage) /\ Len(m.updates) \in 1 .. BatchSize
        /\ StreamLegal(s.G, m.updates, 1)
    BY <1>1 DEF Legal
  <2>2. s.idx + 1 = 1 /\ s.idx \in 0 .. Len(m.updates) /\ Len(m.updates) <= BatchSize
    BY <1>0, <1>1, <2>1, BatchSizeAssumption
  <2>3. StreamLegal(s.G, m.updates, s.idx + 1)
    BY <2>1, <2>2
  <2>4. /\ q.phase = "reduce" /\ q.b = m.updates /\ q.idx = s.idx /\ q.tier = s.tier
        /\ q.side = s.side /\ q.edge = s.edge /\ q.L = s.L /\ q.prev = s.prev
        /\ q.seen = s.seen /\ q.G = s.G
    BY <1>1, AfterIs DEF q
  <2>5. Good(q)
    BY <1>0, <1>1, <2>1, <2>2, <2>3, <2>4 DEF Good, FirstTurn
  <2> QED
    BY <2>5 DEF q
<1>2. CASE s.phase = "idle" /\ m.kind = "end"
  <2>1. /\ q.phase = "end" /\ q.b = s.b /\ q.idx = s.idx /\ q.tier = s.tier
        /\ q.side = s.side /\ q.edge = s.edge /\ q.L = s.L /\ q.prev = s.prev
        /\ q.seen = s.seen /\ q.G = s.G
    BY <1>2, AfterIs DEF q
  <2>2. Good(q)
    BY <1>0, <1>2, <2>1 DEF Good, FirstTurn
  <2> QED
    BY <2>2 DEF q
<1>3. CASE s.phase = "reduce" /\ m.kind = "first"
  <2>1. m.first \in (1 .. Len(s.b)) \cup {NoUpdate}
    BY <1>3 DEF Legal
  <2>2. CASE m.first = NoUpdate
    <3>1. q = Between(Kept(s, Len(s.b)), Applied(s, Len(s.b)))
      BY <1>3, <2>2, AfterIs DEF q
    <3>2. Len(s.b) \in 0 .. Len(s.b)
      BY <1>0
    <3> QED
      BY <1>3, <3>1, <3>2, KeptIs, BetweenGood DEF q
  <2>3. CASE m.first # NoUpdate
    <3>1. q = Begin(s.b, m.first, Kept(s, m.first - 1), Applied(s, m.first - 1))
      BY <1>3, <2>3, AfterIs DEF q
    <3>2. m.first \in 1 .. Len(s.b) /\ m.first - 1 \in 0 .. Len(s.b) /\ (m.first - 1) + 1 = m.first
      BY <1>0, <2>1, <2>3
    <3>3. /\ Weighted(Kept(s, m.first - 1)) /\ Acyclic(DOMAIN Kept(s, m.first - 1))
          /\ Applied(s, m.first - 1) \in SUBSET Edge
          /\ DOMAIN Kept(s, m.first - 1) \subseteq Applied(s, m.first - 1)
          /\ StreamLegal(Applied(s, m.first - 1), s.b, m.first)
      <4>1. StreamLegal(Applied(s, m.first - 1), s.b, (m.first - 1) + 1)
        BY <1>3, <3>2, KeptIs
      <4> QED
        BY <1>3, <3>2, <4>1, KeptIs
    <3>4. Good(Begin(s.b, m.first, Kept(s, m.first - 1), Applied(s, m.first - 1)))
      BY <1>0, <3>2, <3>3, BeginGood
    <3> QED
      BY <3>1, <3>4 DEF q
  <2> QED
    BY <2>2, <2>3
<1>4. CASE s.phase = "turn" /\ m.kind = "not_isolated"
  <2>1. q = NextTurn(s, s.L)
    BY <1>4, AfterIs DEF q
  <2> QED
    BY <1>0, <1>4, <2>1, NextTurnGood DEF q
<1>5. CASE s.phase = "turn" /\ m.kind = "isolated"
  <2>1. m.edge \in SeenSamples(s, s.side)
    BY <1>5 DEF Legal
  <2>2. s.tier - 1 \in 0 .. Top - 1
    BY <1>0, TopIs
  <2>3. m.edge \in s.G
    BY <1>0, <2>1, <2>2, SampledInGraph DEF SeenSamples
  <2>4. /\ q.phase = "edit1" /\ q.b = s.b /\ q.idx = s.idx /\ q.tier = s.tier
        /\ q.side = s.side /\ q.edge = m.edge /\ q.L = s.L /\ q.prev = s.prev
        /\ q.seen = s.seen /\ q.G = s.G
    BY <1>5, AfterIs DEF q
  <2>5. Good(q)
    BY <1>0, <1>5, <2>3, <2>4 DEF Good, FirstTurn
  <2> QED
    BY <2>5 DEF q
<1>6. CASE s.phase = "edit1" /\ m.kind = "cut"
  <2>1. m.edge \in Heaviest(s.L, s.edge)
    BY <1>6 DEF Legal
  <2>2. m.edge \in DOMAIN s.L /\ ~Joins(DOMAIN s.L \ {m.edge}, s.edge)
    BY <2>1 DEF Heaviest, PathEdges
  <2>3. /\ Weighted(LctCut(s.L, m.edge)) /\ DOMAIN LctCut(s.L, m.edge) = DOMAIN s.L \ {m.edge}
    BY <1>0, WeightedCut
  <2>4. DOMAIN s.L \ {m.edge} \in SUBSET DOMAIN s.L
    OBVIOUS
  <2>5. Acyclic(DOMAIN s.L \ {m.edge})
    BY <1>0, <2>4, AcyclicSubset
  <2>6. /\ q.phase = "edit2" /\ q.b = s.b /\ q.idx = s.idx /\ q.tier = s.tier
        /\ q.side = s.side /\ q.edge = s.edge /\ q.L = LctCut(s.L, m.edge)
        /\ q.prev = s.prev /\ q.seen = s.seen /\ q.G = s.G
    BY <1>6, AfterIs DEF q
  <2>7. Good(q)
    BY <1>0, <1>6, <2>2, <2>3, <2>4, <2>5, <2>6 DEF Good, FirstTurn
  <2> QED
    BY <2>7 DEF q
<1>7. CASE s.phase \in {"edit1", "edit2"} /\ m.kind = "link"
  <2> DEFINE L == LctLink(s.L, m.edge, m.startTier)
  <2>1. m.edge = s.edge /\ m.startTier = s.tier /\ ~Joins(DOMAIN s.L, s.edge)
    BY <1>7 DEF Legal
  <2>2. s.edge \in s.G /\ s.edge \in Edge
    BY <1>0, <1>7
  <2>3. Weighted(L) /\ DOMAIN L = DOMAIN s.L \cup {s.edge}
    <3>1. L = LctLink(s.L, s.edge, s.tier)
      BY <2>1
    <3>2. Weighted(s.L) /\ s.edge \in Edge /\ s.tier \in 1 .. Top
      BY <1>0, <2>2
    <3>3. /\ Weighted(LctLink(s.L, s.edge, s.tier))
          /\ DOMAIN LctLink(s.L, s.edge, s.tier) = DOMAIN s.L \cup {s.edge}
      BY <3>2, WeightedLink, Zenon
    <3> QED
      BY <3>1, <3>3, Zenon
  <2>4. Acyclic(DOMAIN s.L \cup {s.edge})
    <3>1. DOMAIN s.L \in SUBSET Edge
      BY <1>0
    <3> QED
      BY <1>0, <2>1, <2>2, <3>1, AcyclicLink
  <2>5. q = NextTurn(s, L)
    BY <1>7, AfterIs DEF q
  <2> HIDE DEF L
  <2>6. Acyclic(DOMAIN L) /\ DOMAIN L \subseteq s.G
    BY <1>0, <2>2, <2>3, <2>4
  <2> QED
    BY <1>0, <1>7, <2>3, <2>5, <2>6, NextTurnGood DEF q
<1> QED
  BY <1>1, <1>2, <1>3, <1>4, <1>5, <1>6, <1>7, LegalCases

-----------------------------------------------------------------------------
(* Isolated trees.                                                         *)

\* Of two nested forests' trees, equal sizes mean equal trees.
LEMMA SameSize ==
  ASSUME NEW G, NEW F \in SUBSET G, NEW v
  PROVE  TreeSize(F, v) = TreeSize(G, v) <=> Component(F, v) = Component(G, v)
<1>1. IsFiniteSet(Component(G, v))
  BY ComponentInVertex, VertexAssumption, FS_Subset
<1> QED
  BY <1>1, ComponentMonotone, FS_Subset DEF TreeSize

\* The tiers' forests are nested.
LEMMA BelowNest ==
  ASSUME NEW L, Weighted(L)
  PROVE  /\ \A t : Below(L, t) \in SUBSET Edge /\ Below(L, t) \in SUBSET DOMAIN L
         /\ \A s, t \in Tier : s <= t => Below(L, s) \in SUBSET Below(L, t)
         /\ \A t \in 0 .. Top - 1 : /\ t \in Tier /\ t + 1 \in Tier
                                    /\ Below(L, t) \in SUBSET Below(L, t + 1)
<1>1. \A t : Below(L, t) \in SUBSET Edge /\ Below(L, t) \in SUBSET DOMAIN L
  BY DEF Weighted, Below
<1>2. \A e \in DOMAIN L : L[e] \in Int
  BY TopIs DEF Weighted
<1>3. \A s, t \in Tier : s <= t => Below(L, s) \in SUBSET Below(L, t)
  BY <1>2, TopIs DEF Below
<1>4. \A t \in 0 .. Top - 1 : t \in Tier /\ t + 1 \in Tier /\ t <= t + 1
  BY TopIs
<1> QED
  BY <1>1, <1>3, <1>4

\* Isolated in terms of trees: the next tier's tree is the same, and a sketch finds an edge that
\* leaves it.
LEMMA IsolatedMeans ==
  ASSUME NEW L, Weighted(L), NEW G, NEW t \in 0 .. Top - 1, NEW v
  PROVE  IsolatedIn(L, G, t, v) <=>
           /\ Component(Below(L, t), v) = Component(Below(L, t + 1), v)
           /\ Samples(seed, t, Boundary(G, Component(Below(L, t), v))) # {}
<1>1. PICK F, H : F = Below(L, t) /\ H = Below(L, t + 1)
  OBVIOUS
<1>2. F \in SUBSET H
  BY <1>1, BelowNest
<1>3. TreeSize(F, v) = TreeSize(H, v) <=> Component(F, v) = Component(H, v)
  BY <1>2, SameSize
<1> QED
  BY <1>1, <1>3 DEF IsolatedIn, Sampled

\* All vertices of a tree are isolated or none is.
LEMMA IsolatedShared ==
  ASSUME NEW L, Weighted(L), NEW G, NEW t \in 0 .. Top - 1, NEW v \in Vertex,
         IsolatedIn(L, G, t, v), NEW u \in Component(Below(L, t), v)
  PROVE  IsolatedIn(L, G, t, u)
<1>1. PICK F, H : F = Below(L, t) /\ H = Below(L, t + 1)
  OBVIOUS
<1>2. F \in SUBSET Edge /\ H \in SUBSET Edge
  BY <1>1, BelowNest
<1>3. Component(F, v) = Component(H, v) /\ Samples(seed, t, Boundary(G, Component(F, v))) # {}
  BY <1>1, IsolatedMeans
<1>4. u \in Component(F, v) /\ u \in Component(H, v)
  BY <1>1, <1>3
<1>5. Component(F, u) = Component(F, v) /\ Component(H, u) = Component(H, v)
  BY <1>2, <1>4, ComponentEqual
<1>6. /\ Component(Below(L, t), u) = Component(Below(L, t + 1), u)
      /\ Samples(seed, t, Boundary(G, Component(Below(L, t), u))) # {}
  BY <1>1, <1>3, <1>5
<1> QED
  BY <1>6, IsolatedMeans

\* A sampled edge leaves the tree.
LEMMA SampledLeaves ==
  ASSUME seed \in Seeds, NEW t \in 0 .. Top - 1, NEW G \in SUBSET Edge, NEW F, NEW v,
         NEW e \in Sampled(t, G, F, v)
  PROVE  e \in Boundary(G, Component(F, v)) /\ e \in G /\ e \in Edge
<1>1. Boundary(G, Component(F, v)) \in SUBSET G
  BY DEF Boundary
<1>2. Boundary(G, Component(F, v)) \in SUBSET Edge /\ t \in 0 .. NumTiers - 2
  BY <1>1, TopIs
<1>3. Sampled(t, G, F, v) \subseteq Boundary(G, Component(F, v))
  BY <1>2, SamplesAssumption DEF Sampled
<1> QED
  BY <1>1, <1>3

-----------------------------------------------------------------------------
(* Updates.                                                                *)

\* Forest K is L without edge x.
Without(K, L, x) == Weighted(K) /\ \A t \in Tier : Below(K, t) = Below(L, t) \ {x}

\* An update isolates only trees of its endpoints: the other trees, and the
\* edges that leave them, are what they were.
LEMMA IsolatedHasEnd ==
  ASSUME NEW L, Weighted(L), NEW K, NEW x, Without(K, L, x), NEW G, NEW G2,
         G2 \ {x} = G \ {x}, NoneIsolated(L, G),
         NEW t \in 0 .. Top - 1, NEW v \in Vertex, IsolatedIn(K, G2, t, v)
  PROVE  \E w \in x : w \in Component(Below(K, t), v)
<1>1. PICK F, H, A, B : /\ F = Below(L, t) /\ H = Below(L, t + 1)
                        /\ A = Below(K, t) /\ B = Below(K, t + 1)
  OBVIOUS
<1>2. /\ A = F \ {x} /\ B = H \ {x} /\ Weighted(K)
      /\ F \in SUBSET Edge /\ H \in SUBSET Edge /\ A \in SUBSET Edge /\ B \in SUBSET Edge
  BY <1>1, BelowNest DEF Without
<1>3. PICK C : C = Component(A, v)
  OBVIOUS
<1>4. C = Component(B, v) /\ Samples(seed, t, Boundary(G2, C)) # {}
  <2>1. Weighted(K) /\ t \in 0 .. Top - 1 /\ IsolatedIn(K, G2, t, v)
    BY <1>2
  <2>2. /\ Component(Below(K, t), v) = Component(Below(K, t + 1), v)
        /\ Samples(seed, t, Boundary(G2, Component(Below(K, t), v))) # {}
    BY <2>1, IsolatedMeans
  <2> QED
    BY <1>1, <1>3, <2>2
<1>5. SUFFICES ASSUME x \cap C = {}
               PROVE  FALSE
  BY <1>1, <1>3
<1>6. ASSUME NEW D \in SUBSET Edge, NEW E, E = D \ {x}, C = Component(E, v)
      PROVE  Component(D, v) = C
  <2>1. E \in SUBSET D /\ E \in SUBSET Edge
    BY <1>6
  <2>2. C \in SUBSET Vertex /\ Closed(C, E) /\ v \in C
    BY <1>6, <2>1, ComponentInVertex, ComponentClosed, ComponentSelf
  <2>3. C \subseteq Component(D, v)
    BY <1>6, <2>1, ComponentMonotone
  <2>4. Closed(C, D)
    BY <1>5, <1>6, <2>2 DEF Closed
  <2> QED
    BY <2>2, <2>3, <2>4, ComponentLeast
<1>7. Component(F, v) = C /\ Component(H, v) = C
  BY <1>2, <1>3, <1>4, <1>6
<1>8. Boundary(G, C) = Boundary(G2, C)
  <2>1. x \notin Boundary(G, C) /\ x \notin Boundary(G2, C)
    BY <1>5 DEF Boundary
  <2> QED
    BY <2>1 DEF Boundary
<1>9. /\ Component(Below(L, t), v) = Component(Below(L, t + 1), v)
      /\ Samples(seed, t, Boundary(G, Component(Below(L, t), v))) # {}
  BY <1>1, <1>4, <1>7, <1>8
<1>10. IsolatedIn(L, G, t, v)
  BY <1>9, IsolatedMeans
<1> QED
  BY <1>10 DEF NoneIsolated

\* A legal update, before any refresh, takes its edge from all forests.
LEMMA CutByWithout ==
  ASSUME NEW L, Weighted(L), NEW G \in SUBSET Edge, DOMAIN L \subseteq G, NEW u,
         u.type = "delete" <=> EdgeOf(u) \in G
  PROVE  Without(CutBy(L, u), L, EdgeOf(u))
<1>1. CASE u.type = "delete"
  <2>1. CutBy(L, u) = LctCut(L, EdgeOf(u))
    BY <1>1 DEF CutBy
  <2>2. /\ Weighted(LctCut(L, EdgeOf(u)))
        /\ \A t : Below(LctCut(L, EdgeOf(u)), t) = Below(L, t) \ {EdgeOf(u)}
    BY WeightedCut
  <2> QED
    BY <2>1, <2>2 DEF Without
<1>2. CASE u.type # "delete"
  <2>1. CutBy(L, u) = L
    BY <1>2 DEF CutBy
  <2>2. EdgeOf(u) \notin DOMAIN L
    BY <1>2
  <2>3. \A t : EdgeOf(u) \notin Below(L, t)
    BY <2>2 DEF Below
  <2> QED
    BY <2>1, <2>3 DEF Without
<1> QED
  BY <1>1, <1>2

-----------------------------------------------------------------------------
(* What a round that finds an edge does to the trees.                      *)

\* The round of tier T finds edge e at endpoint w: forest L, graph G.
Found(L, G, T, w, e) ==
  /\ Weighted(L) /\ Acyclic(DOMAIN L) /\ G \in SUBSET Edge
  /\ T \in 1 .. Top /\ w \in Vertex
  /\ IsolatedIn(L, G, T - 1, w)
  /\ e \in Sampled(T - 1, G, Below(L, T - 1), w)

\* It links e, after the cut of a heaviest edge of the cycle if there is one.
Grown(L, M, T, e) ==
  \/ ~Joins(DOMAIN L, e) /\ M = LctLink(L, e, T)
  \/ Joins(DOMAIN L, e) /\ \E c \in Heaviest(L, e) : M = LctLink(LctCut(L, c), e, T)

\* The edge leaves the endpoint's tree, in the tier below and in the round's tier.
LEMMA FoundLeaves ==
  ASSUME seed \in Seeds, NEW L, NEW G, NEW T, NEW w, NEW e, Found(L, G, T, w, e)
  PROVE  /\ T - 1 \in 0 .. Top - 1 /\ T - 1 \in Tier /\ T \in Tier /\ (T - 1) + 1 = T
         /\ e \in Edge /\ e \in G
         /\ \E a \in e : a \in Component(Below(L, T - 1), w)
         /\ ~(e \subseteq Component(Below(L, T - 1), w))
         /\ ~Joins(Below(L, T), e)
<1>1. PICK K : K = T - 1
  OBVIOUS
<1>2. T \in 1 .. Top /\ K \in 0 .. Top - 1 /\ K \in Tier /\ T \in Tier /\ K + 1 = T
  BY <1>1, TopIs DEF Found
<1>3. PICK F, H : F = Below(L, K) /\ H = Below(L, K + 1)
  OBVIOUS
<1>4. /\ Weighted(L) /\ G \in SUBSET Edge /\ w \in Vertex
      /\ IsolatedIn(L, G, K, w) /\ e \in Sampled(K, G, F, w)
  BY <1>1, <1>3 DEF Found
<1>5. F \in SUBSET Edge /\ H \in SUBSET Edge
  BY <1>3, <1>4, BelowNest
<1>6. PICK C : C = Component(F, w)
  OBVIOUS
<1>7. C = Component(H, w)
  BY <1>2, <1>3, <1>4, <1>6, IsolatedMeans
<1>8. e \in Boundary(G, C) /\ e \in G /\ e \in Edge
  BY <1>2, <1>4, <1>6, SampledLeaves
<1>9. Closed(C, H) /\ C \in SUBSET Vertex
  BY <1>4, <1>5, <1>7, ComponentClosed, ComponentInVertex
<1>10. PICK a \in e, b \in e : a \in C /\ b \notin C
  BY <1>8 DEF Boundary
<1>11. e = {a, b} /\ a \in Vertex /\ b \in Vertex
  BY <1>8, <1>10, EdgeEnds, EdgeInVertex
<1>12. ~Joins(H, e)
  BY <1>9, <1>10, <1>11, NoSeparation
<1>13. (\E x \in e : x \in C) /\ ~(e \subseteq C)
  BY <1>10
<1>14. H = Below(L, T)
  BY <1>2, <1>3
<1> QED
  BY <1>1, <1>2, <1>3, <1>6, <1>8, <1>12, <1>13, <1>14

\* The evicted edge is in none of the tiers up to the one the new edge is linked in: their forests
\* do not connect the ends of the new edge, while the path would if all of it were there.
LEMMA EvictionAbove ==
  ASSUME seed \in Seeds, NEW L, NEW G, NEW T, NEW w, NEW e, Found(L, G, T, w, e),
         Joins(DOMAIN L, e), NEW c \in Heaviest(L, e)
  PROVE  /\ c \in DOMAIN L /\ L[c] > T
         /\ \A t \in Tier : L[c] <= t => Joins(Below(L, t), e)
<1>1. /\ DOMAIN L \in SUBSET Edge /\ Acyclic(DOMAIN L) /\ T \in Tier /\ T \in Int
      /\ \A f \in DOMAIN L : L[f] \in Int
  BY FoundLeaves, TopIs DEF Found, Weighted
<1>2. Joins(PathEdges(DOMAIN L, e), e)
  BY <1>1, FoundLeaves, PathJoins
<1>3. c \in DOMAIN L /\ \A d \in PathEdges(DOMAIN L, e) : d \in DOMAIN L /\ L[d] <= L[c]
  BY PathInForest DEF Heaviest
<1>4. ASSUME NEW t \in Tier, L[c] <= t
      PROVE  Joins(Below(L, t), e)
  <2>1. t \in Int
    BY TopIs
  <2>2. PathEdges(DOMAIN L, e) \in SUBSET Below(L, t)
    BY <1>1, <1>3, <1>4, <2>1 DEF Below
  <2> QED
    BY <2>2, <1>2, JoinsMonotone
<1>5. ~Joins(Below(L, T), e)
  BY FoundLeaves
<1>6. L[c] > T
  BY <1>1, <1>3, <1>4, <1>5
<1> QED
  BY <1>3, <1>4, <1>6

\* What is left of the forest before the link, in all tiers.
LEMMA GrownKeeps ==
  ASSUME seed \in Seeds, NEW L, NEW G, NEW T, NEW w, NEW e, Found(L, G, T, w, e),
         NEW M, Grown(L, M, T, e)
  PROVE  /\ Weighted(M)
         /\ \E K : /\ Weighted(K) /\ ~Joins(DOMAIN K, e)
                   /\ \/ K = L
                      \/ Joins(DOMAIN L, e) /\ \E c \in Heaviest(L, e) : K = LctCut(L, c)
                   /\ \A t \in Tier : Below(M, t) = IF T <= t THEN Below(K, t) \cup {e} ELSE Below(K, t)
<1>1. Weighted(L) /\ e \in Edge /\ T \in 1 .. Top
  BY FoundLeaves DEF Found
<1>2. PICK K : /\ M = LctLink(K, e, T) /\ ~Joins(DOMAIN K, e) /\ Weighted(K)
               /\ \/ K = L
                  \/ Joins(DOMAIN L, e) /\ \E c \in Heaviest(L, e) : K = LctCut(L, c)
  <2>1. CASE ~Joins(DOMAIN L, e) /\ M = LctLink(L, e, T)
    BY <1>1, <2>1
  <2>2. CASE Joins(DOMAIN L, e) /\ \E c \in Heaviest(L, e) : M = LctLink(LctCut(L, c), e, T)
    <3>1. PICK c \in Heaviest(L, e) : M = LctLink(LctCut(L, c), e, T)
      BY <2>2
    <3>2. PICK K : K = LctCut(L, c)
      OBVIOUS
    <3>3. Weighted(K) /\ DOMAIN K = DOMAIN L \ {c}
      BY <1>1, <3>2, WeightedCut
    <3>4. ~Joins(DOMAIN K, e)
      BY <3>3 DEF Heaviest, PathEdges
    <3> QED
      BY <2>2, <3>1, <3>2, <3>3, <3>4
  <2> QED
    BY <2>1, <2>2 DEF Grown
<1>3. e \notin DOMAIN K
  BY <1>1, <1>2, JoinsOwn DEF Weighted
<1>4. /\ Weighted(M)
      /\ \A t \in Tier : Below(M, t) = IF T <= t THEN Below(K, t) \cup {e} ELSE Below(K, t)
  <2>1. /\ Weighted(LctLink(K, e, T))
        /\ \A t \in Tier : Below(LctLink(K, e, T), t)
             = IF T <= t THEN Below(K, t) \cup {e} ELSE Below(K, t)
    BY <1>1, <1>2, <1>3, WeightedLink
  <2> QED
    BY <1>2, <2>1
<1> QED
  BY <1>2, <1>4

\* In a tier of the round's or above nothing is disconnected, and only trees change that then have
\* the endpoint in them.
LEMMA GrownTrees ==
  ASSUME seed \in Seeds, NEW L, NEW G, NEW T, NEW w, NEW e, Found(L, G, T, w, e),
         NEW M, Grown(L, M, T, e), NEW t \in Tier, T <= t, NEW v \in Vertex
  PROVE  /\ Component(Below(L, t), v) \subseteq Component(Below(M, t), v)
         /\ \/ Component(Below(L, t), v) = Component(Below(M, t), v)
            \/ w \in Component(Below(M, t), v)
<1>1. PICK K : /\ Weighted(K) /\ ~Joins(DOMAIN K, e)
               /\ \/ K = L
                  \/ Joins(DOMAIN L, e) /\ \E c \in Heaviest(L, e) : K = LctCut(L, c)
               /\ Below(M, t) = Below(K, t) \cup {e}
  BY GrownKeeps
<1>2. PICK A, B, F : A = Below(L, t) /\ B = Below(M, t) /\ F = Below(K, t)
  OBVIOUS
<1>3. /\ w \in Vertex /\ e \in Edge /\ Weighted(L)
      /\ \A f \in DOMAIN L : L[f] \in Int
  BY FoundLeaves DEF Found, Weighted
<1>4. /\ F \in SUBSET Edge /\ A \in SUBSET Edge /\ B = F \cup {e} /\ B \in SUBSET Edge
  BY <1>1, <1>2, <1>3, BelowNest
<1>5. \/ F = A
      \/ \E c \in Heaviest(L, e) : Joins(DOMAIN L, e) /\ F = A \ {c} /\ c \in A
  <2>1. CASE K = L
    BY <1>2, <2>1
  <2>2. ASSUME NEW c \in Heaviest(L, e), Joins(DOMAIN L, e), K = LctCut(L, c)
        PROVE  F = A \ {c}
    <3>1. \A u : Below(LctCut(L, c), u) = Below(L, u) \ {c}
      BY <1>3, WeightedCut
    <3> QED
      BY <1>2, <2>2, <3>1
  <2> QED
    BY <1>1, <2>1, <2>2
<1>6. ASSUME NEW x \in Vertex
      PROVE  Component(A, x) \subseteq Component(B, x)
  <2>1. CASE F = A
    BY <1>4, <2>1, ComponentMonotone
  <2>2. ASSUME NEW c \in Heaviest(L, e), Joins(DOMAIN L, e), F = A \ {c}, c \in A
        PROVE  Component(A, x) \subseteq Component(B, x)
    <3>1. L[c] <= t
      BY <1>2, <2>2 DEF Below
    <3>2. Joins(A, e)
      BY <1>2, <2>2, <3>1, EvictionAbove
    <3>3. F \in SUBSET DOMAIN K
      BY <1>2 DEF Below
    <3>4. c \in PathEdges(A, e)
      BY <1>1, <2>2, <3>3, JoinsMonotone DEF PathEdges
    <3> QED
      BY <1>3, <1>4, <2>2, <3>2, <3>4, ExchangeConnects
  <2> QED
    BY <1>5, <2>1, <2>2
<1>7. ASSUME w \notin Component(B, v)
      PROVE  Component(B, v) \subseteq Component(A, v)
  <2>0. PICK D : D = Component(B, v)
    OBVIOUS
  <2>1. D \in SUBSET Vertex /\ Closed(D, B) /\ v \in D
    BY <1>4, <2>0, ComponentInVertex, ComponentClosed, ComponentSelf
  <2>2. PICK a \in e : a \in Component(Below(L, T - 1), w)
    BY FoundLeaves
  <2>3. a \in Component(B, w)
    <3>1. T - 1 \in Tier /\ T - 1 <= t
      BY FoundLeaves, TopIs
    <3>2. Below(L, T - 1) \in SUBSET A
      BY <1>2, <1>3, <3>1, BelowNest
    <3> QED
      BY <3>2, <2>2, <1>6, <1>3, ComponentMonotone
  <2>4. a \notin D
    <3>1. a \in D => Component(B, a) = D
      BY <1>4, <2>0, ComponentEqual
    <3>2. Component(B, a) = Component(B, w)
      BY <1>3, <1>4, <2>3, ComponentEqual
    <3>3. w \in Component(B, w) /\ w \notin D
      BY <1>3, <1>7, <2>0, ComponentSelf
    <3> QED
      BY <3>1, <3>2, <3>3
  <2>5. e \cap D = {}
    BY <2>1, <2>2, <2>4, <1>4 DEF Closed
  <2>6. ASSUME NEW S \in SUBSET Vertex, v \in S, Closed(S, A)
        PROVE  D \subseteq S
    <3>1. F \subseteq A
      BY <1>5
    <3>2. Closed(S \cap D, B)
      BY <1>4, <2>1, <2>5, <2>6, <3>1 DEF Closed
    <3>3. S \cap D \in SUBSET Vertex /\ v \in S \cap D
      BY <2>1, <2>6
    <3> QED
      BY <2>0, <3>2, <3>3, ComponentLeast
  <2> QED
    BY <2>0, <2>1, <2>6, ComponentMember
<1> QED
  BY <1>2, <1>6, <1>7

\* In the tiers below it nothing changes, and in its own only the edge is added.
LEMMA GrownBelow ==
  ASSUME seed \in Seeds, NEW L, NEW G, NEW T, NEW w, NEW e, Found(L, G, T, w, e),
         NEW M, Grown(L, M, T, e), NEW t \in Tier
  PROVE  /\ t < T => Below(M, t) = Below(L, t)
         /\ t = T => e \in Below(M, t)
<1>1. PICK K : /\ \/ K = L
                  \/ Joins(DOMAIN L, e) /\ \E c \in Heaviest(L, e) : K = LctCut(L, c)
               /\ Below(M, t) = IF T <= t THEN Below(K, t) \cup {e} ELSE Below(K, t)
  BY GrownKeeps
<1>2. T \in Int /\ t \in Int /\ Weighted(L)
  BY TopIs DEF Found
<1>3. ASSUME t < T
      PROVE  Below(K, t) = Below(L, t)
  <2>1. ASSUME NEW c \in Heaviest(L, e), Joins(DOMAIN L, e), K = LctCut(L, c)
        PROVE  Below(K, t) = Below(L, t)
    <3>1. Below(K, t) = Below(L, t) \ {c}
      BY <1>2, <2>1, WeightedCut
    <3>2. c \in DOMAIN L /\ L[c] > T
      BY <2>1, EvictionAbove
    <3>3. L[c] \in Int
      BY <1>2, <3>2 DEF Weighted
    <3>4. c \notin Below(L, t)
      BY <1>2, <1>3, <3>2, <3>3 DEF Below
    <3> QED
      BY <3>1, <3>4
  <2> QED
    BY <1>1, <2>1
<1>4. ASSUME t < T
      PROVE  Below(M, t) = Below(L, t)
  BY <1>1, <1>2, <1>3, <1>4
<1>5. ASSUME t = T
      PROVE  e \in Below(M, t)
  BY <1>1, <1>2, <1>5
<1> QED
  BY <1>4, <1>5

-----------------------------------------------------------------------------
(* Isolated trees stay ahead.                                              *)

\* The endpoints of an update.
LEMMA EndpointIs ==
  ASSUME NEW s, s.b \in Seq(UpdateMessage), s.idx \in 1 .. Len(s.b)
  PROVE  /\ \A k \in {1, 2} : Endpoint(s, k) \in Vertex
         /\ EdgeOf(s.b[s.idx]) = {Endpoint(s, 1), Endpoint(s, 2)}
<1>1. s.b[s.idx] \in UpdateMessage
  OBVIOUS
<1> QED
  BY <1>1 DEF UpdateMessage, Endpoint, EdgeOf

\* Which trees are isolated depends on the seeds, and on no other variable.
LEMMA AheadSame ==
  ASSUME seed' = seed, NEW s
  PROVE  Ahead(s)' <=> Ahead(s)
BY DEF Ahead, NoneIsolated, StillAhead, StillSeen, FoundIn, CutFrom, IsolatedIn, Sampled

\* A round is stuck when its tree is isolated.
LEMMA StuckIs ==
  ASSUME NEW s, s.tier \in 1 .. Top, StillSeen(s, s.L)
  PROVE  /\ Stuck(s) <=> IsolatedIn(s.L, s.G, s.tier - 1, Endpoint(s, s.side))
         /\ SeenSamples(s, s.side) = Sampled(s.tier - 1, s.G, Below(s.L, s.tier - 1), Endpoint(s, s.side))
<1>1. (s.tier - 1) + 1 = s.tier
  BY TopIs
<1> QED
  BY <1>1 DEF Stuck, StillSeen, SeenSize, SeenSamples, IsolatedIn

\* A round whose tree is not isolated only moves on.
LEMMA SkipMoved ==
  ASSUME NEW s, Good(s), s.phase = "turn", Ahead(s), ~Stuck(s)
  PROVE  StillAhead(s, s.L, s.side)
<1>1. /\ StillAhead(s, s.L, s.side - 1) /\ StillSeen(s, s.L) /\ Weighted(s.L)
      /\ s.tier \in 1 .. Top /\ s.side \in {1, 2} /\ s.idx \in 1 .. Len(s.b)
      /\ s.b \in Seq(UpdateMessage)
  BY DEF Ahead, Good
<1>2. SUFFICES ASSUME NEW t \in 0 .. Top - 1, NEW v \in Vertex, IsolatedIn(s.L, s.G, t, v)
               PROVE  \E i \in {1, 2} :
                        /\ Endpoint(s, i) \in Component(Below(s.L, t), v)
                        /\ t >= s.tier \/ (t = s.tier - 1 /\ i > s.side)
  BY DEF StillAhead
<1>3. PICK i \in {1, 2} : /\ Endpoint(s, i) \in Component(Below(s.L, t), v)
                          /\ t >= s.tier \/ (t = s.tier - 1 /\ i > s.side - 1)
  BY <1>1, <1>2 DEF StillAhead
<1>4. ASSUME t = s.tier - 1, i = s.side
      PROVE  FALSE
  <2>1. PICK u, K, G : u = Endpoint(s, i) /\ K = s.L /\ G = s.G
    OBVIOUS
  <2>2. /\ Weighted(K) /\ t \in 0 .. Top - 1 /\ v \in Vertex /\ IsolatedIn(K, G, t, v)
        /\ u \in Component(Below(K, t), v)
    BY <1>1, <1>2, <1>3, <2>1
  <2>3. IsolatedIn(K, G, t, u)
    BY <2>2, IsolatedShared
  <2> QED
    BY <1>1, <1>4, <2>1, <2>3, StuckIs
<1>5. t >= s.tier \/ (t = s.tier - 1 /\ i > s.side)
  BY <1>1, <1>3, <1>4
<1> QED
  BY <1>3, <1>5

\* A round that links an edge frees its own tree, and every tree that it makes has its endpoint in
\* it and is of a later tier; other trees were isolated before if they are now, for the trees of
\* the next tier have only grown.
LEMMA GrowMoved ==
  ASSUME seed \in Seeds, NEW s, s.tier \in 1 .. Top, s.side \in {1, 2},
         NEW L, NEW w, w = Endpoint(s, s.side),
         Found(L, s.G, s.tier, w, s.edge), StillAhead(s, L, s.side - 1), StillSeen(s, L),
         NEW M, Grown(L, M, s.tier, s.edge)
  PROVE  Weighted(M) /\ StillAhead(s, M, s.side) /\ StillSeen(s, M)
<1>1. PICK T, G, e, j : T = s.tier /\ G = s.G /\ e = s.edge /\ j = s.side
  OBVIOUS
<1>2. Found(L, G, T, w, e) /\ Grown(L, M, T, e) /\ T \in 1 .. Top /\ j \in {1, 2}
  BY <1>1
<1>3. Weighted(M) /\ Weighted(L)
  <2>1. Weighted(M)
    BY <1>2, GrownKeeps
  <2> QED
    BY <1>2, <2>1 DEF Found
<1>4. /\ T - 1 \in Tier /\ T \in Tier /\ T - 1 < T /\ T \in Int
  BY <1>2, TopIs
<1>5. StillSeen(s, M)
  <2>1. Below(M, T - 1) = Below(L, T - 1)
    BY <1>2, <1>4, GrownBelow
  <2> QED
    BY <1>1, <2>1 DEF StillSeen
<1>6. ASSUME NEW t \in 0 .. Top - 1, NEW v \in Vertex, IsolatedIn(M, G, t, v)
      PROVE  \E i \in {1, 2} :
               /\ Endpoint(s, i) \in Component(Below(M, t), v)
               /\ t >= T \/ (t = T - 1 /\ i > j)
  <2>1. PICK A, B, A2, B2 : /\ A = Below(L, t) /\ B = Below(L, t + 1)
                            /\ A2 = Below(M, t) /\ B2 = Below(M, t + 1)
    OBVIOUS
  <2>2. /\ A \in SUBSET Edge /\ B \in SUBSET Edge /\ A2 \in SUBSET Edge /\ B2 \in SUBSET Edge
        /\ A \in SUBSET B /\ t \in Tier /\ t + 1 \in Tier /\ t \in Int
    <3>1. A \in SUBSET Edge /\ B \in SUBSET Edge /\ A \in SUBSET B /\ t \in Tier /\ t + 1 \in Tier
      BY <1>3, <2>1, BelowNest
    <3>2. A2 \in SUBSET Edge /\ B2 \in SUBSET Edge
      BY <1>3, <2>1, BelowNest
    <3> QED
      BY <3>1, <3>2, TopIs
  <2>3. PICK C : C = Component(A2, v)
    OBVIOUS
  <2>4. C = Component(B2, v) /\ Samples(seed, t, Boundary(G, C)) # {}
    <3>1. /\ Component(Below(M, t), v) = Component(Below(M, t + 1), v)
          /\ Samples(seed, t, Boundary(G, Component(Below(M, t), v))) # {}
      BY <1>3, <1>6, IsolatedMeans
    <3> QED
      BY <2>1, <2>3, <3>1
  <2>5. CASE t >= T /\ w \in C
    BY <1>1, <2>1, <2>3, <2>5
  <2>6. CASE ~(t >= T /\ w \in C)
    <3>1. Component(A, v) = C
      <4>1. CASE t < T
        BY <1>2, <2>1, <2>2, <2>3, <4>1, GrownBelow
      <4>2. CASE T <= t
        <5>1. \/ Component(Below(L, t), v) = Component(Below(M, t), v)
              \/ w \in Component(Below(M, t), v)
          BY <1>2, <2>2, <4>2, GrownTrees
        <5> QED
          BY <2>1, <2>3, <2>6, <4>2, <5>1
      <4> QED
        BY <1>4, <2>2, <4>1, <4>2
    <3>2. Component(B, v) = C
      <4>1. C \subseteq Component(B, v)
        BY <3>1, <2>2, ComponentMonotone
      <4>2. Component(B, v) \subseteq C
        <5>1. PICK z : z = t + 1
          OBVIOUS
        <5>2. z \in Tier /\ z \in Int
          BY <2>2, <5>1
        <5>3. CASE z < T
          <6>1. Below(M, z) = Below(L, z)
            BY <1>2, <5>2, <5>3, GrownBelow
          <6> QED
            BY <2>1, <2>4, <5>1, <6>1
        <5>4. CASE T <= z
          <6>1. Component(Below(L, z), v) \subseteq Component(Below(M, z), v)
            BY <1>2, <5>2, <5>4, GrownTrees
          <6> QED
            BY <2>1, <2>4, <5>1, <6>1
        <5> QED
          BY <1>4, <5>2, <5>3, <5>4
      <4> QED
        BY <4>1, <4>2
    <3>3. IsolatedIn(L, G, t, v)
      <4>1. /\ Component(Below(L, t), v) = Component(Below(L, t + 1), v)
            /\ Samples(seed, t, Boundary(G, Component(Below(L, t), v))) # {}
        BY <2>1, <2>4, <3>1, <3>2
      <4> QED
        BY <1>3, <4>1, IsolatedMeans
    <3>4. PICK i \in {1, 2} : Endpoint(s, i) \in C /\ (t >= T \/ (t = T - 1 /\ i > j - 1))
      <4>1. \E i \in {1, 2} : /\ Endpoint(s, i) \in Component(Below(L, t), v)
                              /\ t >= s.tier \/ (t = s.tier - 1 /\ i > s.side - 1)
        BY <1>1, <3>3 DEF StillAhead
      <4> QED
        BY <1>1, <2>1, <3>1, <4>1
    <3>5. ~(t = T - 1 /\ i = j)
      <4>1. SUFFICES ASSUME t = T - 1, w \in C
                     PROVE  FALSE
        BY <1>1, <3>4
      <4>2. C = Component(Below(L, T - 1), w)
        BY <2>1, <2>2, <3>1, <4>1, ComponentEqual
      <4>3. t + 1 = T
        BY <1>4, <4>1
      <4>4. e \in B2
        BY <1>2, <1>4, <2>1, <4>3, GrownBelow
      <4>5. Closed(C, B2)
        BY <2>2, <2>4, ComponentClosed
      <4>6. (\E a \in e : a \in C) /\ ~(e \subseteq C)
        BY <1>2, <4>2, FoundLeaves
      <4> QED
        BY <4>4, <4>5, <4>6 DEF Closed
    <3>6. t >= T \/ (t = T - 1 /\ i > j)
      BY <1>2, <2>2, <3>4, <3>5
    <3> QED
      BY <2>1, <2>3, <3>4, <3>6
  <2> QED
    BY <2>5, <2>6
<1>7. StillAhead(s, M, s.side)
  BY <1>1, <1>6 DEF StillAhead
<1> QED
  BY <1>3, <1>5, <1>7

\* An update isolates trees of its endpoints only, and their rounds are all to come.
LEMMA BeginAhead ==
  ASSUME NEW b \in Seq(UpdateMessage), NEW k \in 1 .. Len(b),
         NEW L, Weighted(L), NEW G \in SUBSET Edge, DOMAIN L \subseteq G,
         StreamLegal(G, b, k), NoneIsolated(L, G)
  PROVE  Ahead(Begin(b, k, L, G))
<1>1. PICK s, u : s = Begin(b, k, L, G) /\ u = b[k]
  OBVIOUS
<1>2. /\ s.phase = "turn" /\ s.b = b /\ s.idx = k /\ s.tier = 1 /\ s.side = 1
      /\ s.L = CutBy(L, u) /\ s.seen = CutBy(L, u) /\ s.G = Toggle(G, EdgeOf(u))
  BY <1>1, BeginIs
<1>3. PICK x, K, G2 : x = EdgeOf(u) /\ K = CutBy(L, u) /\ G2 = Toggle(G, x)
  OBVIOUS
<1>4. u.type = "delete" <=> EdgeOf(u) \in G
  <2>1. k .. k - 1 = {} /\ k \in k .. Len(b)
    OBVIOUS
  <2>2. SketchAfter(G, b, k .. k - 1) = G
    BY <2>1, SketchEmpty
  <2> QED
    BY <1>1, <2>1, <2>2 DEF StreamLegal
<1>5. Without(K, L, x)
  BY <1>3, <1>4, CutByWithout
<1>6. G2 \ {x} = G \ {x}
  BY <1>3 DEF Toggle
<1>7. x = {Endpoint(s, 1), Endpoint(s, 2)}
  BY <1>1, <1>2, <1>3, EndpointIs
<1>8. ASSUME NEW t \in 0 .. Top - 1, NEW v \in Vertex, IsolatedIn(K, G2, t, v)
      PROVE  \E i \in {1, 2} :
               /\ Endpoint(s, i) \in Component(Below(K, t), v)
               /\ t >= 1 \/ (t = 1 - 1 /\ i > 1 - 1)
  <2>1. \E w \in x : w \in Component(Below(K, t), v)
    BY <1>5, <1>6, <1>8, IsolatedHasEnd
  <2>2. \E i \in {1, 2} : Endpoint(s, i) \in Component(Below(K, t), v)
    BY <1>7, <2>1
  <2>3. t \in Int /\ t >= 0
    BY TopIs
  <2> QED
    BY <2>2, <2>3
<1>9. StillAhead(s, s.L, s.side - 1)
  BY <1>2, <1>3, <1>8 DEF StillAhead
<1>10. StillSeen(s, s.L)
  BY <1>2 DEF StillSeen
<1> QED
  BY <1>1, <1>2, <1>9, <1>10 DEF Ahead

\* No tree is isolated when all rounds are over.
LEMMA AllRounds ==
  ASSUME NEW s, s.tier = Top, NEW L, StillAhead(s, L, 2)
  PROVE  NoneIsolated(L, s.G)
<1>1. \A t \in 0 .. Top - 1 : ~(t >= Top)
  BY TopIs
<1>2. \A i \in {1, 2} : ~(i > 2)
  OBVIOUS
<1> QED
  BY <1>1, <1>2 DEF StillAhead, NoneIsolated

\* The next round finds its own and the later ones ahead.
LEMMA NextTurnAhead ==
  ASSUME NEW s, Good(s), s.idx # 0, NEW L, Weighted(L), DOMAIN L \subseteq s.G,
         StillAhead(s, L, s.side), StillSeen(s, L)
  PROVE  Ahead(NextTurn(s, L))
<1>1. PICK q : q = NextTurn(s, L)
  OBVIOUS
<1>2. /\ s.tier \in 1 .. Top /\ s.side \in {1, 2} /\ s.b \in Seq(UpdateMessage)
      /\ s.idx \in 1 .. Len(s.b) /\ s.G \in SUBSET Edge /\ StreamLegal(s.G, s.b, s.idx + 1)
  BY DEF Good
<1>3. CASE s.side = 1
  <2>1. /\ q.phase = "turn" /\ q.b = s.b /\ q.idx = s.idx /\ q.tier = s.tier /\ q.side = 2
        /\ q.L = L /\ q.seen = s.seen /\ q.G = s.G
    BY <1>1, <1>3, NextTurnIs
  <2>2. \A i : Endpoint(q, i) = Endpoint(s, i)
    BY <2>1 DEF Endpoint
  <2>3. StillSeen(q, q.L)
    BY <2>1 DEF StillSeen
  <2>4. q.side - 1 = s.side
    BY <1>3, <2>1
  <2>5. StillAhead(q, q.L, q.side - 1)
    BY <2>1, <2>2, <2>4 DEF StillAhead
  <2> QED
    BY <1>1, <2>1, <2>3, <2>5 DEF Ahead
<1>4. CASE s.side # 1 /\ s.tier < Top
  <2>1. /\ q.phase = "turn" /\ q.b = s.b /\ q.idx = s.idx /\ q.tier = s.tier + 1 /\ q.side = 1
        /\ q.L = L /\ q.seen = L /\ q.G = s.G
    BY <1>1, <1>4, NextTurnIs
  <2>2. \A i : Endpoint(q, i) = Endpoint(s, i)
    BY <2>1 DEF Endpoint
  <2>3. StillSeen(q, q.L)
    BY <2>1 DEF StillSeen
  <2>4. ASSUME NEW t \in 0 .. Top - 1, NEW i \in {1, 2},
               t >= s.tier \/ (t = s.tier - 1 /\ i > s.side)
        PROVE  t >= q.tier \/ (t = q.tier - 1 /\ i > q.side - 1)
    BY <1>2, <1>4, <2>1, <2>4, TopIs
  <2>5. StillAhead(q, q.L, q.side - 1)
    BY <2>1, <2>2, <2>4 DEF StillAhead
  <2> QED
    BY <1>1, <2>1, <2>3, <2>5 DEF Ahead
<1>5. CASE s.side # 1 /\ ~(s.tier < Top)
  <2>1. NoneIsolated(L, s.G)
    <3>1. s.tier = Top /\ s.side = 2
      BY <1>2, <1>5, TopIs
    <3> QED
      BY <3>1, AllRounds
  <2>2. CASE s.idx < Len(s.b)
    <3>1. q = Begin(s.b, s.idx + 1, L, s.G)
      BY <1>1, <1>5, <2>2, NextTurnIs
    <3>2. PICK b, k, G : b = s.b /\ k = s.idx + 1 /\ G = s.G
      OBVIOUS
    <3>3. /\ b \in Seq(UpdateMessage) /\ k \in 1 .. Len(b) /\ G \in SUBSET Edge
          /\ DOMAIN L \subseteq G /\ StreamLegal(G, b, k) /\ NoneIsolated(L, G)
      BY <1>2, <2>1, <2>2, <3>2
    <3>4. Ahead(Begin(b, k, L, G))
      BY <3>3, BeginAhead
    <3> QED
      BY <1>1, <3>1, <3>2, <3>4
  <2>3. CASE ~(s.idx < Len(s.b))
    <3>1. q = Between(L, s.G)
      BY <1>1, <1>5, <2>3, NextTurnIs
    <3>2. q.phase = "idle" /\ q.L = L /\ q.G = s.G
      BY <3>1, BetweenIs
    <3> QED
      BY <1>1, <2>1, <3>2 DEF Ahead
  <2> QED
    BY <2>2, <2>3
<1> QED
  BY <1>3, <1>4, <1>5

\* What the next update of the greedy pass does: its edge goes from all forests.
LEMMA KeptWithout ==
  ASSUME NEW s, Good(s), s.phase = "reduce", NEW k \in 1 .. Len(s.b)
  PROVE  /\ Without(Kept(s, k), Kept(s, k - 1), EdgeOf(s.b[k]))
         /\ Applied(s, k) = Toggle(Applied(s, k - 1), EdgeOf(s.b[k]))
<1>1. /\ k - 1 \in 0 .. Len(s.b) /\ k \in 0 .. Len(s.b) /\ k \in Nat \ {0}
      /\ s.b \in Seq(UpdateMessage) /\ s.idx = 0 /\ s.G \in SUBSET Edge
      /\ StreamLegal(s.G, s.b, s.idx + 1)
  BY DEF Good
<1>2. PICK b, j, x, K, G : /\ b = s.b /\ j = k - 1 /\ x = EdgeOf(s.b[k])
                           /\ K = Kept(s, k - 1) /\ G = Applied(s, k - 1)
  OBVIOUS
<1>3. /\ Weighted(K) /\ G \in SUBSET Edge /\ DOMAIN K \subseteq G
      /\ StreamLegal(G, b, j + 1) /\ Weighted(Kept(s, k))
  <2>1. /\ Weighted(Kept(s, k - 1)) /\ Applied(s, k - 1) \in SUBSET Edge
        /\ DOMAIN Kept(s, k - 1) \subseteq Applied(s, k - 1)
        /\ StreamLegal(Applied(s, k - 1), s.b, (k - 1) + 1)
    BY <1>1, KeptIs
  <2>2. Weighted(Kept(s, k))
    BY <1>1, KeptIs
  <2> QED
    BY <1>2, <2>1, <2>2
<1>4. x \in Edge /\ (b[k].type = "delete" <=> x \in G)
  <2>1. j + 1 = k /\ k .. k - 1 = {} /\ k \in k .. Len(b)
    BY <1>1, <1>2
  <2>2. StreamLegal(G, b, k)
    BY <1>3, <2>1
  <2>3. SketchAfter(G, b, k .. k - 1) = G
    BY <1>3, <2>1, SketchEmpty
  <2> QED
    BY <1>2, <2>1, <2>2, <2>3 DEF StreamLegal
<1>5. ASSUME NEW t \in Tier
      PROVE  Below(Kept(s, k), t) = Below(K, t) \ {x}
  <2>1. PICK F : F = Below(s.L, t)
    OBVIOUS
  <2>2. /\ Below(Kept(s, k), t) = ForestAfter(F, b, k)
        /\ Below(K, t) = ForestAfter(F, b, k - 1)
    BY <1>1, <1>2, <2>1, KeptBelow
  <2>3. ForestAfter(F, b, k) = IF b[k].type = "delete"
                               THEN ForestAfter(F, b, k - 1) \ {x} ELSE ForestAfter(F, b, k - 1)
    <3>1. k \in Nat \ {0}
      BY <1>1
    <3>2. ForestAfter(F, b, k) = IF b[k].type = "delete"
                                 THEN ForestAfter(F, b, k - 1) \ {EdgeOf(b[k])}
                                 ELSE ForestAfter(F, b, k - 1)
      BY <3>1, ForestAfterNext, Zenon
    <3>3. EdgeOf(b[k]) = x
      BY <1>2
    <3> QED
      BY <3>2, <3>3
  <2>4. b[k].type # "delete" => x \notin Below(K, t)
    BY <1>3, <1>4 DEF Below
  <2> QED
    BY <2>2, <2>3, <2>4
<1>6. Applied(s, k) = Toggle(G, x)
  <2>1. 1 .. k = (1 .. k - 1) \cup {k} /\ k \notin 1 .. k - 1 /\ IsFiniteSet(1 .. k - 1)
    BY <1>1, IntervalFinite
  <2>2. PICK H, S : H = s.G /\ S = 1 .. k - 1
    OBVIOUS
  <2>3. /\ H \in SUBSET Edge /\ IsFiniteSet(S) /\ k \notin S /\ EdgeOf(b[k]) \in Edge
    BY <1>1, <1>2, <1>4, <2>1, <2>2
  <2>4. SketchAfter(H, b, S \cup {k}) = Toggle(SketchAfter(H, b, S), EdgeOf(b[k]))
    BY <2>3, SketchNext
  <2> QED
    BY <1>2, <2>1, <2>2, <2>4 DEF Applied
<1> QED
  BY <1>2, <1>3, <1>5, <1>6 DEF Without

\* What the greedy pass looks at is whether an update isolates a tree of its endpoints.
LEMMA IsolatedAfterIs ==
  ASSUME NEW s, Good(s), s.phase = "reduce", NEW i \in 1 .. Len(s.b),
         NEW t \in 0 .. Top - 1, NEW w \in EdgeOf(s.b[i]),
         IsolatedIn(Kept(s, i), Applied(s, i), t, w)
  PROVE  IsolatedAfter(s, i)
<1>1. i \in 0 .. Len(s.b) /\ t \in Tier /\ t + 1 \in Tier /\ t # Top
  BY TopIs DEF Good
<1>2. /\ Below(Kept(s, i), t) = ForestAfter(Below(s.L, t), s.b, i)
      /\ Below(Kept(s, i), t + 1) = ForestAfter(Below(s.L, t + 1), s.b, i)
  BY <1>1, KeptBelow
<1>3. PICK k \in {1, 2} : w = <<s.b[i].src, s.b[i].dst>>[k]
  BY DEF EdgeOf
<1>4. /\ SizesAfter(Below(s.L, t), s.b, i)[k] = TreeSize(Below(Kept(s, i), t), w)
      /\ SizesAfter(Below(s.L, t + 1), s.b, i)[k] = TreeSize(Below(Kept(s, i), t + 1), w)
  BY <1>2, <1>3 DEF SizesAfter
<1>5. GoodAfter(t, s.G, Below(s.L, t), s.b, i)[k]
        = (t # Top /\ Sampled(t, Applied(s, i), Below(Kept(s, i), t), w) # {})
  BY <1>2, <1>3 DEF GoodAfter, Applied
<1> QED
  BY <1>1, <1>4, <1>5 DEF IsolatedAfter, IsolatedIn

\* While no update of the greedy pass isolates a tree of its own endpoints, none is isolated.
LEMMA GreedyNone ==
  ASSUME NEW s, Good(s), s.phase = "reduce", NoneIsolated(s.L, s.G),
         NEW m \in 0 .. Len(s.b), \A i \in 1 .. m : ~IsolatedAfter(s, i)
  PROVE  NoneIsolated(Kept(s, m), Applied(s, m))
<1> DEFINE P(i) == NoneIsolated(Kept(s, i), Applied(s, i))
           S == {i \in Nat : i <= m => P(i)}
<1>0. m \in Nat /\ m <= Len(s.b) /\ s.b \in Seq(UpdateMessage) /\ Len(s.b) \in Nat
  BY DEF Good
<1>1. P(0)
  <2>1. 0 \in 0 .. Len(s.b) /\ 1 .. 0 = {}
    BY <1>0
  <2>2. Applied(s, 0) = s.G
    BY <2>1, SketchEmpty DEF Applied, Good
  <2>3. \A t \in Tier : Below(Kept(s, 0), t) = Below(s.L, t)
    BY <2>1, KeptBelow, ForestAfterNone
  <2>4. \A t \in 0 .. Top - 1 : t \in Tier /\ t + 1 \in Tier
    BY TopIs
  <2>5. \A t \in 0 .. Top - 1, v \in Vertex :
          IsolatedIn(Kept(s, 0), Applied(s, 0), t, v) <=> IsolatedIn(s.L, s.G, t, v)
    BY <2>2, <2>3, <2>4 DEF IsolatedIn
  <2> QED
    BY <2>5 DEF NoneIsolated
<1>2. ASSUME NEW j \in Nat, NEW k \in Nat, k = j + 1, k <= m, P(j)
      PROVE  P(k)
  <2>1. k \in 1 .. Len(s.b) /\ k \in 1 .. m /\ k \in 0 .. Len(s.b) /\ j \in 0 .. Len(s.b) /\ k - 1 = j
    BY <1>0, <1>2
  <2>2. PICK K, L, G2, G, x : /\ K = Kept(s, k) /\ L = Kept(s, j)
                              /\ G2 = Applied(s, k) /\ G = Applied(s, j)
                              /\ x = EdgeOf(s.b[k])
    OBVIOUS
  <2>3. Without(K, L, x) /\ G2 = Toggle(G, x)
    <3>1. /\ Without(Kept(s, k), Kept(s, k - 1), EdgeOf(s.b[k]))
          /\ Applied(s, k) = Toggle(Applied(s, k - 1), EdgeOf(s.b[k]))
      BY <2>1, KeptWithout
    <3> QED
      BY <2>1, <2>2, <3>1
  <2>4. Weighted(L) /\ NoneIsolated(L, G) /\ Weighted(K) /\ G2 \ {x} = G \ {x}
    <3>1. Weighted(L)
      BY <2>1, <2>2, KeptIs
    <3>2. G2 \ {x} = G \ {x}
      BY <2>3 DEF Toggle
    <3>3. Weighted(K)
      BY <2>3 DEF Without
    <3> QED
      BY <1>2, <2>2, <3>1, <3>2, <3>3
  <2>5. ASSUME NEW t \in 0 .. Top - 1, NEW v \in Vertex, IsolatedIn(K, G2, t, v)
        PROVE  FALSE
    <3>1. PICK w \in x : w \in Component(Below(K, t), v)
      BY <2>3, <2>4, <2>5, IsolatedHasEnd
    <3>2. IsolatedIn(K, G2, t, w)
      BY <2>4, <2>5, <3>1, IsolatedShared
    <3>3. IsolatedAfter(s, k)
      BY <2>1, <2>2, <3>1, <3>2, IsolatedAfterIs
    <3> QED
      BY <2>1, <3>3
  <2> QED
    BY <2>2, <2>5 DEF NoneIsolated
<1>3. 0 \in S
  BY <1>1
<1>4. ASSUME NEW j \in Nat, j \in S
      PROVE  j + 1 \in S
  <2>1. j + 1 \in Nat /\ (j + 1 <= m => j <= m)
    BY <1>0
  <2> HIDE DEF P
  <2> QED
    BY <1>2, <1>4, <2>1
<1> HIDE DEF S
<1>5. \A i \in Nat : i \in S
  BY <1>3, <1>4, Induction, Zenon
<1> QED
  BY <1>0, <1>5 DEF S

\* Every entry of the log keeps isolated trees ahead of the rounds.
LEMMA AfterAhead ==
  ASSUME seed \in Seeds, NEW s, Good(s), Ahead(s), NEW ev, Legal(s, ev)
  PROVE  Ahead(After(s, ev))
<1> DEFINE m == ev.msg
<1>1. PICK q : q = After(s, ev)
  OBVIOUS
<1>2. /\ s.tier \in 1 .. Top /\ s.side \in {1, 2} /\ s.b \in Seq(UpdateMessage)
      /\ Len(s.b) <= BatchSize /\ s.idx \in 0 .. Len(s.b)
      /\ s.G \in SUBSET Edge /\ DOMAIN s.L \in SUBSET s.G
      /\ Weighted(s.L) /\ Acyclic(DOMAIN s.L)
      /\ s.phase \in {"turn", "edit1", "edit2"} => s.idx # 0
  BY DEF Good
<1>3. CASE s.phase = "idle" /\ m.kind \in {"batch", "end"}
  <2>1. q.phase \in {"reduce", "end"} /\ q.L = s.L /\ q.G = s.G
    BY <1>1, <1>3, AfterIs
  <2> QED
    BY <1>1, <1>3, <2>1 DEF Ahead
<1>4. CASE s.phase = "reduce" /\ m.kind = "first"
  <2>1. /\ m.first \in (1 .. Len(s.b)) \cup {NoUpdate}
        /\ \A i \in 1 .. Len(s.b) : i < m.first => ~IsolatedAfter(s, i)
    BY <1>4 DEF Legal
  <2>2. NoneIsolated(s.L, s.G) /\ Len(s.b) \in Nat /\ Len(s.b) < NoUpdate /\ NoUpdate \in Nat
    BY <1>2, <1>4, BatchSizeAssumption DEF Ahead, NoUpdate
  <2>3. CASE m.first = NoUpdate
    <3>1. q = Between(Kept(s, Len(s.b)), Applied(s, Len(s.b)))
      BY <1>1, <1>4, <2>3, AfterIs
    <3>2. Len(s.b) \in 0 .. Len(s.b) /\ \A i \in 1 .. Len(s.b) : ~IsolatedAfter(s, i)
      BY <2>1, <2>2, <2>3
    <3>3. NoneIsolated(Kept(s, Len(s.b)), Applied(s, Len(s.b)))
      BY <1>4, <2>2, <3>2, GreedyNone
    <3>4. q.phase = "idle" /\ q.L = Kept(s, Len(s.b)) /\ q.G = Applied(s, Len(s.b))
      BY <3>1, BetweenIs
    <3> QED
      BY <1>1, <3>3, <3>4 DEF Ahead
  <2>4. CASE m.first # NoUpdate
    <3>1. q = Begin(s.b, m.first, Kept(s, m.first - 1), Applied(s, m.first - 1))
      BY <1>1, <1>4, <2>4, AfterIs
    <3>2. PICK k, j : k = m.first /\ j = m.first - 1
      OBVIOUS
    <3>3. /\ k \in 1 .. Len(s.b) /\ j \in 0 .. Len(s.b) /\ j + 1 = k
          /\ \A i \in 1 .. j : ~IsolatedAfter(s, i)
      BY <2>1, <2>2, <2>4, <3>2
    <3>4. PICK L, G, b : L = Kept(s, j) /\ G = Applied(s, j) /\ b = s.b
      OBVIOUS
    <3>5. NoneIsolated(L, G)
      BY <1>4, <2>2, <3>3, <3>4, GreedyNone
    <3>6. /\ Weighted(L) /\ G \in SUBSET Edge /\ DOMAIN L \subseteq G /\ StreamLegal(G, b, j + 1)
      BY <1>4, <3>3, <3>4, KeptIs
    <3>7. b \in Seq(UpdateMessage) /\ k \in 1 .. Len(b) /\ StreamLegal(G, b, k)
      BY <1>2, <3>3, <3>4, <3>6
    <3>8. Ahead(Begin(b, k, L, G))
      BY <3>5, <3>6, <3>7, BeginAhead
    <3> QED
      BY <1>1, <3>1, <3>2, <3>4, <3>8
  <2> QED
    BY <2>3, <2>4
<1>5. CASE s.phase = "turn" /\ m.kind = "not_isolated"
  <2>1. ~Stuck(s)
    BY <1>5 DEF Legal
  <2>2. StillAhead(s, s.L, s.side) /\ StillSeen(s, s.L)
    BY <1>5, <2>1, SkipMoved DEF Ahead
  <2>3. q = NextTurn(s, s.L)
    BY <1>1, <1>5, AfterIs
  <2> QED
    BY <1>1, <1>2, <1>5, <2>2, <2>3, NextTurnAhead
<1>6. CASE s.phase = "turn" /\ m.kind = "isolated"
  <2>1. Stuck(s) /\ m.edge \in SeenSamples(s, s.side)
    BY <1>6 DEF Legal
  <2>2. StillAhead(s, s.L, s.side - 1) /\ StillSeen(s, s.L)
    BY <1>6 DEF Ahead
  <2>3. /\ IsolatedIn(s.L, s.G, s.tier - 1, Endpoint(s, s.side))
        /\ m.edge \in Sampled(s.tier - 1, s.G, Below(s.L, s.tier - 1), Endpoint(s, s.side))
    BY <1>2, <2>1, <2>2, StuckIs
  <2>4. /\ q.phase = "edit1" /\ q.b = s.b /\ q.idx = s.idx /\ q.tier = s.tier
        /\ q.side = s.side /\ q.edge = m.edge /\ q.L = s.L /\ q.seen = s.seen /\ q.G = s.G
    BY <1>1, <1>6, AfterIs
  <2>5. \A i : Endpoint(q, i) = Endpoint(s, i)
    BY <2>4 DEF Endpoint
  <2>6. FoundIn(q, q.L)
    BY <2>3, <2>4, <2>5 DEF FoundIn
  <2>7. StillAhead(q, q.L, q.side - 1) /\ StillSeen(q, q.L)
    BY <2>2, <2>4, <2>5 DEF StillAhead, StillSeen
  <2> QED
    BY <1>1, <2>4, <2>6, <2>7 DEF Ahead
<1>7. CASE s.phase = "edit1" /\ m.kind = "cut"
  <2>1. m.edge \in Heaviest(s.L, s.edge) /\ Joins(DOMAIN s.L, s.edge)
    BY <1>7 DEF Legal
  <2>2. StillAhead(s, s.L, s.side - 1) /\ StillSeen(s, s.L) /\ FoundIn(s, s.L)
    BY <1>7 DEF Ahead
  <2>3. /\ q.phase = "edit2" /\ q.b = s.b /\ q.idx = s.idx /\ q.tier = s.tier
        /\ q.side = s.side /\ q.edge = s.edge /\ q.L = LctCut(s.L, m.edge)
        /\ q.seen = s.seen /\ q.G = s.G
    BY <1>1, <1>7, AfterIs
  <2>4. \A i : Endpoint(q, i) = Endpoint(s, i)
    BY <2>3 DEF Endpoint
  <2>5. StillAhead(q, s.L, q.side - 1) /\ StillSeen(q, s.L) /\ FoundIn(q, s.L)
    BY <2>2, <2>3, <2>4 DEF StillAhead, StillSeen, FoundIn
  <2>6. CutFrom(q, s.L)
    BY <1>2, <2>1, <2>3, <2>5 DEF CutFrom
  <2>7. q.phase = "edit2" /\ \E L : CutFrom(q, L)
    BY <2>3, <2>6
  <2> QED
    BY <1>1, <2>7 DEF Ahead
<1>8. CASE s.phase \in {"edit1", "edit2"} /\ m.kind = "link"
  <2>1. m.edge = s.edge /\ m.startTier = s.tier /\ ~Joins(DOMAIN s.L, s.edge)
    BY <1>8 DEF Legal
  <2>2. PICK M : M = LctLink(s.L, s.edge, s.tier)
    OBVIOUS
  <2>3. q = NextTurn(s, M)
    BY <1>1, <1>8, <2>1, <2>2, AfterIs
  <2>4. PICK L : /\ Weighted(L) /\ Acyclic(DOMAIN L)
                 /\ StillAhead(s, L, s.side - 1) /\ StillSeen(s, L) /\ FoundIn(s, L)
                 /\ Grown(L, M, s.tier, s.edge)
    <3>1. CASE s.phase = "edit1"
      <4>1. StillAhead(s, s.L, s.side - 1) /\ StillSeen(s, s.L) /\ FoundIn(s, s.L)
        BY <3>1 DEF Ahead
      <4>2. Grown(s.L, M, s.tier, s.edge)
        BY <2>1, <2>2 DEF Grown
      <4> QED
        BY <1>2, <4>1, <4>2
    <3>2. CASE s.phase = "edit2"
      <4>1. PICK L : CutFrom(s, L)
        BY <3>2 DEF Ahead
      <4>2. Grown(L, M, s.tier, s.edge)
        BY <2>2, <4>1 DEF Grown, CutFrom
      <4> QED
        BY <4>1, <4>2 DEF CutFrom
    <3> QED
      BY <1>8, <3>1, <3>2
  <2>5. PICK w : w = Endpoint(s, s.side)
    OBVIOUS
  <2>6. w \in Vertex
    BY <1>2, <1>8, <2>5, EndpointIs
  <2>7. Found(L, s.G, s.tier, w, s.edge)
    BY <1>2, <2>4, <2>5, <2>6 DEF Found, FoundIn
  <2>8. Weighted(M) /\ StillAhead(s, M, s.side) /\ StillSeen(s, M)
    BY <1>2, <2>4, <2>5, <2>7, GrowMoved
  <2>9. DOMAIN M \subseteq s.G
    <3>1. DOMAIN M = DOMAIN s.L \cup {s.edge}
      BY <2>2 DEF LctLink
    <3>2. s.edge \in s.G
      BY <1>8 DEF Good
    <3> QED
      BY <1>2, <3>1, <3>2
  <2> QED
    BY <1>1, <1>2, <1>8, <2>3, <2>8, <2>9, NextTurnAhead
<1> QED
  BY <1>3, <1>4, <1>5, <1>6, <1>7, <1>8, LegalCases

-----------------------------------------------------------------------------
(* The log.                                                                *)

\* A queue of broadcasts is a sequence of log entries.
LEMMA QueueSeq ==
  ASSUME NEW log, NEW n \in Nat, NEW d \in 0 .. n
  PROVE  /\ Queue(log, d, n) \in Seq({log[i] : i \in 1 .. n})
         /\ Len(Queue(log, d, n)) = n - d
         /\ DOMAIN Queue(log, d, n) = 1 .. n - d
         /\ \A i \in 1 .. n - d : Queue(log, d, n)[i] = log[d + i]
<1>1. n - d \in Nat /\ \A i \in 1 .. n - d : d + i \in 1 .. n
  OBVIOUS
<1>2. Queue(log, d, n) \in [1 .. n - d -> {log[i] : i \in 1 .. n}]
  BY <1>1 DEF Queue
<1> QED
  BY <1>1, <1>2 DEF Queue

\* The first of a queue is the next entry of the log.
LEMMA QueueHead ==
  ASSUME NEW log, NEW n \in Nat, NEW d \in 0 .. n
  PROVE  /\ Queue(log, d, n) = <<>> <=> d = n
         /\ d # n => /\ Head(Queue(log, d, n)) = log[d + 1]
                     /\ Tail(Queue(log, d, n)) = Queue(log, d + 1, n)
<1> DEFINE q == Queue(log, d, n)
           S == {log[i] : i \in 1 .. n}
<1>1. /\ q \in Seq(S) /\ Len(q) = n - d /\ \A i \in 1 .. n - d : q[i] = log[d + i]
  BY QueueSeq
<1> HIDE DEF q, S
<1>2. q = <<>> <=> d = n
  BY <1>1
<1>3. ASSUME d # n
      PROVE  Head(q) = log[d + 1] /\ Tail(q) = Queue(log, d + 1, n)
  <2>1. q # <<>>
    BY <1>2, <1>3
  <2>2. Head(q) = q[1] /\ Tail(q) \in Seq(S) /\ Len(Tail(q)) = Len(q) - 1
        /\ \A i \in 1 .. Len(Tail(q)) : Tail(q)[i] = q[i + 1]
    BY <1>1, <2>1, HeadTailProperties
  <2>3. /\ Queue(log, d + 1, n) \in Seq(S) /\ Len(Queue(log, d + 1, n)) = n - (d + 1)
        /\ \A i \in 1 .. n - (d + 1) : Queue(log, d + 1, n)[i] = log[(d + 1) + i]
    <3>1. d + 1 \in 0 .. n
      BY <1>3
    <3> QED
      BY <3>1, QueueSeq DEF S
  <2>4. \A i \in 1 .. n - (d + 1) : Tail(q)[i] = Queue(log, d + 1, n)[i]
    <3>1. \A i \in 1 .. n - (d + 1) : i + 1 \in 1 .. n - d /\ d + (i + 1) = (d + 1) + i
      OBVIOUS
    <3> QED
      BY <1>1, <2>2, <2>3, <3>1
  <2>5. Tail(q) = Queue(log, d + 1, n)
    <3>1. Len(Tail(q)) = n - (d + 1)
      BY <1>1, <2>2
    <3> QED
      BY <2>2, <2>3, <2>4, <3>1, SeqEqual
  <2> QED
    BY <1>1, <1>3, <2>2, <2>5
<1> QED
  BY <1>2, <1>3 DEF q

\* A new entry of the log joins every queue.
LEMMA QueueAppend ==
  ASSUME NEW log, NEW n \in Nat, NEW d \in 0 .. n, NEW log2,
         \A i \in 1 .. n : log2[i] = log[i]
  PROVE  Append(Queue(log, d, n), log2[n + 1]) = Queue(log2, d, n + 1)
<1> DEFINE q == Queue(log, d, n)
           ev == log2[n + 1]
           S == {log[i] : i \in 1 .. n} \cup {ev}
           q2 == Queue(log2, d, n + 1)
<1>1. /\ q \in Seq({log[i] : i \in 1 .. n}) /\ Len(q) = n - d
      /\ \A i \in 1 .. n - d : q[i] = log[d + i]
  BY QueueSeq
<1>2. /\ q2 \in Seq({log2[i] : i \in 1 .. n + 1}) /\ Len(q2) = (n + 1) - d
      /\ \A i \in 1 .. (n + 1) - d : q2[i] = log2[d + i]
  <2>1. n + 1 \in Nat /\ d \in 0 .. n + 1
    OBVIOUS
  <2> QED
    BY <2>1, QueueSeq
<1>3. q \in Seq(S) /\ q2 \in Seq(S)
  <2> DEFINE A == {log[i] : i \in 1 .. n}
             B == {log2[i] : i \in 1 .. n + 1}
  <2>1. A \subseteq S /\ B \subseteq S
    OBVIOUS
  <2>2. q \in Seq(A) /\ q2 \in Seq(B)
    BY <1>1, <1>2
  <2> HIDE DEF q, q2, S, A, B
  <2> QED
    BY <2>1, <2>2, SeqMonotonic
<1>4. /\ Append(q, ev) \in Seq(S) /\ Len(Append(q, ev)) = Len(q) + 1
      /\ \A i \in 1 .. Len(q) : Append(q, ev)[i] = q[i]
      /\ Append(q, ev)[Len(q) + 1] = ev
  BY <1>3, AppendProperties
<1>8. ev = log2[n + 1]
  OBVIOUS
<1> HIDE DEF q, q2, S, ev
<1>5. Len(Append(q, ev)) = (n + 1) - d
  BY <1>1, <1>4
<1>6. ASSUME NEW i \in 1 .. (n + 1) - d
      PROVE  Append(q, ev)[i] = q2[i]
  <2>1. q2[i] = log2[d + i]
    BY <1>2
  <2>2. CASE i \in 1 .. n - d
    <3>1. Append(q, ev)[i] = log[d + i] /\ d + i \in 1 .. n
      BY <1>1, <1>4, <2>2
    <3> QED
      BY <2>1, <3>1
  <2>3. CASE i = (n - d) + 1
    <3>1. Append(q, ev)[i] = ev /\ d + i = n + 1
      BY <1>1, <1>4, <2>3
    <3> QED
      BY <1>8, <2>1, <3>1
  <2>4. i \in 1 .. n - d \/ i = (n - d) + 1
    OBVIOUS
  <2> QED
    BY <2>2, <2>3, <2>4
<1>7. Append(q, ev) = q2
  BY <1>2, <1>3, <1>4, <1>5, <1>6, SeqEqual
<1> QED
  BY <1>7 DEF q, q2, ev

\* What a rank knows of the log.
LEMMA LogView ==
  ASSUME NEW view, NEW front, NEW at, Log(view, front, at), NEW r \in Rank
  PROVE  /\ Good(view[r]) /\ Good(front) /\ Ahead(front) /\ at[r] \in BOOLEAN
         /\ at[r] => view[r] = front
         /\ at[r] <=> bcasts[r] = <<>>
         /\ ~at[r] => /\ Legal(view[r], Head(bcasts[r]))
                      /\ Head(bcasts[r]).root \in Rank \ {r}
         /\ \A i \in DOMAIN bcasts[r] : bcasts[r][i].root \in Rank \ {r}
<1>1. PICK n, log, plans, done :
        /\ LogIs(n, log, plans, done)
        /\ view = [q \in Rank |-> plans[done[q]]]
        /\ front = plans[n]
        /\ at = [q \in Rank |-> done[q] = n]
  BY DEF Log
<1>2. /\ n \in Nat /\ done[r] \in 0 .. n
      /\ bcasts[r] = Queue(log, done[r], n)
      /\ \A i \in done[r] + 1 .. n : log[i].root \in Rank \ {r}
  BY <1>1 DEF LogIs
<1>3. view[r] = plans[done[r]] /\ at[r] = (done[r] = n)
  BY <1>1
<1>4. Good(view[r]) /\ Good(front) /\ Ahead(front)
  BY <1>1, <1>2, <1>3 DEF LogIs
<1>5. PICK d \in 0 .. n : d = done[r]
  BY <1>2
<1>6. /\ Queue(log, d, n) = <<>> <=> d = n
      /\ d # n => Head(Queue(log, d, n)) = log[d + 1]
      /\ DOMAIN Queue(log, d, n) = 1 .. n - d
      /\ \A i \in 1 .. n - d : Queue(log, d, n)[i] = log[d + i]
  <2>1. n \in Nat
    BY <1>2
  <2>2. /\ Queue(log, d, n) = <<>> <=> d = n
        /\ d # n => Head(Queue(log, d, n)) = log[d + 1]
    BY <2>1, QueueHead
  <2>3. /\ DOMAIN Queue(log, d, n) = 1 .. n - d
        /\ \A i \in 1 .. n - d : Queue(log, d, n)[i] = log[d + i]
    BY <2>1, QueueSeq
  <2> QED
    BY <2>2, <2>3
<1>7. bcasts[r] = Queue(log, d, n) /\ \A i \in d + 1 .. n : log[i].root \in Rank \ {r}
  BY <1>2, <1>5
<1>8. ASSUME d # n
      PROVE  Legal(view[r], Head(bcasts[r])) /\ Head(bcasts[r]).root \in Rank \ {r}
  <2>1. Head(bcasts[r]) = log[d + 1]
    BY <1>6, <1>7, <1>8
  <2>2. d + 1 \in 1 .. n /\ d + 1 \in d + 1 .. n /\ (d + 1) - 1 = d
    BY <1>2, <1>5, <1>8
  <2>3. Legal(plans[(d + 1) - 1], log[d + 1])
    BY <1>1, <2>2 DEF LogIs
  <2> QED
    BY <1>3, <1>5, <1>7, <2>1, <2>2, <2>3
<1>9. \A i \in DOMAIN bcasts[r] : bcasts[r][i].root \in Rank \ {r}
  <2>1. \A i \in 1 .. n - d : d + i \in d + 1 .. n
    BY <1>2
  <2> QED
    BY <1>6, <1>7, <2>1
<1> QED
  BY <1>1, <1>3, <1>4, <1>5, <1>6, <1>7, <1>8, <1>9

\* The legality of an entry depends on the seeds, and on no other variable.
LEMMA LegalSame ==
  ASSUME seed' = seed, NEW s, NEW ev
  PROVE  Legal(s, ev)' <=> Legal(s, ev)
BY DEF Legal, Stuck, SeenSamples, Sampled, IsolatedAfter, GoodAfter

\* A step without a broadcast.
LEMMA LogSame ==
  ASSUME NEW view, NEW front, NEW at, Log(view, front, at), seed' = seed, bcasts' = bcasts
  PROVE  Log(view, front, at)'
<1>1. PICK n, log, plans, done :
        /\ LogIs(n, log, plans, done) /\ KeepUp(n, plans, done)
        /\ view = [q \in Rank |-> plans[done[q]]]
        /\ front = plans[n]
        /\ at = [q \in Rank |-> done[q] = n]
  BY DEF Log
<1>2. LogIs(n, log, plans, done)'
  BY <1>1, LegalSame, AheadSame DEF LogIs
<1> QED
  BY <1>1, <1>2 DEF Log

\* Rank r has taken part in a broadcast of rank root and has plan q.
CaughtUp(r, root, q, front, at, at2) ==
  /\ \A p \in Rank \ {r} : at2[p] = at[p]
  /\ at2[r] \in BOOLEAN
  /\ at2[r] => q = front /\ at[root]
  /\ r \in {0, 1} /\ FirstTurn(q, 1) => at2[r]
  /\ r = 0 /\ q.phase = "edit1" => at2[r]

\* Rank r takes part in its next broadcast.
LEMMA LogReceive ==
  ASSUME NEW view, NEW front, NEW at, Log(view, front, at), seed' = seed,
         NEW r \in Rank, bcasts[r] # <<>>, ReceiveBcast(r),
         NEW q, q = After(view[r], Head(bcasts[r])),
         NEW view2, view2 = [view EXCEPT ![r] = q]
  PROVE  \E at2 :
           /\ Log(view2, front, at2)'
           /\ CaughtUp(r, Head(bcasts[r]).root, q, front, at, at2)
<1>1. PICK n, log, plans, done :
        /\ LogIs(n, log, plans, done) /\ KeepUp(n, plans, done)
        /\ view = [p \in Rank |-> plans[done[p]]]
        /\ front = plans[n]
        /\ at = [p \in Rank |-> done[p] = n]
  BY DEF Log
<1>2. /\ n \in Nat /\ done \in [Rank -> 0 .. n]
      /\ bcasts = [p \in Rank |-> Queue(log, done[p], n)]
      /\ \A p \in Rank : \A i \in done[p] + 1 .. n : log[i].root \in Rank \ {p}
      /\ \A i \in 0 .. n : Good(plans[i])
      /\ \A i \in 1 .. n : Legal(plans[i - 1], log[i]) /\ plans[i] = After(plans[i - 1], log[i])
      /\ n # 0 /\ log[n].root \in Rank => done[log[n].root] = n
      /\ Ahead(plans[n])
  BY <1>1 DEF LogIs
<1>3. PICK d \in 0 .. n : d = done[r]
  BY <1>2
<1>4. bcasts[r] = Queue(log, d, n)
  BY <1>2, <1>3
<1>5. /\ Queue(log, d, n) = <<>> <=> d = n
      /\ d # n => /\ Head(Queue(log, d, n)) = log[d + 1]
                  /\ Tail(Queue(log, d, n)) = Queue(log, d + 1, n)
  <2>1. n \in Nat
    BY <1>2
  <2> QED
    BY <2>1, QueueHead
<1>6. d # n /\ Head(bcasts[r]) = log[d + 1] /\ Tail(bcasts[r]) = Queue(log, d + 1, n)
  BY <1>4, <1>5
<1>7. d + 1 \in 0 .. n /\ d + 1 \in 1 .. n /\ (d + 1) - 1 = d
  BY <1>2, <1>6
<1>8. q = plans[d + 1]
  <2>1. view[r] = plans[d]
    BY <1>1, <1>3
  <2>2. plans[d + 1] = After(plans[(d + 1) - 1], log[d + 1])
    BY <1>2, <1>7
  <2> QED
    BY <1>6, <1>7, <2>1, <2>2
<1> DEFINE done2 == [done EXCEPT ![r] = d + 1]
           at2 == [p \in Rank |-> done2[p] = n]
<1>9. /\ done2 \in [Rank -> 0 .. n] /\ done2[r] = d + 1
      /\ \A p \in Rank \ {r} : done2[p] = done[p]
  BY <1>2, <1>7
<1> HIDE DEF done2
<1>10. bcasts' = [p \in Rank |-> Queue(log, done2[p], n)]
  <2>1. bcasts' = [bcasts EXCEPT ![r] = Queue(log, d + 1, n)]
    BY <1>6 DEF ReceiveBcast, WithBcastReceived
  <2> QED
    BY <1>2, <1>9, <2>1
<1>11. LogIs(n, log, plans, done2)'
  <2>1. \A p \in Rank : \A i \in done2[p] + 1 .. n : log[i].root \in Rank \ {p}
    <3>1. SUFFICES ASSUME NEW p \in Rank, NEW i \in done2[p] + 1 .. n
                   PROVE  i \in done[p] + 1 .. n
      BY <1>2
    <3>2. CASE p = r
      BY <1>2, <1>3, <1>9, <3>2
    <3>3. CASE p # r
      BY <1>9, <3>3
    <3> QED
      BY <3>2, <3>3
  <2>2. n # 0 /\ log[n].root \in Rank => done2[log[n].root] = n
    <3>1. SUFFICES ASSUME n # 0, log[n].root \in Rank
                   PROVE  done2[log[n].root] = n
      OBVIOUS
    <3>2. done[log[n].root] = n
      BY <1>2, <3>1
    <3>3. log[n].root # r
      BY <1>3, <1>6, <3>2
    <3> QED
      BY <1>9, <3>1, <3>2, <3>3
  <2> QED
    BY <1>2, <1>9, <1>10, <2>1, <2>2, LegalSame, AheadSame DEF LogIs
<1>12. KeepUp(n, plans, done2)
  <2>1. \A p \in Rank : done[p] \in 0 .. n /\ done2[p] \in 0 .. n /\ done[p] <= done2[p]
    <3>1. \A p \in Rank : done[p] \in 0 .. n /\ done2[p] \in 0 .. n
      BY <1>2, <1>9
    <3>2. done[r] <= done2[r]
      BY <1>3, <1>9
    <3> QED
      BY <1>9, <3>1, <3>2
  <2>2. ASSUME NEW i \in 0 .. n - 1
        PROVE  /\ FirstTurn(plans[i], 1) => done2[0] >= i /\ done2[RankOf(0)] >= i
               /\ plans[i].phase = "edit1" => done2[0] >= i
    <3>1. /\ FirstTurn(plans[i], 1) => done[0] >= i /\ done[RankOf(0)] >= i
          /\ plans[i].phase = "edit1" => done[0] >= i
      BY <1>1 DEF KeepUp
    <3>2. 0 \in Rank /\ RankOf(0) \in Rank
      BY TopIs DEF RankOf
    <3> QED
      BY <2>1, <3>1, <3>2
  <2>3. ASSUME NEW t \in 1 .. Top, NEW k \in done2[RankOf(t)] .. n, FirstTurn(plans[k], 1),
               NEW i \in k + 1 .. n
        PROVE  NotPast(plans[i], t)
    <3>1. RankOf(t) \in Rank
      BY TopIs DEF RankOf
    <3>2. k \in done[RankOf(t)] .. n
      BY <2>1, <3>1
    <3> QED
      BY <1>1, <2>3, <3>2 DEF KeepUp
  <2> QED
    BY <2>2, <2>3 DEF KeepUp
<1>13. view2 = [p \in Rank |-> plans[done2[p]]]
  BY <1>1, <1>8, <1>9
<1>14. Log(view2, front, at2)'
  BY <1>1, <1>11, <1>12, <1>13 DEF Log
<1>15. \A p \in Rank \ {r} : at2[p] = at[p]
  BY <1>1, <1>9
<1>16. at2[r] = (d + 1 = n)
  BY <1>9
<1>17. at2[r] => q = front /\ at[Head(bcasts[r]).root]
  <2>1. SUFFICES ASSUME d + 1 = n
                 PROVE  q = front /\ at[Head(bcasts[r]).root]
    BY <1>16
  <2>2. log[n].root \in Rank /\ n # 0 /\ Head(bcasts[r]) = log[n]
    BY <1>1, <1>6, LogView, <2>1, <1>7
  <2>3. done[log[n].root] = n
    BY <1>2, <2>2
  <2> QED
    BY <1>1, <1>8, <2>1, <2>2, <2>3
<1>18. ASSUME r \in {0, 1}, FirstTurn(q, 1)
       PROVE  at2[r]
  <2>1. SUFFICES ASSUME d + 1 # n
                 PROVE  FALSE
    BY <1>16
  <2>2. d + 1 \in 0 .. n - 1
    BY <1>2, <1>7, <2>1
  <2>3. done[0] >= d + 1 /\ done[RankOf(0)] >= d + 1
    BY <1>1, <1>8, <1>18, <2>2 DEF KeepUp
  <2> QED
    BY <1>2, <1>3, <1>18, <2>3 DEF RankOf
<1>19. ASSUME r = 0, q.phase = "edit1"
       PROVE  at2[r]
  <2>1. SUFFICES ASSUME d + 1 # n
                 PROVE  FALSE
    BY <1>16
  <2>2. d + 1 \in 0 .. n - 1
    BY <1>2, <1>7, <2>1
  <2>3. done[0] >= d + 1
    BY <1>1, <1>8, <1>19, <2>2 DEF KeepUp
  <2> QED
    BY <1>2, <1>3, <1>19, <2>3
<1> HIDE DEF at2
<1>20. CaughtUp(r, Head(bcasts[r]).root, q, front, at, at2)
  BY <1>15, <1>16, <1>17, <1>18, <1>19 DEF CaughtUp
<1> QED
  BY <1>14, <1>20

\* Until tier t has its turn the refresh of an update does not get past it.
LEMMA NotPastAfter ==
  ASSUME NEW s, Good(s), NEW ev, Legal(s, ev), NEW t \in 1 .. Top,
         FirstTurn(s, 1) \/ NotPast(s, t), ev.root # RankOf(t)
  PROVE  NotPast(After(s, ev), t)
<1> DEFINE q == After(s, ev)
<1>1. s.phase \in {"turn", "edit1", "edit2"} /\ s.tier \in 1 .. Top /\ s.side \in {1, 2}
      /\ s.tier <= t /\ ev.root = Owner(s)
  BY TopIs DEF Good, FirstTurn, NotPast, Legal
<1>2. s.tier < t
  BY <1>1, TopIs DEF Owner, RankOf
<1> HIDE DEF q
<1>3. ASSUME NEW L, q = NextTurn(s, L)
      PROVE  NotPast(q, t)
  <2>1. \/ q.phase = "turn" /\ q.tier = s.tier /\ q.side = 2
        \/ q.phase = "turn" /\ q.tier = s.tier + 1 /\ q.side = 1
    BY <1>1, <1>2, <1>3, NextTurnIs, TopIs
  <2> QED
    BY <1>1, <1>2, <2>1, TopIs DEF NotPast, FirstTurn
<1>4. \/ q = NextTurn(s, s.L)
      \/ q = NextTurn(s, LctLink(s.L, ev.msg.edge, ev.msg.startTier))
      \/ q.phase \in {"edit1", "edit2"} /\ q.tier = s.tier
  <2>1. /\ ev.msg.kind = "not_isolated" => q = NextTurn(s, s.L)
        /\ ev.msg.kind = "link" => q = NextTurn(s, LctLink(s.L, ev.msg.edge, ev.msg.startTier))
        /\ ev.msg.kind = "isolated" => q.phase = "edit1" /\ q.tier = s.tier
        /\ ev.msg.kind = "cut" => q.phase = "edit2" /\ q.tier = s.tier
    BY AfterIs DEF q
  <2>2. ev.msg.kind \in {"not_isolated", "isolated", "cut", "link"}
    BY <1>1, LegalCases
  <2> QED
    BY <2>1, <2>2
<1>5. ASSUME q.phase \in {"edit1", "edit2"}, q.tier = s.tier
      PROVE  NotPast(q, t)
  BY <1>1, <1>5 DEF NotPast, FirstTurn
<1> QED
  BY <1>3, <1>4, <1>5 DEF q

\* A rank that has replayed all the log adds to it.
LEMMA LogBcast ==
  ASSUME NEW view, NEW front, NEW at, Log(view, front, at), seed \in Seeds, seed' = seed,
         NEW r \in Rank, at[r], NEW msg, NEW ev, ev = [root |-> r, msg |-> msg],
         Legal(front, ev), Bcast(r, msg),
         FirstTurn(front, 1) => at[0] /\ at[RankOf(0)],
         front.phase = "edit1" => at[0],
         NEW q, q = After(front, ev),
         NEW view2, view2 = [view EXCEPT ![r] = q]
  PROVE  \E at2 : Log(view2, q, at2)' /\ at2[r] /\ \A p \in Rank \ {r} : ~at2[p]
<1>0. PICK at2 : at2 = [p \in Rank |-> p = r]
  OBVIOUS
<1>1. PICK n, log, plans, done :
        /\ LogIs(n, log, plans, done) /\ KeepUp(n, plans, done)
        /\ view = [p \in Rank |-> plans[done[p]]]
        /\ front = plans[n]
        /\ at = [p \in Rank |-> done[p] = n]
  BY DEF Log
<1>2. /\ n \in Nat /\ done \in [Rank -> 0 .. n]
      /\ bcasts = [p \in Rank |-> Queue(log, done[p], n)]
      /\ \A p \in Rank : \A i \in done[p] + 1 .. n : log[i].root \in Rank \ {p}
      /\ \A i \in 0 .. n : Good(plans[i])
      /\ \A i \in 1 .. n : Legal(plans[i - 1], log[i]) /\ plans[i] = After(plans[i - 1], log[i])
      /\ Ahead(front)
  BY <1>1 DEF LogIs
<1>3. done[r] = n
  BY <1>1
<1> DEFINE log2 == [i \in 1 .. n + 1 |-> IF i = n + 1 THEN ev ELSE log[i]]
           plans2 == [i \in 0 .. n + 1 |-> IF i = n + 1 THEN q ELSE plans[i]]
           done2 == [done EXCEPT ![r] = n + 1]
<1>4. /\ n + 1 \in Nat
      /\ log2[n + 1] = ev /\ \A i \in 1 .. n : log2[i] = log[i]
      /\ plans2[n + 1] = q /\ \A i \in 0 .. n : plans2[i] = plans[i]
      /\ done2 \in [Rank -> 0 .. n + 1] /\ done2[r] = n + 1
      /\ \A p \in Rank \ {r} : done2[p] = done[p]
  <2>1. 0 .. n \subseteq 0 .. n + 1 /\ n + 1 \in 0 .. n + 1
    BY <1>2
  <2>2. done2 \in [Rank -> 0 .. n + 1] /\ done2[r] = n + 1
        /\ \A p \in Rank \ {r} : done2[p] = done[p]
    BY <1>2, <2>1
  <2> QED
    BY <1>2, <2>1, <2>2
<1> HIDE DEF log2, plans2, done2
<1>5. bcasts' = [p \in Rank |-> Queue(log2, done2[p], n + 1)]
  <2>1. \A p \in Rank : Append(Queue(log, done[p], n), ev) = Queue(log2, done[p], n + 1)
    <3>1. SUFFICES ASSUME NEW p \in Rank
                   PROVE  Append(Queue(log, done[p], n), ev) = Queue(log2, done[p], n + 1)
      OBVIOUS
    <3>2. PICK d \in 0 .. n : d = done[p]
      BY <1>2
    <3>3. Append(Queue(log, d, n), ev) = Queue(log2, d, n + 1)
      <4>1. n \in Nat /\ log2[n + 1] = ev /\ \A i \in 1 .. n : log2[i] = log[i]
        BY <1>2, <1>4
      <4>2. Append(Queue(log, d, n), log2[n + 1]) = Queue(log2, d, n + 1)
        BY <4>1, QueueAppend, Zenon
      <4> QED
        BY <4>1, <4>2
    <3> QED
      BY <3>2, <3>3
  <2>2. Queue(log, n, n) = <<>> /\ Queue(log2, n + 1, n + 1) = <<>>
    <3>1. ASSUME NEW l, NEW m \in Nat
          PROVE  Queue(l, m, m) = <<>>
      <4>1. m \in 0 .. m
        OBVIOUS
      <4> QED
        BY <4>1, QueueHead
    <3> QED
      BY <1>2, <1>4, <3>1
  <2>3. \A p \in Rank : bcasts'[p] = Queue(log2, done2[p], n + 1)
    BY <1>2, <1>3, <1>4, <2>1, <2>2 DEF Bcast, WithBcast
  <2>4. bcasts' = [p \in Rank |-> bcasts'[p]]
    BY DEF Bcast, WithBcast
  <2> QED
    BY <2>3, <2>4
<1>6. LogIs(n + 1, log2, plans2, done2)'
  <2>1. \A i \in 0 .. n + 1 : Good(plans2[i])
    <3>1. Good(q)
      BY <1>1, <1>2, AfterGood
    <3>2. \A i \in 0 .. n + 1 : i = n + 1 \/ i \in 0 .. n
      BY <1>2
    <3> QED
      BY <1>2, <1>4, <3>1, <3>2
  <2>2. ASSUME NEW i \in 1 .. n + 1
        PROVE  Legal(plans2[i - 1], log2[i]) /\ plans2[i] = After(plans2[i - 1], log2[i])
    <3>1. CASE i = n + 1
      <4>1. i - 1 = n /\ n \in 0 .. n
        BY <1>2, <3>1
      <4>2. plans2[i - 1] = front /\ log2[i] = ev /\ plans2[i] = q
        BY <1>1, <1>4, <3>1, <4>1
      <4> QED
        BY <4>2
    <3>2. CASE i \in 1 .. n
      <4>1. i - 1 \in 0 .. n /\ i \in 0 .. n
        BY <1>2, <3>2
      <4>2. plans2[i - 1] = plans[i - 1] /\ log2[i] = log[i] /\ plans2[i] = plans[i]
        BY <1>4, <3>2, <4>1
      <4> QED
        BY <1>2, <3>2, <4>2
    <3>3. i = n + 1 \/ i \in 1 .. n
      BY <1>2
    <3> QED
      BY <3>1, <3>2, <3>3
  <2>3. ASSUME NEW p \in Rank, NEW i \in done2[p] + 1 .. n + 1
        PROVE  log2[i].root \in Rank \ {p}
    <3>1. p # r
      BY <1>2, <1>4
    <3>2. done2[p] = done[p] /\ done[p] \in 0 .. n
      BY <1>2, <1>4, <3>1
    <3>3. CASE i = n + 1
      BY <1>4, <3>1, <3>3
    <3>4. CASE i # n + 1
      <4>1. i \in done[p] + 1 .. n /\ i \in 1 .. n
        BY <1>2, <3>2, <3>4
      <4> QED
        BY <1>2, <1>4, <4>1
    <3> QED
      BY <3>3, <3>4
  <2>4. log2[n + 1].root = r /\ done2[r] = n + 1
    BY <1>4
  <2>5. Ahead(plans2[n + 1])
    <3>1. Good(front)
      BY <1>1, <1>2
    <3>2. Ahead(q)
      BY <1>2, <3>1, AfterAhead
    <3> QED
      BY <1>4, <3>2
  <2> QED
    BY <1>4, <1>5, <2>1, <2>2, <2>3, <2>4, <2>5, LegalSame, AheadSame DEF LogIs
<1>7. KeepUp(n + 1, plans2, done2)
  <2>1. \A p \in Rank : done[p] \in 0 .. n /\ done2[p] \in 0 .. n + 1 /\ done[p] <= done2[p]
    BY <1>2, <1>3, <1>4
  <2>2. ASSUME NEW i \in 0 .. (n + 1) - 1
        PROVE  /\ FirstTurn(plans2[i], 1) => done2[0] >= i /\ done2[RankOf(0)] >= i
               /\ plans2[i].phase = "edit1" => done2[0] >= i
    <3>1. 0 \in Rank /\ RankOf(0) \in Rank
      BY TopIs DEF RankOf
    <3>2. i \in 0 .. n /\ plans2[i] = plans[i]
      BY <1>2, <1>4
    <3>3. CASE i = n
      <4>1. /\ FirstTurn(plans[i], 1) => done[0] = n /\ done[RankOf(0)] = n
            /\ plans[i].phase = "edit1" => done[0] = n
        BY <1>1, <3>1, <3>3
      <4> QED
        BY <1>2, <2>1, <3>1, <3>2, <3>3, <4>1
    <3>4. CASE i # n
      <4>1. i \in 0 .. n - 1
        BY <1>2, <3>2, <3>4
      <4>2. /\ FirstTurn(plans[i], 1) => done[0] >= i /\ done[RankOf(0)] >= i
            /\ plans[i].phase = "edit1" => done[0] >= i
        BY <1>1, <4>1 DEF KeepUp
      <4> QED
        BY <2>1, <3>1, <3>2, <4>2
    <3> QED
      BY <3>3, <3>4
  <2>3. ASSUME NEW t \in 1 .. Top, NEW k \in done2[RankOf(t)] .. n + 1, FirstTurn(plans2[k], 1),
               NEW i \in k + 1 .. n + 1
        PROVE  NotPast(plans2[i], t)
    <3>1. RankOf(t) \in Rank
      BY TopIs DEF RankOf
    <3>2. RankOf(t) # r
      BY <1>2, <1>4
    <3>3. k \in done[RankOf(t)] .. n /\ k \in 0 .. n /\ plans2[k] = plans[k]
      BY <1>2, <1>4, <2>1, <3>1, <3>2
    <3>4. CASE i # n + 1
      <4>1. i \in k + 1 .. n /\ plans2[i] = plans[i]
        BY <1>2, <1>4, <3>3, <3>4
      <4> QED
        BY <1>1, <2>3, <3>3, <4>1 DEF KeepUp
    <3>5. CASE i = n + 1
      <4>1. FirstTurn(plans[n], 1) \/ NotPast(plans[n], t)
        <5>1. CASE k = n
          BY <2>3, <3>3, <5>1
        <5>2. CASE k # n
          <6>1. n \in k + 1 .. n
            BY <1>2, <3>3, <5>2
          <6> QED
            BY <1>1, <2>3, <3>3, <6>1 DEF KeepUp
        <5> QED
          BY <5>1, <5>2
      <4>2. Good(front) /\ ev.root # RankOf(t)
        BY <1>1, <1>2, <3>2
      <4>3. NotPast(q, t)
        BY <1>1, <4>1, <4>2, NotPastAfter
      <4> QED
        BY <1>4, <3>5, <4>3
    <3> QED
      BY <3>4, <3>5
  <2> QED
    BY <2>2, <2>3 DEF KeepUp
<1>8. view2 = [p \in Rank |-> plans2[done2[p]]]
  BY <1>1, <1>2, <1>4
<1>9. q = plans2[n + 1]
  BY <1>4
<1>10. at2 = [p \in Rank |-> done2[p] = n + 1]
  <2>1. \A p \in Rank : (p = r) = (done2[p] = n + 1)
    BY <1>2, <1>4
  <2> QED
    BY <1>0, <2>1
<1>11. Log(view2, q, at2)'
  BY <1>6, <1>7, <1>8, <1>9, <1>10 DEF Log
<1>12. at2[r] /\ \A p \in Rank \ {r} : ~at2[p]
  BY <1>0
<1> QED
  BY <1>11, <1>12

\* All ranks have replayed the log and take part in the allreduce.
LEMMA LogReduce ==
  ASSUME NEW view, NEW front, NEW at, Log(view, front, at), seed \in Seeds, seed' = seed,
         \A r \in Rank : at[r], NEW ev, Legal(front, ev), bcasts' = bcasts,
         NEW q, q = After(front, ev),
         NEW view2, view2 = [r \in Rank |-> q]
  PROVE  \E at2 : Log(view2, q, at2)' /\ \A r \in Rank : at2[r]
<1>1. PICK n, log, plans, done :
        /\ LogIs(n, log, plans, done) /\ KeepUp(n, plans, done)
        /\ view = [p \in Rank |-> plans[done[p]]]
        /\ front = plans[n]
        /\ at = [p \in Rank |-> done[p] = n]
  BY DEF Log
<1>2. \A p \in Rank : bcasts[p] = <<>>
  BY LogView
<1>3. bcasts = [p \in Rank |-> bcasts[p]]
  BY <1>1 DEF LogIs
<1>4. Good(q) /\ Ahead(q)
  <2>1. Good(front) /\ Ahead(front)
    BY <1>1 DEF LogIs
  <2> QED
    BY <2>1, AfterGood, AfterAhead
<1>5. PICK plans2, done2 :
        /\ plans2[0] = q /\ done2 \in [Rank -> 0 .. 0] /\ \A p \in Rank : done2[p] = 0
  <2>1. [i \in 0 .. 0 |-> q][0] = q
    OBVIOUS
  <2>2. [p \in Rank |-> 0] \in [Rank -> 0 .. 0] /\ \A p \in Rank : [r \in Rank |-> 0][p] = 0
    OBVIOUS
  <2> QED
    BY <2>1, <2>2
<1>6. ASSUME NEW l
      PROVE  Queue(l, 0, 0) = <<>>
  <2>1. 0 \in Nat /\ 0 \in 0 .. 0
    OBVIOUS
  <2> QED
    BY <2>1, QueueHead
<1>7. LogIs(0, <<>>, plans2, done2)'
  <2>1. \A i \in 0 .. 0 : Good(plans2[i])
    BY <1>4, <1>5
  <2>2. bcasts' = [p \in Rank |-> Queue(<<>>, done2[p], 0)]
    BY <1>2, <1>3, <1>5, <1>6
  <2>3. \A i \in 1 .. 0 : Legal(plans2[i - 1], <<>>[i])'
    OBVIOUS
  <2>4. Ahead(plans2[0])'
    BY <1>4, <1>5, AheadSame
  <2> QED
    BY <1>5, <2>1, <2>2, <2>4 DEF LogIs
<1>8. KeepUp(0, plans2, done2)
  <2>1. \A t \in 1 .. Top : RankOf(t) \in Rank
    BY TopIs DEF RankOf
  <2> QED
    BY <1>5, <2>1 DEF KeepUp
<1>9. PICK at2 : at2 = [p \in Rank |-> done2[p] = 0]
  OBVIOUS
<1>10. view2 = [p \in Rank |-> plans2[done2[p]]]
  BY <1>5
<1>11. \A r \in Rank : at2[r]
  BY <1>5, <1>9
<1>12. PICK l : l = <<>>
  OBVIOUS
<1>13. PICK z : z = 0
  OBVIOUS
<1>14. LogIs(z, l, plans2, done2)' /\ KeepUp(z, plans2, done2)
  BY <1>7, <1>8, <1>12, <1>13
<1>15. /\ view2 = [p \in Rank |-> plans2[done2[p]]]
       /\ q = plans2[z]
       /\ at2 = [p \in Rank |-> done2[p] = z]
  BY <1>5, <1>9, <1>10, <1>13
<1>16. Log(view2, q, at2)'
  BY <1>14, <1>15 DEF Log
<1> QED
  BY <1>11, <1>16

\* The owner of a plan has replayed all the log; in the allreduce all have.
LEMMA LogOwner ==
  ASSUME NEW view, NEW front, NEW at, Log(view, front, at), NEW r \in Rank,
         Owner(view[r]) \notin Rank \ {r}
  PROVE  at[r] /\ view[r] = front /\ bcasts[r] = <<>>
<1>1. SUFFICES ASSUME ~at[r]
               PROVE  FALSE
  BY LogView
<1>2. Legal(view[r], Head(bcasts[r])) /\ Head(bcasts[r]).root \in Rank \ {r}
  BY <1>1, LogView
<1> QED
  BY <1>2 DEF Legal

\* Who is between two batches is between the same two as the input node.
LEMMA LogQuiet ==
  ASSUME NEW view, NEW front, NEW at, Log(view, front, at), view[0].phase = "idle",
         NEW r \in Rank, view[r].phase = "idle"
  PROVE  at[r] /\ view[r] = front
<1>0. 0 \in Rank
  BY TopIs
<1>1. front.phase = "idle"
  <2>1. Owner(view[0]) = 0
    BY DEF Owner
  <2> QED
    BY <1>0, <2>1, LogOwner
<1>2. PICK n, log, plans, done :
        /\ LogIs(n, log, plans, done)
        /\ view = [p \in Rank |-> plans[done[p]]]
        /\ front = plans[n]
        /\ at = [p \in Rank |-> done[p] = n]
  BY DEF Log
<1>3. /\ n \in Nat /\ done[r] \in 0 .. n
      /\ \A i \in done[r] + 1 .. n : log[i].root \in Rank \ {r}
      /\ \A i \in 1 .. n : Legal(plans[i - 1], log[i]) /\ plans[i] = After(plans[i - 1], log[i])
  BY <1>2 DEF LogIs
<1>4. PICK d \in 0 .. n : d = done[r]
  BY <1>3
<1>5. plans[d].phase = "idle" /\ view[r] = plans[d] /\ at[r] = (d = n)
  BY <1>2, <1>4
<1>6. SUFFICES ASSUME d # n
               PROVE  FALSE
  BY <1>2, <1>5
<1>7. d + 1 \in 1 .. n /\ (d + 1) - 1 = d
  BY <1>3, <1>6
<1>8. Legal(plans[d], log[d + 1]) /\ plans[d + 1] = After(plans[d], log[d + 1])
  <2>1. /\ Legal(plans[(d + 1) - 1], log[d + 1])
        /\ plans[d + 1] = After(plans[(d + 1) - 1], log[d + 1])
    BY <1>3, <1>7
  <2> QED
    BY <1>7, <2>1
<1>9. plans[d + 1].phase \in {"reduce", "end"}
  <2>1. log[d + 1].msg.kind \in {"batch", "end"}
    BY <1>5, <1>8, LegalCases
  <2> QED
    BY <1>8, <2>1, AfterIs
<1>10. d + 1 # n
  BY <1>1, <1>2, <1>9
<1>11. d + 2 \in 1 .. n /\ d + 2 \in d + 1 .. n /\ (d + 2) - 1 = d + 1
  BY <1>3, <1>7, <1>10
<1>12. log[d + 2].root = Owner(plans[d + 1])
  <2>1. Legal(plans[(d + 2) - 1], log[d + 2])
    BY <1>3, <1>11
  <2>2. Legal(plans[d + 1], log[d + 2])
    BY <1>11, <2>1
  <2> QED
    BY <2>2 DEF Legal
<1>13. Owner(plans[d + 1]) \notin Rank
  BY <1>9, TopIs DEF Owner
<1> QED
  BY <1>3, <1>4, <1>11, <1>12, <1>13

\* Of two ranks that are about to begin an update neither is behind: a node
\* does not pass two first turns without its own turn in between.
LEMMA LogAligned ==
  ASSUME NEW view, NEW front, NEW at, Log(view, front, at), FirstTurn(front, 1),
         NEW t \in 1 .. Top, FirstTurn(view[RankOf(t)], 1)
  PROVE  at[RankOf(t)] /\ view[RankOf(t)] = front
<1>1. PICK n, log, plans, done :
        /\ LogIs(n, log, plans, done) /\ KeepUp(n, plans, done)
        /\ view = [p \in Rank |-> plans[done[p]]]
        /\ front = plans[n]
        /\ at = [p \in Rank |-> done[p] = n]
  BY DEF Log
<1>2. RankOf(t) \in Rank
  BY TopIs DEF RankOf
<1>3. n \in Nat /\ done[RankOf(t)] \in 0 .. n
  BY <1>1, <1>2 DEF LogIs
<1>4. PICK d \in 0 .. n : d = done[RankOf(t)]
  BY <1>3
<1>5. view[RankOf(t)] = plans[d] /\ at[RankOf(t)] = (d = n)
  BY <1>1, <1>2, <1>4
<1>6. SUFFICES ASSUME d # n
               PROVE  FALSE
  BY <1>1, <1>5
<1>7. d \in done[RankOf(t)] .. n /\ n \in d + 1 .. n
  BY <1>3, <1>4, <1>6
<1>8. NotPast(plans[n], t)
  BY <1>1, <1>5, <1>7 DEF KeepUp
<1> QED
  BY <1>1, <1>8 DEF NotPast


-----------------------------------------------------------------------------
(* The steps of the tiers' nodes: what they leave alone, and that all      *)
(* nodes are in step behind each of them.                                  *)

\* What a step leaves alone.
LEMMA TierFrame ==
  ASSUME seed' = seed, NEW t \in Tier, node'[t] = node[t], ett'[t] = ett[t],
         sketch'[t] = sketch[t], NEW s, TierFollows(t, s)
  PROVE  TierFollows(t, s)'
<1>1. /\ \A i, G, F, v : Sampled(i, G, F, v)' = Sampled(i, G, F, v)
      /\ GotSizes(t)' <=> GotSizes(t)
  BY DEF Sampled, GotSizes
<1>2. \A G, F, b : Goods(t, G, F, b)' = Goods(t, G, F, b)
  BY DEF Goods, GoodAfter, Sampled
<1>3. \A ends : ToldSizes(s, ends)' <=> ToldSizes(s, ends)
  BY DEF ToldSizes, SeenSamples, Sampled
<1>4. TierReduces(t, s) => TierReduces(t, s)'
  BY <1>1, <1>2 DEF TierReduces
<1>5. TierStarts(t, s) => TierStarts(t, s)'
  BY DEF TierStarts
<1>6. TierRefreshes(t, s) => TierRefreshes(t, s)'
  BY <1>3 DEF TierRefreshes
<1> QED
  BY <1>4, <1>5, <1>6 DEF TierFollows

\* The input node follows its plan when its state does not change.
LEMMA InputFrame ==
  ASSUME graph' = graph, lct' = lct, queryEtt' = queryEtt, inp' = inp, NEW s, InputFollows(s)
  PROVE  InputFollows(s)'
BY DEF InputFollows, InputShape

\* The nodes that take no part in a step.
LEMMA OthersFollow ==
  ASSUME seed' = seed, NEW t \in Tier, NEW view, NEW view2,
         \A u \in Tier : TierFollows(u, view[RankOf(u)]),
         \A u \in Tier \ {t} : /\ node'[u] = node[u] /\ ett'[u] = ett[u] /\ sketch'[u] = sketch[u]
                               /\ view2[RankOf(u)] = view[RankOf(u)],
         TierFollows(t, view2[RankOf(t)])'
  PROVE  \A u \in Tier : TierFollows(u, view2[RankOf(u)])'
<1>1. ASSUME NEW u \in Tier, u # t
      PROVE  TierFollows(u, view2[RankOf(u)])'
  <2>1. PICK s : s = view[RankOf(u)]
    OBVIOUS
  <2>2. TierFollows(u, s)'
    BY <1>1, <2>1, TierFrame
  <2> QED
    BY <1>1, <2>1, <2>2
<1> QED
  BY <1>1

-----------------------------------------------------------------------------
(* Messages.                                                               *)

\* A node outside the exchange of sizes leaves its messages alone.
LEMMA SizesKept ==
  ASSUME NEW front, \A u \in 0 .. Top - 1 : SizesSent(u, front),
         \A u \in Tier : \/ node'[u] = node[u]
                         \/ /\ node[u].pc \notin {"sizes2", "allreduce"}
                            /\ node'[u].pc \notin {"sizes2", "allreduce"},
         \A u \in 0 .. Top - 1 : p2p'[RankOf(u + 1)][RankOf(u)] = p2p[RankOf(u + 1)][RankOf(u)],
         NEW front2,
         (front2.L = front.L /\ front2.b = front.b) \/ \A u \in Tier : ~SentSizes(u)
  PROVE  \A u \in 0 .. Top - 1 : SizesSent(u, front2)'
<1>1. SUFFICES ASSUME NEW u \in 0 .. Top - 1
               PROVE  SizesSent(u, front2)'
  OBVIOUS
<1>2. u \in Tier /\ u + 1 \in Tier
  BY TopIs
<1>3. \A t \in Tier : (GotSizes(t)' <=> GotSizes(t)) /\ (SentSizes(t)' <=> SentSizes(t))
  BY DEF GotSizes, SentSizes
<1>4. SizesSent(u, front)
  BY <1>1
<1>5. CASE front2.L = front.L /\ front2.b = front.b
  BY <1>1, <1>2, <1>3, <1>4, <1>5 DEF SizesSent
<1>6. CASE ~SentSizes(u + 1)
  BY <1>1, <1>2, <1>3, <1>4, <1>6 DEF SizesSent
<1> QED
  BY <1>2, <1>5, <1>6

\* The refresh messages are right when nobody has sent or received one.
LEMMA RefreshKept ==
  ASSUME seed' = seed, NEW front, NEW at, \A T \in Tier : RefreshSent(T, front, at), NEW at2,
         \A T \in Tier : /\ p2p'[T][RankOf(T)] = p2p[T][RankOf(T)]
                         /\ SentRefresh(T, front, at2)' <=> SentRefresh(T, front, at)
                         /\ GotRefresh(T, front, at2)' <=> GotRefresh(T, front, at)
  PROVE  \A T \in Tier : RefreshSent(T, front, at2)'
<1>1. \A ends : ToldSizes(front, ends)' <=> ToldSizes(front, ends)
  BY DEF ToldSizes, SeenSamples, Sampled
<1> QED
  BY <1>1 DEF RefreshSent

\* After a broadcast no refresh is under way.
LEMMA RefreshNone ==
  ASSUME NEW front, NEW at,
         \A T \in Tier : /\ p2p'[T][RankOf(T)] = <<>>
                         /\ ~SentRefresh(T, front, at)'
                         /\ ~GotRefresh(T, front, at)'
  PROVE  \A T \in Tier : RefreshSent(T, front, at)'
BY DEF RefreshSent

\* The input node's answers are right when nobody has sent or received one.
LEMMA AnswerKept ==
  ASSUME NEW front, NEW at, \A T \in 1 .. Top : AnswerSent(T, front, at), NEW at2,
         at2[0] = at[0],
         \A T \in 1 .. Top : /\ p2p'[0][RankOf(T)] = p2p[0][RankOf(T)]
                             /\ \/ node'[T] = node[T]
                                \/ /\ node[T].pc \notin {"lct", "link"}
                                   /\ node'[T].pc \notin {"lct", "link"}
  PROVE  \A T \in 1 .. Top : AnswerSent(T, front, at2)'
BY DEF AnswerSent

\* A step of a tier's node without a message, outside the exchanges of sizes and
\* of the cycle's edge.
LEMMA TierMessages ==
  ASSUME seed' = seed, p2p' = p2p, inp' = inp, NEW front, NEW at, MessagesFit(front, at),
         NEW t \in Tier, \A u \in Tier \ {t} : node'[u] = node[u],
         node[t].pc \notin {"sizes2", "allreduce", "lct", "link"},
         node'[t].pc \notin {"sizes2", "allreduce", "lct", "link"},
         NEW at2, \A p \in Rank \ {RankOf(t)} : at2[p] = at[p],
         t # Top => (SentRefresh(t + 1, front, at2)' <=> SentRefresh(t + 1, front, at)),
         GotRefresh(t, front, at2)' <=> GotRefresh(t, front, at)
  PROVE  MessagesFit(front, at2)'
<1>1. \A u \in 0 .. Top - 1 : SizesSent(u, front)'
  BY SizesKept DEF MessagesFit
<1>2. \A T \in Tier : SentRefresh(T, front, at2)' <=> SentRefresh(T, front, at)
  <2>1. SUFFICES ASSUME NEW T \in Tier
                 PROVE  SentRefresh(T, front, at2)' <=> SentRefresh(T, front, at)
    OBVIOUS
  <2>2. CASE T = t + 1
    BY <2>1, <2>2, TopIs
  <2>3. CASE T # t + 1
    <3>1. at2[T] = at[T]
      BY <2>1, <2>3, TopIs DEF RankOf
    <3>2. T # 0 => node'[T - 1] = node[T - 1]
      BY <2>1, <2>3, TopIs
    <3> QED
      BY <3>1, <3>2 DEF SentRefresh
  <2> QED
    BY <2>2, <2>3
<1>3. \A T \in Tier : GotRefresh(T, front, at2)' <=> GotRefresh(T, front, at)
  <2>1. SUFFICES ASSUME NEW T \in Tier, T # t
                 PROVE  GotRefresh(T, front, at2)' <=> GotRefresh(T, front, at)
    OBVIOUS
  <2>2. at2[RankOf(T)] = at[RankOf(T)] /\ node'[T] = node[T]
    BY <2>1, TopIs DEF RankOf
  <2> QED
    BY <2>2 DEF GotRefresh
<1>4. \A T \in Tier : RefreshSent(T, front, at2)'
  BY <1>2, <1>3, RefreshKept DEF MessagesFit
<1>5. \A T \in 1 .. Top : AnswerSent(T, front, at2)'
  <2>1. at2[0] = at[0]
    BY TopIs DEF RankOf
  <2>2. \A T \in 1 .. Top : T \in Tier
    BY TopIs
  <2> QED
    BY <2>1, <2>2, AnswerKept DEF MessagesFit
<1> QED
  BY <1>1, <1>4, <1>5 DEF MessagesFit, OthersSilent

-----------------------------------------------------------------------------
(* The rounds of a refresh, of a tier and of the plan.                     *)

\* The fields of a tier node's state.
LEMMA Fields ==
  DOMAIN TierIdle = {"pc", "updates", "sizes", "next", "good", "cut", "idx", "tier", "side",
                     "edits", "ends"}
BY DEF TierIdle

\* NextTier by its cases.
LEMMA NextTierIs ==
  ASSUME NEW t, NEW x, DOMAIN x = DOMAIN TierIdle, NEW y, y = NextTier(t, x)
  PROVE  /\ DOMAIN y = DOMAIN TierIdle
         /\ x.tier < Top /\ x.tier + 1 = t =>
              /\ y.pc = "refresh" /\ y.updates = x.updates /\ y.idx = x.idx /\ y.tier = t
              /\ y.side = 1 /\ y.edits = x.edits /\ y.ends = x.ends
         /\ x.tier < Top /\ x.tier + 1 # t =>
              /\ y.pc = "listen" /\ y.updates = x.updates /\ y.idx = x.idx
              /\ y.tier = x.tier + 1 /\ y.side = 1 /\ y.edits = 0 /\ y.ends = x.ends
         /\ ~(x.tier < Top) /\ x.idx < Len(x.updates) =>
              /\ y.pc = "start" /\ y.updates = x.updates /\ y.idx = x.idx + 1 /\ y.tier = 0
              /\ y.side = 1 /\ y.edits = 0 /\ y.ends = x.ends
         /\ ~(x.tier < Top) /\ ~(x.idx < Len(x.updates)) => y = TierIdle
<1>1. ASSUME x.tier < Top
      PROVE  y = EnterTier(t, x, x.tier + 1)
  BY <1>1 DEF NextTier
<1>2. CASE x.tier < Top /\ x.tier + 1 = t
  BY <1>1, <1>2, Fields DEF EnterTier
<1>3. CASE x.tier < Top /\ x.tier + 1 # t
  BY <1>1, <1>3, Fields DEF EnterTier
<1>4. CASE ~(x.tier < Top) /\ x.idx < Len(x.updates)
  BY <1>4, Fields DEF NextTier
<1>5. CASE ~(x.tier < Top) /\ ~(x.idx < Len(x.updates))
  BY <1>5, Fields DEF NextTier
<1> QED
  BY <1>2, <1>3, <1>4, <1>5

\* A node that is done with the rounds of one tier follows the plan's next turn.
LEMMA NextTierFollows ==
  ASSUME NEW t \in Tier, NEW s, Good(s), s.idx # 0, s.side = 2,
         NEW x, DOMAIN x = DOMAIN TierIdle, x.updates = s.b, x.idx = s.idx, x.tier = s.tier,
         x.ends = <<>>, x.edits \in {0, 1}, s.tier + 1 = t => t # 0,
         NEW L, Weighted(L), DOMAIN L \subseteq s.G,
         NEW q, q = NextTurn(s, L),
         node'[t] = NextTier(t, x), ett'[t] = Below(L, t), sketch'[t] = s.G
  PROVE  /\ TierFollows(t, q)'
         /\ node'[t].pc \in {"refresh", "listen", "start", "batch"}
         /\ node'[t].pc = "listen" => q.tier = s.tier + 1 /\ q.tier # t
<1> DEFINE y == node'[t]
<1>0. /\ s.tier \in 1 .. Top /\ s.b \in Seq(UpdateMessage) /\ s.idx \in 1 .. Len(s.b)
      /\ s.side # 1 /\ s.G \in SUBSET Edge /\ Top \in Nat /\ Len(s.b) \in Nat
  BY TopIs DEF Good
<1>1. CASE s.tier < Top /\ s.tier + 1 = t
  <2>1. /\ DOMAIN y = DOMAIN TierIdle
        /\ y.pc = "refresh" /\ y.updates = x.updates /\ y.idx = x.idx /\ y.tier = t
        /\ y.side = 1 /\ y.edits = x.edits /\ y.ends = x.ends
    BY <1>1, NextTierIs
  <2>2. /\ q.phase = "turn" /\ q.b = s.b /\ q.idx = s.idx /\ q.tier = s.tier + 1
        /\ q.side = 1 /\ q.L = L /\ q.G = s.G
    BY <1>0, <1>1, NextTurnIs
  <2>3. FirstTurn(q, IF t = 0 THEN 1 ELSE t)
    BY <1>1, <2>2, <1>0 DEF FirstTurn
  <2>4. TierRefreshes(t, q)'
    BY <1>1, <2>1, <2>2, <2>3 DEF TierRefreshes
  <2> QED
    BY <2>1, <2>4 DEF TierFollows, NodeShape
<1>2. CASE s.tier < Top /\ s.tier + 1 # t
  <2>1. /\ DOMAIN y = DOMAIN TierIdle
        /\ y.pc = "listen" /\ y.updates = x.updates /\ y.idx = x.idx /\ y.tier = x.tier + 1
        /\ y.side = 1 /\ y.edits = 0 /\ y.ends = x.ends
    BY <1>2, NextTierIs
  <2>2. /\ q.phase = "turn" /\ q.b = s.b /\ q.idx = s.idx /\ q.tier = s.tier + 1
        /\ q.side = 1 /\ q.L = L /\ q.G = s.G
    BY <1>0, <1>2, NextTurnIs
  <2>3. TierRefreshes(t, q)'
    BY <1>2, <2>1, <2>2 DEF TierRefreshes
  <2> QED
    BY <1>2, <2>1, <2>2, <2>3 DEF TierFollows, NodeShape
<1>3. CASE ~(s.tier < Top) /\ s.idx < Len(s.b)
  <2>1. /\ DOMAIN y = DOMAIN TierIdle
        /\ y.pc = "start" /\ y.updates = x.updates /\ y.idx = x.idx + 1 /\ y.tier = 0
        /\ y.side = 1 /\ y.edits = 0 /\ y.ends = x.ends
    BY <1>3, NextTierIs
  <2>2. q = Begin(s.b, s.idx + 1, L, s.G)
    BY <1>0, <1>3, NextTurnIs
  <2>3. /\ q.phase = "turn" /\ q.b = s.b /\ q.idx = s.idx + 1 /\ q.tier = 1 /\ q.side = 1
        /\ q.prev = L /\ q.G = Toggle(s.G, EdgeOf(q.b[q.idx]))
    BY <2>2, BeginIs
  <2>4. Toggle(q.G, EdgeOf(q.b[q.idx])) = s.G
    BY <2>3, ToggleTwice
  <2>5. TierStarts(t, q)'
    BY <2>1, <2>3, <2>4 DEF TierStarts, FirstTurn
  <2> QED
    BY <2>1, <2>5 DEF TierFollows, NodeShape
<1>4. CASE ~(s.tier < Top) /\ ~(s.idx < Len(s.b))
  <2>1. y = TierIdle
    BY <1>4, NextTierIs
  <2>2. q = Between(L, s.G)
    BY <1>0, <1>4, NextTurnIs
  <2>3. q.phase = "idle" /\ q.L = L /\ q.G = s.G
    BY <2>2, BetweenIs
  <2>4. y.pc = "batch"
    BY <2>1 DEF TierIdle
  <2> QED
    BY <2>1, <2>3, <2>4 DEF TierFollows, NodeShape
<1> QED
  BY <1>1, <1>2, <1>3, <1>4

\* A node that has heard the end of a round.
LEMMA NextListenFollows ==
  ASSUME NEW t \in Tier, NEW s, Good(s), s.idx # 0,
         NEW x, DOMAIN x = DOMAIN TierIdle, x.updates = s.b, x.idx = s.idx, x.tier = s.tier,
         x.side = s.side, x.ends = <<>>, x.edits \in {0, 1}, s.tier # t,
         NEW L, Weighted(L), DOMAIN L \subseteq s.G,
         NEW q, q = NextTurn(s, L),
         node'[t] = NextListen(t, x), ett'[t] = Below(L, t), sketch'[t] = s.G
  PROVE  /\ TierFollows(t, q)'
         /\ node'[t].pc \in {"refresh", "listen", "start", "batch"}
         /\ node'[t].pc = "listen" => ~FirstTurn(q, t + 1)
<1>0. s.tier \in 1 .. Top /\ s.side \in {1, 2}
  BY DEF Good
<1>1. CASE s.side = 1
  <2>1. node'[t] = [x EXCEPT !.pc = "listen", !.side = 2, !.edits = 0]
    BY <1>1 DEF NextListen
  <2>2. PICK y : y = node'[t]
    OBVIOUS
  <2>3. /\ DOMAIN y = DOMAIN TierIdle
        /\ y.pc = "listen" /\ y.updates = x.updates /\ y.idx = x.idx /\ y.tier = x.tier
        /\ y.side = 2 /\ y.edits = 0 /\ y.ends = x.ends
    BY <2>1, <2>2, Fields
  <2>4. /\ q.phase = "turn" /\ q.b = s.b /\ q.idx = s.idx /\ q.tier = s.tier
        /\ q.side = 2 /\ q.L = L /\ q.G = s.G
    BY <1>1, NextTurnIs
  <2>5. TierRefreshes(t, q)'
    BY <2>2, <2>3, <2>4 DEF TierRefreshes
  <2> QED
    BY <2>2, <2>3, <2>4, <2>5 DEF TierFollows, NodeShape, FirstTurn
<1>2. CASE s.side = 2
  <2>1. node'[t] = NextTier(t, x)
    BY <1>2 DEF NextListen
  <2>2. s.tier + 1 = t => t # 0
    BY <1>0, TopIs
  <2>3. /\ TierFollows(t, q)'
        /\ node'[t].pc \in {"refresh", "listen", "start", "batch"}
        /\ node'[t].pc = "listen" => q.tier = s.tier + 1 /\ q.tier # t
    BY <1>2, <2>1, <2>2, NextTierFollows
  <2>4. node'[t].pc = "listen" => ~FirstTurn(q, t + 1)
    BY <1>0, <2>3, TopIs DEF FirstTurn
  <2> QED
    BY <2>3, <2>4
<1> QED
  BY <1>0, <1>1, <1>2

-----------------------------------------------------------------------------
(* The places of the nodes in their code.                                  *)

\* What the place of a tier's node in its code says.
LEMMA PlaceOf ==
  ASSUME NEW t \in Tier, NEW s, TierFollows(t, s)
  PROVE  /\ DOMAIN node[t] = DOMAIN TierIdle
         /\ node[t].pc = "batch" =>
              node[t] = TierIdle /\ s.phase = "idle" /\ ett[t] = Below(s.L, t) /\ sketch[t] = s.G
         /\ node[t].pc \in {"sizes", "sizes2", "allreduce"} => TierReduces(t, s)
         /\ node[t].pc \in {"undo", "start"} => TierStarts(t, s)
         /\ node[t].pc \in {"refresh", "forward", "announce", "lct", "link", "listen", "edits"} =>
              TierRefreshes(t, s)
         /\ node[t].pc = "done" => s.phase = "end" /\ ett[t] = Below(s.L, t) /\ sketch[t] = s.G
         /\ node[t].pc \in {"batch", "sizes", "sizes2", "allreduce", "undo", "start", "refresh",
                            "forward", "announce", "lct", "link", "listen", "edits", "done"}
<1>1. TierIdle.pc = "batch" /\ [TierIdle EXCEPT !.pc = "done"].pc = "done"
  BY DEF TierIdle
<1>2. TierReduces(t, s) => node[t].pc \in {"sizes", "sizes2", "allreduce"}
  BY DEF TierReduces
<1>3. TierStarts(t, s) => node[t].pc \in {"undo", "start"}
  BY DEF TierStarts
<1>4. TierRefreshes(t, s) =>
        node[t].pc \in {"refresh", "forward", "announce", "lct", "link", "listen", "edits"}
  BY DEF TierRefreshes
<1> QED
  BY <1>1, <1>2, <1>3, <1>4 DEF TierFollows, NodeShape

\* The place of the input node.
LEMMA InputPlace ==
  ASSUME NEW s, InputFollows(s)
  PROVE  /\ inp.pc \in {"fill", "batch", "return", "allreduce", "undo", "start", "round", "edits",
                        "done"}
         /\ inp.pc \in {"fill", "batch", "return"} => s.phase = "idle"
         /\ inp.pc = "allreduce" => s.phase = "reduce"
         /\ inp.pc \in {"undo", "start"} => FirstTurn(s, 1)
         /\ inp.pc = "round" => s.phase = "turn"
         /\ inp.pc = "edits" => s.phase \in {"edit1", "edit2"}
         /\ inp.pc = "done" => s.phase = "end"
BY DEF InputFollows

\* A step of a tier's node keeps InStep when the node follows the plan it then has.
LEMMA TierKeeps ==
  ASSUME NEW view, NEW front, NEW at, Related(view, front, at), NEW t \in Tier,
         UNCHANGED inputVars, seed' = seed,
         ett' = [u \in Tier |-> ett'[u]], sketch' = [u \in Tier |-> sketch'[u]],
         node' = [u \in Tier |-> node'[u]],
         \A u \in Tier \ {t} : node'[u] = node[u] /\ ett'[u] = ett[u] /\ sketch'[u] = sketch[u],
         NEW view2, NEW front2, NEW at2, Log(view2, front2, at2)',
         \A p \in Rank \ {RankOf(t)} : view2[p] = view[p],
         TierFollows(t, view2[RankOf(t)])', MessagesFit(front2, at2)', StartersAt(at2)'
  PROVE  InStep'
<1>1. InputFollows(view2[0])'
  <2>1. PICK s : s = view[0]
    OBVIOUS
  <2>2. view2[0] = s
    BY <2>1, TopIs DEF RankOf
  <2>3. InputFollows(s)
    BY <2>1 DEF Related
  <2>4. InputFollows(s)'
    BY <2>3, InputFrame DEF inputVars
  <2> QED
    BY <2>2, <2>4
<1>2. \A u \in Tier : TierFollows(u, view2[RankOf(u)])'
  <2>1. \A u \in Tier \ {t} : view2[RankOf(u)] = view[RankOf(u)]
    BY TopIs DEF RankOf
  <2>2. \A u \in Tier : TierFollows(u, view[RankOf(u)])
    BY DEF Related
  <2> QED
    BY <2>1, <2>2, OthersFollow
<1>3. seed \in Seeds
  BY DEF Related
<1>4. Related(view2, front2, at2)'
  BY <1>1, <1>2, <1>3 DEF Related
<1> QED
  BY <1>4 DEF InStep

\* StartersAt is kept by the steps of a tier's node.
LEMMA StartersKept ==
  ASSUME NEW at, StartersAt(at), inp' = inp, NEW t \in Tier,
         \A u \in Tier \ {t} : node'[u] = node[u],
         NEW at2, \A p \in Rank \ {RankOf(t)} : at2[p] = at[p],
         node'[t].pc = "forward" => at2[RankOf(t)],
         t = 0 /\ node'[0].pc \in {"undo", "start", "refresh"} => at2[RankOf(0)]
  PROVE  StartersAt(at2)'
<1>1. \A u \in Tier \ {t} : at2[RankOf(u)] = at[RankOf(u)]
  BY TopIs DEF RankOf
<1>2. at2[0] = at[0] /\ 0 \in Tier
  BY TopIs DEF RankOf
<1> QED
  BY <1>1, <1>2 DEF StartersAt

-----------------------------------------------------------------------------
(* Broadcasts that a tier's node receives.                                 *)

\* A tier's node that takes part in a broadcast keeps in step when it does what the entry says.
LEMMA ReceivesKeep ==
  ASSUME NEW view, NEW front, NEW at, Log(view, front, at), Related(view, front, at),
         NEW t \in Tier, UNCHANGED inputVars, seed' = seed, p2p' = p2p,
         ett' = [u \in Tier |-> ett'[u]], sketch' = [u \in Tier |-> sketch'[u]],
         node' = [u \in Tier |-> node'[u]],
         \A u \in Tier \ {t} : node'[u] = node[u] /\ ett'[u] = ett[u] /\ sketch'[u] = sketch[u],
         bcasts[RankOf(t)] # <<>>, ReceiveBcast(RankOf(t)),
         NEW q, q = After(view[RankOf(t)], Head(bcasts[RankOf(t)])),
         TierFollows(t, q)',
         node[t].pc \in {"batch", "listen", "edits"},
         node'[t].pc \in {"done", "sizes", "edits", "refresh", "listen", "start", "batch"},
         node'[t].pc = "listen" => ~FirstTurn(q, t + 1)
  PROVE  InStep'
<1>1. PICK r \in Rank : r = RankOf(t)
  BY TopIs DEF RankOf
<1>2. PICK view2 : view2 = [view EXCEPT ![r] = q]
  OBVIOUS
<1>3. PICK at2 :
        /\ Log(view2, front, at2)'
        /\ \A p \in Rank \ {r} : at2[p] = at[p]
        /\ at2[r] \in BOOLEAN
        /\ at2[r] => q = front
        /\ r \in {0, 1} /\ FirstTurn(q, 1) => at2[r]
  <2>1. bcasts[r] # <<>> /\ ReceiveBcast(r) /\ q = After(view[r], Head(bcasts[r]))
    BY <1>1
  <2>2. PICK at2 :
          /\ Log(view2, front, at2)'
          /\ CaughtUp(r, Head(bcasts[r]).root, q, front, at, at2)
    BY <1>2, <2>1, LogReceive
  <2> QED
    BY <2>2 DEF CaughtUp
<1>4. ~at[r]
  BY <1>1, LogView
<1>5. t # Top => ~SentRefresh(t + 1, front, at) /\ ~SentRefresh(t + 1, front, at2)'
  <2>1. SUFFICES ASSUME t # Top
                 PROVE  ~SentRefresh(t + 1, front, at) /\ ~SentRefresh(t + 1, front, at2)'
    OBVIOUS
  <2>2. t + 1 = r /\ t + 1 # 0 /\ (t + 1) - 1 = t
    BY <1>1, TopIs DEF RankOf
  <2>3. ~SentRefresh(t + 1, front, at)
    BY <1>4, <2>2 DEF SentRefresh
  <2>4. ~SentRefresh(t + 1, front, at2)'
    BY <1>3, <2>2 DEF SentRefresh
  <2> QED
    BY <2>3, <2>4
<1>6. ~GotRefresh(t, front, at)
  BY <1>1, <1>4 DEF GotRefresh
<1>7. ~GotRefresh(t, front, at2)'
  <2>1. CASE t = 0
    <3>1. t + 1 = 1
      BY <2>1
    <3> QED
      BY <1>1, <1>3, <2>1, <3>1 DEF GotRefresh
  <2>2. CASE t # 0
    BY <2>2 DEF GotRefresh
  <2> QED
    BY <2>1, <2>2
<1>8. MessagesFit(front, at2)'
  <2>1. /\ node[t].pc \notin {"sizes2", "allreduce", "lct", "link"}
        /\ node'[t].pc \notin {"sizes2", "allreduce", "lct", "link"}
        /\ \A p \in Rank \ {RankOf(t)} : at2[p] = at[p]
    BY <1>1, <1>3
  <2>2. MessagesFit(front, at) /\ inp' = inp
    BY DEF Related, inputVars
  <2>3. /\ t # Top => (SentRefresh(t + 1, front, at2)' <=> SentRefresh(t + 1, front, at))
        /\ GotRefresh(t, front, at2)' <=> GotRefresh(t, front, at)
    BY <1>5, <1>6, <1>7
  <2>4. \A u \in Tier \ {t} : node'[u] = node[u]
    OBVIOUS
  <2> QED
    BY <2>1, <2>2, <2>3, <2>4, TierMessages
<1>9. StartersAt(at2)'
  <2>1. t = 0 /\ node'[0].pc \in {"start", "refresh"} => FirstTurn(q, 1)
    <3>1. ASSUME node'[t].pc \in {"start", "refresh"}, t = 0
          PROVE  FirstTurn(q, 1)
      <4>1. TierIdle.pc = "batch" /\ [TierIdle EXCEPT !.pc = "done"].pc = "done"
        BY DEF TierIdle
      <4>2. TierReduces(t, q)' => node'[t].pc \in {"sizes", "sizes2", "allreduce"}
        BY DEF TierReduces
      <4>3. TierStarts(t, q)' => FirstTurn(q, 1)
        BY DEF TierStarts
      <4>4. TierRefreshes(t, q)' => FirstTurn(q, 1)
        BY <3>1 DEF TierRefreshes
      <4> QED
        BY <3>1, <4>1, <4>2, <4>3, <4>4 DEF TierFollows
    <3> QED
      BY <3>1
  <2>2. t = 0 => r = 1
    BY <1>1 DEF RankOf
  <2>3. t = 0 /\ node'[0].pc \in {"undo", "start", "refresh"} => at2[RankOf(0)]
    BY <1>1, <1>3, <2>1, <2>2
  <2>4. StartersAt(at) /\ inp' = inp
    BY DEF Related, inputVars
  <2>5. node'[t].pc # "forward" /\ \A p \in Rank \ {RankOf(t)} : at2[p] = at[p]
    BY <1>1, <1>3
  <2>6. \A u \in Tier \ {t} : node'[u] = node[u]
    OBVIOUS
  <2> QED
    BY <2>3, <2>4, <2>5, <2>6, StartersKept
<1>10. TierFollows(t, view2[RankOf(t)])'
  <2>1. view = [p \in Rank |-> view[p]]
    BY DEF Log
  <2>2. view2[RankOf(t)] = q
    BY <1>1, <1>2, <2>1
  <2> QED
    BY <2>2
<1>11. \A p \in Rank \ {RankOf(t)} : view2[p] = view[p]
  <2>1. view = [p \in Rank |-> view[p]]
    BY DEF Log
  <2> QED
    BY <1>1, <1>2, <2>1
<1> QED
  BY <1>3, <1>8, <1>9, <1>10, <1>11, TierKeeps
\* What rank r is about to take part in may follow its plan.
LEMMA HeadIs ==
  ASSUME NEW view, NEW front, NEW at, Log(view, front, at), NEW t \in Tier, NEW root,
         IncomingFrom(RankOf(t), root)
  PROVE  \E ev, q :
           /\ bcasts[RankOf(t)] # <<>> /\ ev = Head(bcasts[RankOf(t)])
           /\ ev.msg = BcastReceived(RankOf(t))
           /\ q = After(view[RankOf(t)], ev)
           /\ Legal(view[RankOf(t)], ev) /\ Good(view[RankOf(t)])
           /\ seed \in Seeds => Good(q)
<1>1. PICK r \in Rank : r = RankOf(t)
  BY TopIs DEF RankOf
<1>2. bcasts[r] # <<>>
  BY <1>1 DEF IncomingFrom
<1>3. Good(view[r]) /\ Legal(view[r], Head(bcasts[r]))
  BY <1>2, LogView
<1>4. PICK s, ev : s = view[r] /\ ev = Head(bcasts[r])
  OBVIOUS
<1>5. seed \in Seeds => Good(After(s, ev))
  BY <1>3, <1>4, AfterGood
<1> QED
  BY <1>1, <1>2, <1>3, <1>4, <1>5 DEF BcastReceived

\* ReceiveBatch keeps the nodes in step.
LEMMA ReceiveBatchKeeps ==
  ASSUME InStep, NEW t \in Tier, ReceiveBatch(t), UNCHANGED inputVars
  PROVE  InStep'
<1>1. PICK view, front, at : Log(view, front, at) /\ Related(view, front, at)
  BY DEF InStep
<1>2. PICK ev, q :
        /\ bcasts[RankOf(t)] # <<>> /\ ev = Head(bcasts[RankOf(t)])
        /\ ev.msg = BcastReceived(RankOf(t))
        /\ q = After(view[RankOf(t)], ev)
        /\ Legal(view[RankOf(t)], ev)
  BY <1>1, HeadIs DEF ReceiveBatch
<1>3. PICK s : s = view[RankOf(t)]
  OBVIOUS
<1>4. /\ node[t] = TierIdle /\ s.phase = "idle" /\ ett[t] = Below(s.L, t) /\ sketch[t] = s.G
  <2>1. TierFollows(t, s)
    BY <1>1, <1>3 DEF Related
  <2> QED
    BY <2>1, PlaceOf DEF ReceiveBatch
<1>5. PICK b : b = BcastReceived(RankOf(t)).updates
  OBVIOUS
<1>6. /\ q.phase = "reduce" /\ q.b = b /\ q.L = s.L /\ q.G = s.G
  <2>1. ev.msg.kind = "batch" /\ ev.msg.updates = b
    BY <1>2, <1>5 DEF ReceiveBatch
  <2> QED
    BY <1>2, <1>3, <2>1, AfterIs
<1>7. /\ ett = [u \in Tier |-> ett[u]] /\ sketch = [u \in Tier |-> sketch[u]]
      /\ node = [u \in Tier |-> node[u]]
  BY <1>1 DEF Related
<1>8. /\ seed' = seed /\ p2p' = p2p /\ ReceiveBcast(RankOf(t))
  BY DEF ReceiveBatch
<1>9. /\ ett' = [ett EXCEPT ![t] = ForestAfter(ett[t], b, Len(b))]
      /\ sketch' = [sketch EXCEPT ![t] = SketchAfter(sketch[t], b, 1 .. Len(b))]
  BY <1>5 DEF ReceiveBatch
<1>10. PICK x : x = [TierIdle EXCEPT
                 !.pc = "sizes",
                 !.updates = b,
                 !.cut = [i \in DOMAIN b |-> Cuts(Below(s.L, t), b, i)],
                 !.sizes = Sizes(Below(s.L, t), b),
                 !.good = Goods(t, s.G, Below(s.L, t), b)]
  OBVIOUS
<1>11. node' = [node EXCEPT ![t] = x]
  <2>1. Sizes(ett[t], b) = [i \in DOMAIN b |-> <<TreeSize(ForestAfter(ett[t], b, i), b[i].src),
                                                 TreeSize(ForestAfter(ett[t], b, i), b[i].dst)>>]
    BY DEF Sizes, SizesAfter
  <2>2. Goods(t, sketch[t], ett[t], b) =
          [i \in DOMAIN b |->
             <<t # Top /\ Sampled(t, SketchAfter(sketch[t], b, 1 .. i), ForestAfter(ett[t], b, i), b[i].src) # {},
               t # Top /\ Sampled(t, SketchAfter(sketch[t], b, 1 .. i), ForestAfter(ett[t], b, i), b[i].dst) # {}>>]
    BY DEF Goods, GoodAfter
  <2>3. x = [node[t] EXCEPT
              !.pc = "sizes",
              !.updates = b,
              !.cut = [i \in DOMAIN b |-> Cuts(ett[t], b, i)],
              !.sizes = Sizes(ett[t], b),
              !.good = Goods(t, sketch[t], ett[t], b)]
    BY <1>4, <1>10
  <2> QED
    BY <1>5, <2>1, <2>2, <2>3 DEF ReceiveBatch
<1>12. /\ x.pc = "sizes" /\ x.updates = b /\ x.sizes = Sizes(Below(s.L, t), b)
       /\ x.good = Goods(t, s.G, Below(s.L, t), b)
       /\ x.cut = [i \in DOMAIN b |-> Cuts(Below(s.L, t), b, i)]
       /\ x.next = <<>> /\ x.idx = 0 /\ x.tier = 0 /\ x.side = 1 /\ x.edits = 0 /\ x.ends = <<>>
       /\ DOMAIN x = DOMAIN TierIdle
  BY <1>10 DEF TierIdle
<1>13. /\ node'[t] = x /\ \A u \in Tier \ {t} : node'[u] = node[u]
       /\ ett'[t] = ForestAfter(Below(s.L, t), b, Len(b))
       /\ \A u \in Tier \ {t} : ett'[u] = ett[u] /\ sketch'[u] = sketch[u]
       /\ sketch'[t] = SketchAfter(s.G, b, 1 .. Len(b))
       /\ ett' = [u \in Tier |-> ett'[u]] /\ sketch' = [u \in Tier |-> sketch'[u]]
       /\ node' = [u \in Tier |-> node'[u]]
  BY <1>4, <1>7, <1>9, <1>11
<1>14. Goods(t, s.G, Below(s.L, t), b)' = Goods(t, s.G, Below(s.L, t), b)
  BY <1>8 DEF Goods, GoodAfter, Sampled
<1>15. TierFollows(t, q)'
  <2>1. ~GotSizes(t)'
    BY <1>12, <1>13 DEF GotSizes
  <2>2. TierReduces(t, q)'
    BY <1>6, <1>12, <1>13, <1>14, <2>1 DEF TierReduces
  <2> QED
    BY <1>12, <1>13, <2>2 DEF TierFollows, NodeShape
<1>16. node[t].pc = "batch"
  BY DEF ReceiveBatch
<1> QED
  BY <1>1, <1>2, <1>8, <1>12, <1>13, <1>15, <1>16, ReceivesKeep

\* ReceiveEnd keeps the nodes in step.
LEMMA ReceiveEndKeeps ==
  ASSUME InStep, NEW t \in Tier, ReceiveEnd(t), UNCHANGED inputVars
  PROVE  InStep'
<1>1. PICK view, front, at : Log(view, front, at) /\ Related(view, front, at)
  BY DEF InStep
<1>2. PICK ev, q :
        /\ bcasts[RankOf(t)] # <<>> /\ ev = Head(bcasts[RankOf(t)])
        /\ ev.msg = BcastReceived(RankOf(t))
        /\ q = After(view[RankOf(t)], ev)
        /\ Legal(view[RankOf(t)], ev)
  BY <1>1, HeadIs DEF ReceiveEnd
<1>3. PICK s : s = view[RankOf(t)]
  OBVIOUS
<1>4. /\ node[t] = TierIdle /\ s.phase = "idle" /\ ett[t] = Below(s.L, t) /\ sketch[t] = s.G
  <2>1. TierFollows(t, s)
    BY <1>1, <1>3 DEF Related
  <2> QED
    BY <2>1, PlaceOf DEF ReceiveEnd
<1>5. /\ q.phase = "end" /\ q.L = s.L /\ q.G = s.G
  BY <1>2, <1>3, AfterIs DEF ReceiveEnd
<1>6. /\ ett = [u \in Tier |-> ett[u]] /\ sketch = [u \in Tier |-> sketch[u]]
      /\ node = [u \in Tier |-> node[u]]
  BY <1>1 DEF Related
<1>7. /\ seed' = seed /\ p2p' = p2p /\ ReceiveBcast(RankOf(t)) /\ ett' = ett /\ sketch' = sketch
      /\ node' = [node EXCEPT ![t].pc = "done"] /\ node[t].pc = "batch"
  BY DEF ReceiveEnd
<1>8. PICK x : x = [TierIdle EXCEPT !.pc = "done"]
  OBVIOUS
<1>9. x.pc = "done" /\ DOMAIN x = DOMAIN TierIdle
  BY <1>8 DEF TierIdle
<1>10. /\ node'[t] = x /\ \A u \in Tier \ {t} : node'[u] = node[u]
       /\ ett' = [u \in Tier |-> ett'[u]] /\ sketch' = [u \in Tier |-> sketch'[u]]
       /\ node' = [u \in Tier |-> node'[u]]
  BY <1>4, <1>6, <1>7, <1>8
<1>11. TierFollows(t, q)'
  BY <1>4, <1>5, <1>7, <1>8, <1>9, <1>10 DEF TierFollows, NodeShape
<1> QED
  BY <1>1, <1>2, <1>7, <1>9, <1>10, <1>11, ReceivesKeep

\* A cut of the weighted forest, seen from tier t.
LEMMA CutBelow ==
  ASSUME NEW L, Weighted(L), NEW e \in DOMAIN L, NEW t \in Tier
  PROVE  Below(LctCut(L, e), t) = IF t < L[e] THEN Below(L, t) ELSE EttCut(Below(L, t), e)
<1>1. Below(LctCut(L, e), t) = Below(L, t) \ {e}
  BY WeightedCut
<1>2. L[e] \in Nat /\ t \in Nat
  BY TopIs DEF Weighted
<1>3. t < L[e] => e \notin Below(L, t)
  BY <1>2 DEF Below
<1> QED
  BY <1>1, <1>3 DEF EttCut

\* Tier w may link edge e in the forest with weights L.
LinkFits(L, e, w) == Weighted(L) /\ e \in Edge /\ ~Joins(DOMAIN L, e) /\ w \in 1 .. Top

\* The link has made K of L; how tier t sees it.
LinkSeen(K, L, e, w, t) ==
  /\ t < w => Below(K, t) = Below(L, t)
  /\ ~(t < w) => Below(K, t) = EttLink(Below(L, t), e)
  /\ EttLink(DOMAIN L, e) = DOMAIN K
  /\ Weighted(K)
  /\ DOMAIN K = DOMAIN L \cup {e}

\* A link that closes no cycle, seen from tier t.
LEMMA LinkBelow ==
  ASSUME NEW L, NEW e, NEW w, LinkFits(L, e, w), NEW t \in Tier
  PROVE  LinkSeen(LctLink(L, e, w), L, e, w, t)
<1>0. Weighted(L) /\ e \in Edge /\ ~Joins(DOMAIN L, e) /\ w \in 1 .. Top
  BY DEF LinkFits
<1>1. DOMAIN L \in SUBSET Edge /\ Below(L, t) \in SUBSET DOMAIN L
  BY <1>0, BelowTop DEF Weighted
<1>2. e \notin DOMAIN L
  BY <1>0, <1>1, JoinsOwn
<1>3. ~Joins(Below(L, t), e)
  BY <1>0, <1>1, JoinsMonotone
<1>4. /\ Weighted(LctLink(L, e, w))
      /\ DOMAIN LctLink(L, e, w) = DOMAIN L \cup {e}
      /\ Below(LctLink(L, e, w), t) = IF w <= t THEN Below(L, t) \cup {e} ELSE Below(L, t)
  <2>1. /\ Weighted(LctLink(L, e, w))
        /\ DOMAIN LctLink(L, e, w) = DOMAIN L \cup {e}
        /\ e \notin DOMAIN L =>
             \A u \in Tier : Below(LctLink(L, e, w), u)
               = IF w <= u THEN Below(L, u) \cup {e} ELSE Below(L, u)
    BY <1>0, WeightedLink
  <2> QED
    BY <1>2, <2>1
<1>5. w <= t <=> ~(t < w)
  BY <1>0, TopIs
<1> QED
  BY <1>0, <1>3, <1>4, <1>5 DEF EttLink, LinkSeen

\* A node that hears a round of another tier.
LEMMA ListenIs ==
  ASSUME NEW t \in Tier, NEW s, TierFollows(t, s), Good(s), node[t].pc \in {"listen", "edits"},
         NEW x, x = node[t]
  PROVE  /\ x.updates = s.b /\ x.idx = s.idx /\ x.edits \in {0, 1} /\ x.tier = s.tier
         /\ s.tier # t /\ x.side = s.side /\ x.ends = <<>> /\ DOMAIN x = DOMAIN TierIdle
         /\ ett[t] = Below(s.L, t) /\ sketch[t] = s.G
         /\ x.pc = "listen" => s.phase = "turn"
         /\ x.pc = "edits" => s.phase = IF x.edits = 0 THEN "edit1" ELSE "edit2"
         /\ s.idx # 0
<1>1. TierRefreshes(t, s) /\ DOMAIN x = DOMAIN TierIdle
  BY PlaceOf
<1>2. s.phase \in {"turn", "edit1", "edit2"}
  BY <1>1 DEF TierRefreshes
<1>3. s.idx # 0
  BY <1>2 DEF Good
<1> QED
  BY <1>1, <1>3 DEF TierRefreshes

\* Listen keeps the nodes in step.
LEMMA ListenKeeps ==
  ASSUME InStep, NEW t \in Tier, Listen(t), UNCHANGED inputVars
  PROVE  InStep'
<1>1. PICK view, front, at : Log(view, front, at) /\ Related(view, front, at)
  BY DEF InStep
<1>2. PICK ev, q :
        /\ bcasts[RankOf(t)] # <<>> /\ ev = Head(bcasts[RankOf(t)])
        /\ ev.msg = BcastReceived(RankOf(t))
        /\ q = After(view[RankOf(t)], ev)
        /\ Legal(view[RankOf(t)], ev) /\ Good(view[RankOf(t)])
  BY <1>1, HeadIs DEF Listen
<1>3. PICK s, x : s = view[RankOf(t)] /\ x = node[t]
  OBVIOUS
<1>4. /\ x.updates = s.b /\ x.idx = s.idx /\ x.edits \in {0, 1} /\ x.tier = s.tier
      /\ s.tier # t /\ x.side = s.side /\ x.ends = <<>> /\ DOMAIN x = DOMAIN TierIdle
      /\ ett[t] = Below(s.L, t) /\ sketch[t] = s.G /\ s.phase = "turn" /\ s.idx # 0
  <2>1. TierFollows(t, s) /\ Good(s) /\ node[t].pc = "listen"
    BY <1>1, <1>2, <1>3 DEF Related, Listen
  <2> QED
    BY <1>3, <2>1, ListenIs
<1>5. /\ ett = [u \in Tier |-> ett[u]] /\ sketch = [u \in Tier |-> sketch[u]]
      /\ node = [u \in Tier |-> node[u]]
  BY <1>1 DEF Related
<1>6. /\ seed' = seed /\ p2p' = p2p /\ ReceiveBcast(RankOf(t)) /\ ett' = ett /\ sketch' = sketch
      /\ node[t].pc = "listen"
      /\ node' = [node EXCEPT ![t] = IF ev.msg.kind = "isolated"
                                     THEN [x EXCEPT !.pc = "edits", !.edits = 0]
                                     ELSE NextListen(t, x)]
  BY <1>2, <1>3 DEF Listen
<1>7. /\ \A u \in Tier \ {t} : node'[u] = node[u]
      /\ ett' = [u \in Tier |-> ett'[u]] /\ sketch' = [u \in Tier |-> sketch'[u]]
      /\ node' = [u \in Tier |-> node'[u]]
      /\ node'[t] = IF ev.msg.kind = "isolated"
                    THEN [x EXCEPT !.pc = "edits", !.edits = 0] ELSE NextListen(t, x)
      /\ ett'[t] = Below(s.L, t) /\ sketch'[t] = s.G
  BY <1>4, <1>5, <1>6
<1>8. CASE ev.msg.kind = "isolated"
  <2>1. PICK y : y = node'[t]
    OBVIOUS
  <2>2. /\ y.pc = "edits" /\ y.edits = 0 /\ y.updates = x.updates /\ y.idx = x.idx
        /\ y.tier = x.tier /\ y.side = x.side /\ y.ends = x.ends /\ DOMAIN y = DOMAIN x
    BY <1>4, <1>7, <1>8, <2>1, Fields
  <2>3. /\ q.phase = "edit1" /\ q.b = s.b /\ q.idx = s.idx /\ q.tier = s.tier
        /\ q.side = s.side /\ q.L = s.L /\ q.G = s.G
    BY <1>2, <1>3, <1>8, AfterIs
  <2>4. TierRefreshes(t, q)'
    BY <1>4, <1>7, <2>1, <2>2, <2>3 DEF TierRefreshes
  <2>5. TierFollows(t, q)'
    BY <1>4, <2>1, <2>2, <2>4 DEF TierFollows, NodeShape
  <2> QED
    BY <1>1, <1>2, <1>6, <1>7, <2>1, <2>2, <2>5, ReceivesKeep
<1>9. CASE ev.msg.kind # "isolated"
  <2>1. ev.msg.kind = "not_isolated"
    BY <1>2, <1>3, <1>4, <1>9, LegalCases
  <2>2. q = NextTurn(s, s.L)
    BY <1>2, <1>3, <2>1, AfterIs
  <2>3. /\ TierFollows(t, q)'
        /\ node'[t].pc \in {"refresh", "listen", "start", "batch"}
        /\ node'[t].pc = "listen" => ~FirstTurn(q, t + 1)
    <3>1. PICK L : L = s.L
      OBVIOUS
    <3>2. Good(s) /\ Weighted(L) /\ DOMAIN L \subseteq s.G /\ q = NextTurn(s, L)
      BY <1>2, <1>3, <2>2, <3>1 DEF Good
    <3>3. node'[t] = NextListen(t, x) /\ ett'[t] = Below(L, t) /\ sketch'[t] = s.G
      BY <1>7, <1>9, <3>1
    <3> QED
      BY <1>4, <3>2, <3>3, NextListenFollows, Zenon
  <2> QED
    BY <1>1, <1>2, <1>6, <1>7, <2>3, ReceivesKeep
<1> QED
  BY <1>8, <1>9

\* ReceiveTierEdit keeps the nodes in step.
LEMMA ReceiveTierEditKeeps ==
  ASSUME InStep, NEW t \in Tier, ReceiveTierEdit(t), UNCHANGED inputVars
  PROVE  InStep'
<1>1. PICK view, front, at : Log(view, front, at) /\ Related(view, front, at)
  BY DEF InStep
<1>2. PICK ev, q :
        /\ bcasts[RankOf(t)] # <<>> /\ ev = Head(bcasts[RankOf(t)])
        /\ ev.msg = BcastReceived(RankOf(t))
        /\ q = After(view[RankOf(t)], ev)
        /\ Legal(view[RankOf(t)], ev) /\ Good(view[RankOf(t)])
  BY <1>1, HeadIs DEF ReceiveTierEdit
<1>3. PICK s, x, m : s = view[RankOf(t)] /\ x = node[t] /\ m = ev.msg
  OBVIOUS
<1>4. /\ x.updates = s.b /\ x.idx = s.idx /\ x.edits \in {0, 1} /\ x.tier = s.tier
      /\ s.tier # t /\ x.side = s.side /\ x.ends = <<>> /\ DOMAIN x = DOMAIN TierIdle
      /\ ett[t] = Below(s.L, t) /\ sketch[t] = s.G /\ s.idx # 0
      /\ s.phase = IF x.edits = 0 THEN "edit1" ELSE "edit2"
  <2>1. TierFollows(t, s) /\ Good(s) /\ node[t].pc = "edits"
    BY <1>1, <1>2, <1>3 DEF Related, ReceiveTierEdit
  <2> QED
    BY <1>3, <2>1, ListenIs
<1>5. /\ ett = [u \in Tier |-> ett[u]] /\ sketch = [u \in Tier |-> sketch[u]]
      /\ node = [u \in Tier |-> node[u]]
  BY <1>1 DEF Related
<1>6. /\ seed' = seed /\ p2p' = p2p /\ ReceiveBcast(RankOf(t)) /\ sketch' = sketch
      /\ node[t].pc = "edits"
      /\ ett' = [ett EXCEPT ![t] = Edited(t, ett[t], m)]
      /\ node' = [node EXCEPT ![t] = IF m.kind = "cut" /\ x.edits = 0
                                     THEN [x EXCEPT !.edits = 1]
                                     ELSE NextListen(t, x)]
  BY <1>2, <1>3 DEF ReceiveTierEdit
<1>7. /\ \A u \in Tier \ {t} : node'[u] = node[u] /\ ett'[u] = ett[u] /\ sketch'[u] = sketch[u]
      /\ ett' = [u \in Tier |-> ett'[u]] /\ sketch' = [u \in Tier |-> sketch'[u]]
      /\ node' = [u \in Tier |-> node'[u]]
      /\ node'[t] = IF m.kind = "cut" /\ x.edits = 0
                    THEN [x EXCEPT !.edits = 1] ELSE NextListen(t, x)
      /\ ett'[t] = Edited(t, Below(s.L, t), m) /\ sketch'[t] = s.G
  BY <1>4, <1>5, <1>6
<1>8. s.L = s.L /\ Weighted(s.L) /\ DOMAIN s.L \subseteq s.G /\ s.tier \in 1 .. Top /\ Good(s)
      /\ s.G \subseteq Edge /\ s.edge \in s.G
  BY <1>2, <1>3, <1>4 DEF Good
<1>9. CASE s.phase = "edit1" /\ m.kind = "cut"
  <2>1. m.edge \in DOMAIN s.L /\ m.startTier = s.L[m.edge]
    BY <1>2, <1>3, <1>9 DEF Legal, Heaviest, PathEdges
  <2>2. PICK y : y = node'[t]
    OBVIOUS
  <2>3. /\ y.pc = "edits" /\ y.edits = 1 /\ y.updates = x.updates /\ y.idx = x.idx
        /\ y.tier = x.tier /\ y.side = x.side /\ y.ends = x.ends /\ DOMAIN y = DOMAIN x
    BY <1>3, <1>4, <1>6, <1>7, <1>9, <2>2, Fields
  <2>4. /\ q.phase = "edit2" /\ q.b = s.b /\ q.idx = s.idx /\ q.tier = s.tier
        /\ q.side = s.side /\ q.L = LctCut(s.L, m.edge) /\ q.G = s.G
    BY <1>2, <1>3, <1>9, AfterIs
  <2>5. ett'[t] = Below(q.L, t)
    BY <1>7, <1>8, <1>9, <2>1, <2>4, CutBelow DEF Edited
  <2>6. TierRefreshes(t, q)'
    BY <1>4, <1>7, <2>2, <2>3, <2>4, <2>5 DEF TierRefreshes
  <2>7. TierFollows(t, q)'
    BY <1>4, <2>2, <2>3, <2>6 DEF TierFollows, NodeShape
  <2> QED
    BY <1>1, <1>2, <1>6, <1>7, <2>2, <2>3, <2>7, ReceivesKeep
<1>10. CASE m.kind = "link"
  <2>1. m.edge = s.edge /\ m.startTier = s.tier /\ ~Joins(DOMAIN s.L, s.edge)
    BY <1>2, <1>3, <1>10 DEF Legal
  <2>2. PICK L : L = LctLink(s.L, s.edge, s.tier)
    OBVIOUS
  <2>3. q = NextTurn(s, L)
    BY <1>2, <1>3, <1>10, <2>1, <2>2, AfterIs
  <2>4. /\ t < s.tier => Below(L, t) = Below(s.L, t)
        /\ ~(t < s.tier) => Below(L, t) = EttLink(Below(s.L, t), s.edge)
        /\ Weighted(L) /\ DOMAIN L = DOMAIN s.L \cup {s.edge}
    <3>1. Weighted(s.L) /\ s.edge \in Edge /\ s.tier \in 1 .. Top /\ ~Joins(DOMAIN s.L, s.edge)
      BY <1>8, <2>1
    <3>2. PICK l, e, w : l = s.L /\ e = s.edge /\ w = s.tier
      OBVIOUS
    <3>3. e \in Edge /\ w \in 1 .. Top /\ Weighted(l) /\ ~Joins(DOMAIN l, e) /\ L = LctLink(l, e, w)
      BY <2>2, <3>1, <3>2
    <3>4. LinkFits(l, e, w)
      BY <3>3 DEF LinkFits
    <3>5. LinkSeen(LctLink(l, e, w), l, e, w, t)
      BY <3>4, LinkBelow
    <3> QED
      BY <3>2, <3>3, <3>5 DEF LinkSeen
  <2>5. ett'[t] = Below(L, t)
    BY <1>7, <1>10, <2>1, <2>4 DEF Edited
  <2>6. /\ TierFollows(t, q)'
        /\ node'[t].pc \in {"refresh", "listen", "start", "batch"}
        /\ node'[t].pc = "listen" => ~FirstTurn(q, t + 1)
    <3>1. node'[t] = NextListen(t, x) /\ DOMAIN L \subseteq s.G
      BY <1>7, <1>8, <1>10, <2>4
    <3> QED
      <4>1. /\ Good(s) /\ s.idx # 0 /\ DOMAIN x = DOMAIN TierIdle /\ x.updates = s.b
            /\ x.idx = s.idx /\ x.tier = s.tier /\ x.side = s.side /\ x.ends = <<>>
            /\ x.edits \in {0, 1} /\ s.tier # t /\ Weighted(L) /\ DOMAIN L \subseteq s.G
            /\ q = NextTurn(s, L) /\ node'[t] = NextListen(t, x) /\ ett'[t] = Below(L, t)
            /\ sketch'[t] = s.G
        BY <1>4, <1>7, <1>8, <2>3, <2>4, <2>5, <3>1
      <4> QED
        BY <4>1, NextListenFollows, Zenon
  <2> QED
    BY <1>1, <1>2, <1>6, <1>7, <2>6, ReceivesKeep
<1> QED
  BY <1>2, <1>3, <1>4, <1>9, <1>10, LegalCases

-----------------------------------------------------------------------------
(* Steps of a tier's node that is the only one concerned.                  *)

\* A step of a tier's node without a broadcast keeps in step when the node goes on following its plan.
LEMMA LocalKeeps ==
  ASSUME NEW view, NEW front, NEW at, Log(view, front, at), Related(view, front, at),
         NEW t \in Tier, UNCHANGED inputVars, seed' = seed, bcasts' = bcasts,
         ett' = [u \in Tier |-> ett'[u]], sketch' = [u \in Tier |-> sketch'[u]],
         node' = [u \in Tier |-> node'[u]],
         \A u \in Tier \ {t} : node'[u] = node[u] /\ ett'[u] = ett[u] /\ sketch'[u] = sketch[u],
         TierFollows(t, view[RankOf(t)])', MessagesFit(front, at)',
         node'[t].pc = "forward" => at[RankOf(t)],
         t = 0 /\ node'[0].pc \in {"undo", "start", "refresh"} => at[RankOf(0)]
  PROVE  InStep'
<1>1. Log(view, front, at)'
  BY LogSame
<1>2. StartersAt(at)'
  <2>1. StartersAt(at) /\ inp' = inp
    BY DEF Related, inputVars
  <2>2. \A u \in Tier \ {t} : node'[u] = node[u]
    OBVIOUS
  <2> QED
    BY <2>1, <2>2, StartersKept
<1> QED
  BY <1>1, <1>2, TierKeeps

\* TierUndo keeps the nodes in step.
LEMMA TierUndoKeeps ==
  ASSUME InStep, NEW t \in Tier, TierUndo(t), UNCHANGED inputVars
  PROVE  InStep'
<1>1. PICK view, front, at : Log(view, front, at) /\ Related(view, front, at)
  BY DEF InStep
<1>2. PICK s, x : s = view[RankOf(t)] /\ x = node[t]
  OBVIOUS
<1>3. /\ FirstTurn(s, 1) /\ x.pc = "undo" /\ DOMAIN x = DOMAIN TierIdle
      /\ x.updates = s.b /\ x.idx = s.idx /\ x.tier = 0 /\ x.side = 1 /\ x.edits = 0 /\ x.ends = <<>>
      /\ Relinked(ett[t], s.b, x.cut, s.idx) = Below(s.prev, t)
      /\ SketchAfter(sketch[t], s.b, UpdatesFrom(s.b, s.idx)) = Toggle(s.G, EdgeOf(s.b[s.idx]))
  <2>1. TierFollows(t, s) /\ x.pc = "undo"
    BY <1>1, <1>2 DEF Related, TierUndo
  <2>2. TierStarts(t, s) /\ DOMAIN x = DOMAIN TierIdle
    BY <1>2, <2>1, PlaceOf
  <2> QED
    BY <1>2, <2>1, <2>2 DEF TierStarts
<1>4. /\ ett = [u \in Tier |-> ett[u]] /\ sketch = [u \in Tier |-> sketch[u]]
      /\ node = [u \in Tier |-> node[u]] /\ MessagesFit(front, at) /\ StartersAt(at)
  BY <1>1 DEF Related
<1>5. /\ seed' = seed /\ p2p' = p2p /\ bcasts' = bcasts
      /\ ett' = [ett EXCEPT ![t] = Relinked(ett[t], x.updates, x.cut, x.idx)]
      /\ sketch' = [sketch EXCEPT ![t] = SketchAfter(sketch[t], x.updates, UpdatesFrom(x.updates, x.idx))]
      /\ node' = [node EXCEPT ![t] = [x EXCEPT !.pc = "start", !.cut = <<>>]]
  BY <1>2, <1>4 DEF TierUndo, mpi
<1>6. /\ \A u \in Tier \ {t} : node'[u] = node[u] /\ ett'[u] = ett[u] /\ sketch'[u] = sketch[u]
      /\ ett' = [u \in Tier |-> ett'[u]] /\ sketch' = [u \in Tier |-> sketch'[u]]
      /\ node' = [u \in Tier |-> node'[u]]
      /\ ett'[t] = Below(s.prev, t) /\ sketch'[t] = Toggle(s.G, EdgeOf(s.b[s.idx]))
      /\ node'[t] = [x EXCEPT !.pc = "start", !.cut = <<>>]
  BY <1>3, <1>4, <1>5
<1>7. PICK y : y = node'[t]
  OBVIOUS
<1>8. /\ y.pc = "start" /\ y.updates = x.updates /\ y.idx = x.idx /\ y.tier = x.tier
      /\ y.side = x.side /\ y.edits = x.edits /\ y.ends = x.ends /\ DOMAIN y = DOMAIN TierIdle
  BY <1>3, <1>6, <1>7, Fields
<1>9. TierFollows(t, view[RankOf(t)])'
  <2>1. TierStarts(t, s)'
    BY <1>3, <1>6, <1>7, <1>8 DEF TierStarts
  <2> QED
    BY <1>2, <1>7, <1>8, <2>1 DEF TierFollows, NodeShape
<1>10. MessagesFit(front, at)'
  <2>1. /\ t # Top => ~SentRefresh(t + 1, front, at) /\ ~SentRefresh(t + 1, front, at)'
        /\ ~GotRefresh(t, front, at) /\ ~GotRefresh(t, front, at)'
    <3>1. (t + 1) - 1 = t /\ t + 1 # 0
      BY TopIs
    <3> QED
      BY <1>2, <1>3, <1>7, <1>8, <3>1 DEF SentRefresh, GotRefresh
  <2>2. /\ node[t].pc \notin {"sizes2", "allreduce", "lct", "link"}
        /\ node'[t].pc \notin {"sizes2", "allreduce", "lct", "link"}
        /\ inp' = inp /\ \A u \in Tier \ {t} : node'[u] = node[u]
    BY <1>2, <1>3, <1>6, <1>7, <1>8 DEF inputVars
  <2> QED
    BY <1>4, <1>5, <2>1, <2>2, TierMessages
<1>11. t = 0 => at[RankOf(0)]
  BY <1>2, <1>3, <1>4 DEF StartersAt
<1>12. node'[t].pc # "forward"
  BY <1>7, <1>8
<1> QED
  BY <1>1, <1>5, <1>6, <1>9, <1>10, <1>11, <1>12, LocalKeeps

\* TierStartUpdate keeps the nodes in step.
LEMMA TierStartUpdateKeeps ==
  ASSUME InStep, NEW t \in Tier, TierStartUpdate(t), UNCHANGED inputVars
  PROVE  InStep'
<1>1. PICK view, front, at : Log(view, front, at) /\ Related(view, front, at)
  BY DEF InStep
<1>2. PICK s, x : s = view[RankOf(t)] /\ x = node[t]
  OBVIOUS
<1>3. /\ FirstTurn(s, 1) /\ x.pc = "start" /\ DOMAIN x = DOMAIN TierIdle
      /\ x.updates = s.b /\ x.idx = s.idx /\ x.tier = 0 /\ x.side = 1 /\ x.edits = 0 /\ x.ends = <<>>
      /\ ett[t] = Below(s.prev, t) /\ sketch[t] = Toggle(s.G, EdgeOf(s.b[s.idx]))
  <2>1. TierFollows(t, s) /\ x.pc = "start"
    BY <1>1, <1>2 DEF Related, TierStartUpdate
  <2>2. TierStarts(t, s) /\ DOMAIN x = DOMAIN TierIdle
    BY <1>2, <2>1, PlaceOf
  <2> QED
    BY <1>2, <2>1, <2>2 DEF TierStarts
<1>4. /\ ett = [u \in Tier |-> ett[u]] /\ sketch = [u \in Tier |-> sketch[u]]
      /\ node = [u \in Tier |-> node[u]] /\ MessagesFit(front, at) /\ StartersAt(at)
  BY <1>1 DEF Related
<1>5. PICK u : u = s.b[s.idx]
  OBVIOUS
<1>6. /\ seed' = seed /\ p2p' = p2p /\ bcasts' = bcasts
      /\ ett' = [ett EXCEPT ![t] = IF u.type = "delete" THEN EttCut(ett[t], EdgeOf(u)) ELSE ett[t]]
      /\ sketch' = [sketch EXCEPT ![t] = Toggle(sketch[t], EdgeOf(u))]
      /\ node' = [node EXCEPT ![t] = IF t = 0 THEN EnterTier(t, x, 0) ELSE EnterTier(t, x, 1)]
  BY <1>2, <1>3, <1>4, <1>5 DEF TierStartUpdate, mpi
<1>7. /\ \A v \in Tier \ {t} : node'[v] = node[v] /\ ett'[v] = ett[v] /\ sketch'[v] = sketch[v]
      /\ ett' = [v \in Tier |-> ett'[v]] /\ sketch' = [v \in Tier |-> sketch'[v]]
      /\ node' = [v \in Tier |-> node'[v]]
      /\ ett'[t] = IF u.type = "delete" THEN EttCut(Below(s.prev, t), EdgeOf(u)) ELSE Below(s.prev, t)
      /\ sketch'[t] = Toggle(Toggle(s.G, EdgeOf(u)), EdgeOf(u))
      /\ node'[t] = IF t = 0 THEN EnterTier(t, x, 0) ELSE EnterTier(t, x, 1)
  BY <1>3, <1>4, <1>5, <1>6
<1>8. Good(s)
  <2>1. RankOf(t) \in Rank
    BY TopIs DEF RankOf
  <2> QED
    BY <1>1, <1>2, <2>1, LogView
<1>9. ett'[t] = Below(s.L, t)
  <2>1. s.L = CutBy(s.prev, u) /\ Weighted(s.prev)
    BY <1>3, <1>5, <1>8 DEF Good
  <2>2. u.type = "delete" => Below(s.L, t) = Below(s.prev, t) \ {EdgeOf(u)}
    <3>1. PICK l, e : l = s.prev /\ e = EdgeOf(u)
      OBVIOUS
    <3>2. Below(LctCut(l, e), t) = Below(l, t) \ {e}
      <4>1. Weighted(l)
        BY <2>1, <3>1
      <4> QED
        BY <4>1, WeightedCut
    <3> QED
      BY <2>1, <3>1, <3>2 DEF CutBy
  <2> QED
    BY <1>7, <2>1, <2>2 DEF CutBy, EttCut
<1>10. sketch'[t] = s.G
  BY <1>7, ToggleTwice
<1>11. PICK y : y = node'[t]
  OBVIOUS
<1>12. /\ y.updates = x.updates /\ y.idx = x.idx /\ y.side = 1 /\ y.edits = 0 /\ y.ends = x.ends
       /\ DOMAIN y = DOMAIN TierIdle
       /\ t = 0 => y.pc = "refresh" /\ y.tier = 0
       /\ t = 1 => y.pc = "refresh" /\ y.tier = 1
       /\ t \notin {0, 1} => y.pc = "listen" /\ y.tier = 1
  <2>1. CASE t = 0
    <3>1. y = [x EXCEPT !.pc = "refresh", !.tier = 0, !.side = 1]
      BY <1>7, <1>11, <2>1 DEF EnterTier
    <3> QED
      BY <1>3, <2>1, <3>1, Fields
  <2>2. CASE t = 1
    <3>1. y = [x EXCEPT !.pc = "refresh", !.tier = 1, !.side = 1]
      BY <1>7, <1>11, <2>2 DEF EnterTier
    <3> QED
      BY <1>3, <2>2, <3>1, Fields
  <2>3. CASE t \notin {0, 1}
    <3>1. y = [x EXCEPT !.pc = "listen", !.tier = 1, !.side = 1, !.edits = 0]
      BY <1>7, <1>11, <2>3 DEF EnterTier
    <3> QED
      BY <1>3, <2>3, <3>1, Fields
  <2> QED
    BY <2>1, <2>2, <2>3
<1>13. s.phase = "turn" /\ s.tier = 1 /\ s.side = 1
  BY <1>3 DEF FirstTurn
<1>14. TierFollows(t, view[RankOf(t)])'
  <2>1. TierRefreshes(t, s)'
    BY <1>3, <1>9, <1>10, <1>11, <1>12, <1>13 DEF TierRefreshes
  <2> QED
    BY <1>2, <1>11, <1>12, <2>1 DEF TierFollows, NodeShape
<1>15. MessagesFit(front, at)'
  <2>1. t # Top => ~SentRefresh(t + 1, front, at) /\ ~SentRefresh(t + 1, front, at)'
    <3>1. (t + 1) - 1 = t /\ t + 1 # 0 /\ t + 1 = RankOf(t) /\ RankOf(t) \in Rank /\ (t # 0 => t + 1 # 1)
      BY TopIs DEF RankOf
    <3>2. ~SentRefresh(t + 1, front, at)
      BY <1>2, <1>3, <3>1 DEF SentRefresh
    <3>3. at[RankOf(t)] => front = s
      BY <1>1, <1>2, <3>1, LogView
    <3>4. ~SentRefresh(t + 1, front, at)'
      BY <1>11, <1>12, <1>13, <3>1, <3>3 DEF SentRefresh, FirstTurn
    <3> QED
      BY <3>2, <3>4
  <2>2. ~GotRefresh(t, front, at) /\ ~GotRefresh(t, front, at)'
    BY <1>2, <1>3, <1>11, <1>12 DEF GotRefresh
  <2>3. /\ node[t].pc \notin {"sizes2", "allreduce", "lct", "link"}
        /\ node'[t].pc \notin {"sizes2", "allreduce", "lct", "link"}
        /\ inp' = inp /\ \A v \in Tier \ {t} : node'[v] = node[v]
    BY <1>2, <1>3, <1>7, <1>11, <1>12 DEF inputVars
  <2> QED
    BY <1>4, <1>6, <2>1, <2>2, <2>3, TierMessages
<1>16. t = 0 => at[RankOf(0)]
  BY <1>2, <1>3, <1>4 DEF StartersAt
<1>17. node'[t].pc # "forward"
  BY <1>11, <1>12
<1> QED
  BY <1>1, <1>6, <1>7, <1>14, <1>15, <1>16, <1>17, LocalKeeps

-----------------------------------------------------------------------------
(* The exchange of sizes.                                                  *)

\* What Send does to the queues.
LEMMA SentIs ==
  ASSUME p2p = [r \in Rank |-> [s \in Rank |-> p2p[r][s]]], NEW a \in Rank, NEW b \in Rank, NEW m,
         Send(a, b, m)
  PROVE  /\ p2p' = [r \in Rank |-> [s \in Rank |-> p2p'[r][s]]]
         /\ p2p[a][b] = <<>> => p2p'[a][b] = <<m>>
         /\ \A r, s \in Rank : r # a \/ s # b => p2p'[r][s] = p2p[r][s]
<1>1. p2p' = [p2p EXCEPT ![a][b] = Append(p2p[a][b], m)]
  BY DEF Send, WithSent
<1>2. Append(<<>>, m) = <<m>>
  OBVIOUS
<1> QED
  BY <1>1, <1>2

\* What Receive does to the queues.
LEMMA ReceivedIs ==
  ASSUME p2p = [r \in Rank |-> [s \in Rank |-> p2p[r][s]]], NEW a \in Rank, NEW b \in Rank,
         Receive(b, a), NEW m, p2p[a][b] = <<m>>
  PROVE  /\ p2p' = [r \in Rank |-> [s \in Rank |-> p2p'[r][s]]]
         /\ p2p'[a][b] = <<>>
         /\ Received(b, a) = m
         /\ \A r, s \in Rank : r # a \/ s # b => p2p'[r][s] = p2p[r][s]
<1>1. p2p' = [p2p EXCEPT ![a][b] = Tail(p2p[a][b])]
  BY DEF Receive, WithReceived
<1>2. Tail(<<m>>) = <<>> /\ Head(<<m>>) = m
  OBVIOUS
<1> QED
  BY <1>1, <1>2 DEF Received

\* A node outside a refresh leaves its messages alone.
LEMMA RefreshStays ==
  ASSUME inp' = inp, NEW t \in Tier, \A u \in Tier \ {t} : node'[u] = node[u],
         node[t].pc \notin {"listen", "forward", "announce"},
         node'[t].pc \notin {"listen", "forward", "announce"},
         NEW front, NEW at
  PROVE  \A T \in Tier : /\ SentRefresh(T, front, at)' <=> SentRefresh(T, front, at)
                         /\ GotRefresh(T, front, at)' <=> GotRefresh(T, front, at)
<1>1. SUFFICES ASSUME NEW T \in Tier
               PROVE  /\ SentRefresh(T, front, at)' <=> SentRefresh(T, front, at)
                      /\ GotRefresh(T, front, at)' <=> GotRefresh(T, front, at)
  OBVIOUS
<1>2. T # 0 => T - 1 \in Tier
  BY TopIs
<1>3. SentRefresh(T, front, at)' <=> SentRefresh(T, front, at)
  BY <1>2 DEF SentRefresh
<1>4. GotRefresh(T, front, at)' <=> GotRefresh(T, front, at)
  BY DEF GotRefresh
<1> QED
  BY <1>3, <1>4

\* What the exchange of sizes needs of the other messages.
LEMMA SizesMessages ==
  ASSUME seed' = seed, inp' = inp, NEW front, NEW at, MessagesFit(front, at), NEW t \in Tier,
         \A u \in Tier \ {t} : node'[u] = node[u],
         node[t].pc \in {"sizes", "sizes2"}, node'[t].pc \in {"sizes2", "allreduce"},
         p2p' = [r \in Rank |-> [s \in Rank |-> p2p'[r][s]]],
         NEW c \in 0 .. Top - 1,
         \A r, s \in Rank : r # RankOf(c + 1) \/ s # RankOf(c) => p2p'[r][s] = p2p[r][s],
         \A u \in 0 .. Top - 1 : SizesSent(u, front)'
  PROVE  MessagesFit(front, at)'
<1>0. /\ RankOf(c + 1) \in Rank /\ RankOf(c) \in Rank /\ RankOf(c + 1) = RankOf(c) + 1
      /\ RankOf(c) # 0 /\ RankOf(c + 1) # 0 /\ RankOf(c) \in Int
  BY TopIs DEF RankOf
<1>1. \A T \in Tier : p2p'[T][RankOf(T)] = p2p[T][RankOf(T)]
  <2>1. SUFFICES ASSUME NEW T \in Tier
                 PROVE  p2p'[T][RankOf(T)] = p2p[T][RankOf(T)]
    OBVIOUS
  <2>2. T \in Rank /\ RankOf(T) \in Rank /\ (T # RankOf(c + 1) \/ RankOf(T) # RankOf(c))
    BY TopIs DEF RankOf
  <2> QED
    BY <2>2
<1>2. \A T \in Tier : RefreshSent(T, front, at)'
  <2>1. \A T \in Tier : /\ SentRefresh(T, front, at)' <=> SentRefresh(T, front, at)
                        /\ GotRefresh(T, front, at)' <=> GotRefresh(T, front, at)
    BY RefreshStays
  <2> QED
    BY <1>1, <2>1, RefreshKept DEF MessagesFit
<1>3. \A T \in 1 .. Top : AnswerSent(T, front, at)'
  <2>1. \A T \in 1 .. Top : T \in Tier /\ RankOf(T) \in Rank /\ 0 \in Rank
    BY TopIs DEF RankOf
  <2>2. \A T \in 1 .. Top : /\ p2p'[0][RankOf(T)] = p2p[0][RankOf(T)]
                            /\ \/ node'[T] = node[T]
                               \/ /\ node[T].pc \notin {"lct", "link"}
                                  /\ node'[T].pc \notin {"lct", "link"}
    BY <1>0, <2>1
  <2>3. \A T \in 1 .. Top : AnswerSent(T, front, at)
    BY DEF MessagesFit
  <2> QED
    BY <2>2, <2>3, AnswerKept
<1>4. OthersSilent'
  <2>1. SUFFICES ASSUME NEW r \in Rank, NEW s \in Rank, s # r + 1, ~(r = s + 1 /\ s # 0),
                        ~(r = 0 /\ s > 1)
                 PROVE  p2p'[r][s] = <<>>
    BY DEF OthersSilent
  <2>2. p2p[r][s] = <<>>
    BY <2>1 DEF MessagesFit, OthersSilent
  <2>3. r # RankOf(c + 1) \/ s # RankOf(c)
    BY <1>0, <2>1
  <2> QED
    BY <2>2, <2>3
<1> QED
  BY <1>2, <1>3, <1>4 DEF MessagesFit

\* SendSizes keeps the nodes in step.
LEMMA SendSizesKeeps ==
  ASSUME InStep, NEW t \in Tier, SendSizes(t), UNCHANGED inputVars
  PROVE  InStep'
<1>1. PICK view, front, at : Log(view, front, at) /\ Related(view, front, at)
  BY DEF InStep
<1>2. PICK x : x = node[t]
  OBVIOUS
<1>3. /\ t # 0 /\ x.pc = IF SendsFirst(t) THEN "sizes" ELSE "sizes2"
      /\ Send(RankOf(t), RankOf(t) - 1, [kind |-> "sizes", sizes |-> x.sizes])
      /\ node' = [node EXCEPT ![t].pc = IF t # Top /\ SendsFirst(t) THEN "sizes2" ELSE "allreduce"]
      /\ seed' = seed /\ ett' = ett /\ sketch' = sketch /\ bcasts' = bcasts
  BY <1>2 DEF SendSizes
<1>4. PICK s : s = view[RankOf(t)]
  OBVIOUS
<1>5. TierReduces(t, s) /\ DOMAIN x = DOMAIN TierIdle
  <2>1. TierFollows(t, s)
    BY <1>1, <1>4 DEF Related
  <2> QED
    BY <1>2, <1>3, <2>1, PlaceOf
<1>6. s = front
  <2>1. Owner(s) = NumTiers + 1
    BY <1>5 DEF Owner, TierReduces
  <2>2. RankOf(t) \in Rank /\ NumTiers + 1 \notin Rank
    BY TopIs DEF RankOf
  <2>3. Owner(view[RankOf(t)]) \notin Rank \ {RankOf(t)}
    BY <1>4, <2>1, <2>2
  <2> QED
    BY <1>1, <1>4, <2>2, <2>3, LogOwner
<1>7. /\ ett = [u \in Tier |-> ett[u]] /\ sketch = [u \in Tier |-> sketch[u]]
      /\ node = [u \in Tier |-> node[u]] /\ MessagesFit(front, at) /\ StartersAt(at)
  BY <1>1 DEF Related
<1>8. PICK y : y = node'[t]
  OBVIOUS
<1>9. /\ \A u \in Tier \ {t} : node'[u] = node[u]
      /\ node' = [u \in Tier |-> node'[u]]
      /\ y = [x EXCEPT !.pc = IF t # Top /\ SendsFirst(t) THEN "sizes2" ELSE "allreduce"]
  BY <1>2, <1>3, <1>7, <1>8
<1>10. /\ y.pc = IF t # Top /\ SendsFirst(t) THEN "sizes2" ELSE "allreduce"
       /\ y.updates = x.updates /\ y.sizes = x.sizes /\ y.good = x.good /\ y.cut = x.cut
       /\ y.next = x.next /\ y.idx = x.idx /\ y.tier = x.tier /\ y.side = x.side
       /\ y.edits = x.edits /\ y.ends = x.ends /\ DOMAIN y = DOMAIN TierIdle
  BY <1>5, <1>9, Fields
<1>11. /\ x.pc = "sizes2" => t # Top
       /\ x.pc \in {"sizes", "sizes2", "allreduce"}
  BY <1>2, <1>5 DEF TierReduces
<1>12. /\ GotSizes(t)' <=> GotSizes(t)
       /\ SentSizes(t)' /\ ~SentSizes(t)
  <2>1. SendsFirst(t) \/ t # Top
    BY DEF SendsFirst
  <2>2. GotSizes(t)' <=> GotSizes(t)
    BY <1>2, <1>3, <1>8, <1>10, <1>11 DEF GotSizes
  <2>3. SentSizes(t)'
    BY <1>3, <1>8, <1>10 DEF SentSizes
  <2>4. ~SentSizes(t)
    BY <1>2, <1>3 DEF SentSizes
  <2> QED
    BY <2>2, <2>3, <2>4
<1>13. TierFollows(t, view[RankOf(t)])'
  <2>1. Goods(t, s.G, Below(s.L, t), s.b)' = Goods(t, s.G, Below(s.L, t), s.b)
    BY <1>3 DEF Goods, GoodAfter, Sampled
  <2>2. TierReduces(t, s)'
    BY <1>2, <1>3, <1>5, <1>8, <1>10, <1>12, <2>1 DEF TierReduces
  <2> QED
    BY <1>4, <1>8, <1>10, <2>2 DEF TierFollows, NodeShape
<1>14. MessagesFit(front, at)'
  <2>1. PICK c \in 0 .. Top - 1 : c + 1 = t /\ c \in Tier /\ RankOf(c) = RankOf(t) - 1
                                  /\ RankOf(c) \in Rank /\ RankOf(t) \in Rank
    <3>1. t - 1 \in 0 .. Top - 1 /\ (t - 1) + 1 = t /\ t - 1 \in Tier
          /\ RankOf(t - 1) = RankOf(t) - 1 /\ RankOf(t - 1) \in Rank /\ RankOf(t) \in Rank
      BY <1>3, TopIs DEF RankOf
    <3> QED
      BY <3>1
  <2>2. PICK m : m = [kind |-> "sizes", sizes |-> x.sizes]
    OBVIOUS
  <2>3. /\ p2p' = [r \in Rank |-> [q \in Rank |-> p2p'[r][q]]]
        /\ p2p[RankOf(t)][RankOf(c)] = <<>> => p2p'[RankOf(t)][RankOf(c)] = <<m>>
        /\ \A r, q \in Rank : r # RankOf(t) \/ q # RankOf(c) => p2p'[r][q] = p2p[r][q]
    <3>1. Send(RankOf(t), RankOf(c), m)
      BY <1>3, <2>1, <2>2
    <3>2. p2p = [r \in Rank |-> [q \in Rank |-> p2p[r][q]]]
      BY <1>7 DEF MessagesFit
    <3> QED
      BY <2>1, <3>1, <3>2, SentIs
  <2>4. ASSUME NEW u \in 0 .. Top - 1
        PROVE  SizesSent(u, front)'
    <3>1. SizesSent(u, front) /\ u \in Tier /\ u + 1 \in Tier
      BY <1>7, TopIs DEF MessagesFit
    <3>2. CASE u = c
      <4>1. SentSizes(t)' /\ ~SentSizes(t) /\ (GotSizes(u)' <=> GotSizes(u))
        BY <1>9, <1>12, <2>1, <3>1, <3>2, TopIs DEF GotSizes
      <4>2. ~GotSizes(u) /\ p2p[RankOf(t)][RankOf(u)] = <<>>
        BY <2>1, <3>1, <3>2, <4>1 DEF SizesSent
      <4>3. x.sizes = Sizes(Below(front.L, t), front.b)
        BY <1>2, <1>5, <1>6 DEF TierReduces
      <4> QED
        BY <2>1, <2>2, <2>3, <3>2, <4>1, <4>2, <4>3 DEF SizesSent
    <3>3. CASE u # c
      <4>1. RankOf(u + 1) # RankOf(t) /\ RankOf(u + 1) \in Rank /\ RankOf(u) \in Rank /\ u + 1 # t
        BY <2>1, <3>3, TopIs DEF RankOf
      <4>2. p2p'[RankOf(u + 1)][RankOf(u)] = p2p[RankOf(u + 1)][RankOf(u)]
        BY <2>1, <2>3, <4>1
      <4>3. (SentSizes(u + 1)' <=> SentSizes(u + 1)) /\ (GotSizes(u)' <=> GotSizes(u))
        BY <1>9, <1>12, <3>1, <4>1 DEF SentSizes, GotSizes
      <4> QED
        BY <3>1, <4>2, <4>3 DEF SizesSent
    <3> QED
      BY <3>2, <3>3
  <2>5. \A r, q \in Rank : r # RankOf(c + 1) \/ q # RankOf(c) => p2p'[r][q] = p2p[r][q]
    BY <2>1, <2>3
  <2>6. node[t].pc \in {"sizes", "sizes2"} /\ node'[t].pc \in {"sizes2", "allreduce"} /\ inp' = inp
    BY <1>2, <1>3, <1>8, <1>10 DEF inputVars
  <2> QED
    BY <1>3, <1>7, <1>9, <2>3, <2>4, <2>5, <2>6, SizesMessages
<1> QED
  BY <1>1, <1>3, <1>7, <1>8, <1>9, <1>10, <1>13, <1>14, LocalKeeps

\* ReceiveSizes keeps the nodes in step.
LEMMA ReceiveSizesKeeps ==
  ASSUME InStep, NEW t \in Tier, ReceiveSizes(t), UNCHANGED inputVars
  PROVE  InStep'
<1>1. PICK view, front, at : Log(view, front, at) /\ Related(view, front, at)
  BY DEF InStep
<1>2. PICK x, m : x = node[t] /\ m = Received(RankOf(t), RankOf(t) + 1)
  OBVIOUS
<1>3. /\ t # Top /\ x.pc = IF SendsFirst(t) THEN "sizes2" ELSE "sizes"
      /\ Incoming(RankOf(t), RankOf(t) + 1)
      /\ Receive(RankOf(t), RankOf(t) + 1)
      /\ node' = [node EXCEPT ![t].next = m.sizes,
                              ![t].pc = IF t # 0 /\ ~SendsFirst(t) THEN "sizes2" ELSE "allreduce"]
      /\ seed' = seed /\ ett' = ett /\ sketch' = sketch /\ bcasts' = bcasts
  BY <1>2 DEF ReceiveSizes
<1>4. PICK s : s = view[RankOf(t)]
  OBVIOUS
<1>5. TierReduces(t, s) /\ DOMAIN x = DOMAIN TierIdle
  <2>1. TierFollows(t, s)
    BY <1>1, <1>4 DEF Related
  <2> QED
    BY <1>2, <1>3, <2>1, PlaceOf
<1>6. s = front
  <2>1. Owner(s) = NumTiers + 1
    BY <1>5 DEF Owner, TierReduces
  <2>2. RankOf(t) \in Rank /\ NumTiers + 1 \notin Rank
    BY TopIs DEF RankOf
  <2>3. Owner(view[RankOf(t)]) \notin Rank \ {RankOf(t)}
    BY <1>4, <2>1, <2>2
  <2> QED
    BY <1>1, <1>4, <2>2, <2>3, LogOwner
<1>7. /\ ett = [u \in Tier |-> ett[u]] /\ sketch = [u \in Tier |-> sketch[u]]
      /\ node = [u \in Tier |-> node[u]] /\ MessagesFit(front, at) /\ StartersAt(at)
  BY <1>1 DEF Related
<1>8. PICK y : y = node'[t]
  OBVIOUS
<1>9. /\ \A u \in Tier \ {t} : node'[u] = node[u]
      /\ node' = [u \in Tier |-> node'[u]]
      /\ y = [x EXCEPT !.next = m.sizes,
                       !.pc = IF t # 0 /\ ~SendsFirst(t) THEN "sizes2" ELSE "allreduce"]
  BY <1>2, <1>3, <1>7, <1>8
<1>10. /\ y.pc = IF t # 0 /\ ~SendsFirst(t) THEN "sizes2" ELSE "allreduce"
       /\ y.updates = x.updates /\ y.sizes = x.sizes /\ y.good = x.good /\ y.cut = x.cut
       /\ y.next = m.sizes /\ y.idx = x.idx /\ y.tier = x.tier /\ y.side = x.side
       /\ y.edits = x.edits /\ y.ends = x.ends /\ DOMAIN y = DOMAIN TierIdle
  BY <1>5, <1>9, Fields
<1>11. x.pc = "sizes2" => t # 0
  BY <1>2, <1>5 DEF TierReduces
<1>12. GotSizes(t)' /\ ~GotSizes(t) /\ (SentSizes(t)' <=> SentSizes(t))
  <2>1. GotSizes(t)'
    BY <1>3, <1>8, <1>10 DEF GotSizes, SendsFirst
  <2>2. ~GotSizes(t)
    BY <1>2, <1>3 DEF GotSizes
  <2>3. SentSizes(t)' <=> SentSizes(t)
    <3>1. SendsFirst(t) => t # 0
      BY <1>3 DEF SendsFirst
    <3> QED
      BY <1>2, <1>3, <1>8, <1>10, <1>11, <3>1 DEF SentSizes
  <2> QED
    BY <2>1, <2>2, <2>3
<1>13. t \in 0 .. Top - 1 /\ t + 1 \in Tier /\ RankOf(t) \in Rank /\ RankOf(t + 1) \in Rank
       /\ RankOf(t + 1) = RankOf(t) + 1
  BY <1>3, TopIs DEF RankOf
<1>14. PICK z : z = [kind |-> "sizes", sizes |-> Sizes(Below(front.L, t + 1), front.b)]
  OBVIOUS
<1>15. SentSizes(t + 1) /\ p2p[RankOf(t + 1)][RankOf(t)] = <<z>>
  <2>1. SizesSent(t, front)
    BY <1>7, <1>13 DEF MessagesFit
  <2>2. p2p[RankOf(t + 1)][RankOf(t)] # <<>>
    BY <1>3, <1>13 DEF Incoming
  <2> QED
    BY <1>12, <1>14, <2>1, <2>2 DEF SizesSent
<1>16. /\ p2p' = [r \in Rank |-> [q \in Rank |-> p2p'[r][q]]]
       /\ p2p'[RankOf(t + 1)][RankOf(t)] = <<>> /\ m = z
       /\ \A r, q \in Rank : r # RankOf(t + 1) \/ q # RankOf(t) => p2p'[r][q] = p2p[r][q]
  <2>1. p2p = [r \in Rank |-> [q \in Rank |-> p2p[r][q]]]
    BY <1>7 DEF MessagesFit
  <2>2. Receive(RankOf(t), RankOf(t + 1)) /\ m = Received(RankOf(t), RankOf(t + 1))
    BY <1>2, <1>3, <1>13
  <2> QED
    BY <1>13, <1>15, <2>1, <2>2, ReceivedIs
<1>17. y.next = Sizes(Below(s.L, t + 1), s.b)
  BY <1>6, <1>10, <1>14, <1>16
<1>18. TierFollows(t, view[RankOf(t)])'
  <2>1. Goods(t, s.G, Below(s.L, t), s.b)' = Goods(t, s.G, Below(s.L, t), s.b)
    BY <1>3 DEF Goods, GoodAfter, Sampled
  <2>2. y.pc = "sizes2" => t # 0 /\ t # Top
    BY <1>3, <1>10
  <2>3. TierReduces(t, s)'
    BY <1>2, <1>3, <1>5, <1>8, <1>10, <1>12, <1>17, <2>1, <2>2 DEF TierReduces
  <2> QED
    BY <1>4, <1>8, <1>10, <2>3 DEF TierFollows, NodeShape
<1>19. MessagesFit(front, at)'
  <2>1. ASSUME NEW u \in 0 .. Top - 1
        PROVE  SizesSent(u, front)'
    <3>1. SizesSent(u, front) /\ u \in Tier /\ u + 1 \in Tier
      BY <1>7, TopIs DEF MessagesFit
    <3>2. SentSizes(u + 1)' <=> SentSizes(u + 1)
      BY <1>9, <1>12, <3>1 DEF SentSizes
    <3>3. CASE u = t
      BY <1>12, <1>15, <1>16, <3>2, <3>3 DEF SizesSent
    <3>4. CASE u # t
      <4>1. RankOf(u) # RankOf(t) /\ RankOf(u + 1) \in Rank /\ RankOf(u) \in Rank
        BY <3>4, TopIs DEF RankOf
      <4>2. p2p'[RankOf(u + 1)][RankOf(u)] = p2p[RankOf(u + 1)][RankOf(u)]
        BY <1>16, <4>1
      <4>3. GotSizes(u)' <=> GotSizes(u)
        BY <1>9, <3>1, <3>4 DEF GotSizes
      <4> QED
        BY <3>1, <3>2, <4>2, <4>3 DEF SizesSent
    <3> QED
      BY <3>3, <3>4
  <2>2. node[t].pc \in {"sizes", "sizes2"} /\ node'[t].pc \in {"sizes2", "allreduce"} /\ inp' = inp
    BY <1>2, <1>3, <1>8, <1>10 DEF inputVars
  <2> QED
    BY <1>3, <1>7, <1>9, <1>13, <1>16, <2>1, <2>2, SizesMessages
<1> QED
  BY <1>1, <1>3, <1>7, <1>8, <1>9, <1>10, <1>18, <1>19, LocalKeeps

-----------------------------------------------------------------------------
(* Refresh messages.                                                       *)

\* A step that touches one refresh queue leaves the other messages right.
LEMMA RefreshMessages ==
  ASSUME seed' = seed, NEW front, NEW at, MessagesFit(front, at),
         \A u \in Tier : \/ node'[u] = node[u]
                         \/ /\ node[u].pc \notin {"sizes2", "allreduce", "lct", "link"}
                            /\ node'[u].pc \notin {"sizes2", "allreduce", "lct", "link"},
         p2p' = [r \in Rank |-> [s \in Rank |-> p2p'[r][s]]],
         NEW c \in Tier,
         \A r, s \in Rank : r # c \/ s # RankOf(c) => p2p'[r][s] = p2p[r][s],
         RefreshSent(c, front, at)',
         \A T \in Tier \ {c} : /\ SentRefresh(T, front, at)' <=> SentRefresh(T, front, at)
                               /\ GotRefresh(T, front, at)' <=> GotRefresh(T, front, at)
  PROVE  MessagesFit(front, at)'
<1>0. c \in Rank /\ RankOf(c) \in Rank /\ RankOf(c) = c + 1 /\ c \in Int
  BY TopIs DEF RankOf
<1>1. \A u \in 0 .. Top - 1 : SizesSent(u, front)'
  <2>1. \A u \in 0 .. Top - 1 : p2p'[RankOf(u + 1)][RankOf(u)] = p2p[RankOf(u + 1)][RankOf(u)]
    <3>1. SUFFICES ASSUME NEW u \in 0 .. Top - 1
                   PROVE  p2p'[RankOf(u + 1)][RankOf(u)] = p2p[RankOf(u + 1)][RankOf(u)]
      OBVIOUS
    <3>2. /\ RankOf(u + 1) \in Rank /\ RankOf(u) \in Rank
          /\ RankOf(u + 1) # c \/ RankOf(u) # RankOf(c)
      BY TopIs DEF RankOf
    <3> QED
      BY <3>2
  <2>2. \A u \in 0 .. Top - 1 : SizesSent(u, front)
    BY DEF MessagesFit
  <2>3. \A u \in Tier : \/ node'[u] = node[u]
                        \/ /\ node[u].pc \notin {"sizes2", "allreduce"}
                           /\ node'[u].pc \notin {"sizes2", "allreduce"}
    OBVIOUS
  <2> QED
    BY <2>1, <2>2, <2>3, SizesKept
<1>2. ASSUME NEW T \in Tier
      PROVE  RefreshSent(T, front, at)'
  <2>1. CASE T = c
    BY <2>1
  <2>2. CASE T # c
    <3>1. T \in Rank /\ RankOf(T) \in Rank
      BY TopIs DEF RankOf
    <3>2. p2p'[T][RankOf(T)] = p2p[T][RankOf(T)]
      BY <1>0, <2>2, <3>1
    <3>3. RefreshSent(T, front, at)
      BY DEF MessagesFit
    <3>4. \A ends : ToldSizes(front, ends)' <=> ToldSizes(front, ends)
      BY DEF ToldSizes, SeenSamples, Sampled
    <3> QED
      BY <2>2, <3>2, <3>3, <3>4 DEF RefreshSent
  <2> QED
    BY <2>1, <2>2
<1>3. \A T \in 1 .. Top : AnswerSent(T, front, at)'
  <2>1. \A T \in 1 .. Top : T \in Tier /\ RankOf(T) \in Rank /\ 0 \in Rank
                            /\ (0 # c \/ RankOf(T) # RankOf(c))
    BY TopIs DEF RankOf
  <2>2. \A T \in 1 .. Top : /\ p2p'[0][RankOf(T)] = p2p[0][RankOf(T)]
                            /\ \/ node'[T] = node[T]
                               \/ /\ node[T].pc \notin {"lct", "link"}
                                  /\ node'[T].pc \notin {"lct", "link"}
    BY <1>0, <2>1
  <2>3. \A T \in 1 .. Top : AnswerSent(T, front, at)
    BY DEF MessagesFit
  <2> QED
    BY <2>2, <2>3, AnswerKept
<1>4. OthersSilent'
  <2>1. SUFFICES ASSUME NEW r \in Rank, NEW s \in Rank, s # r + 1, ~(r = s + 1 /\ s # 0),
                        ~(r = 0 /\ s > 1)
                 PROVE  p2p'[r][s] = <<>>
    BY DEF OthersSilent
  <2>2. p2p[r][s] = <<>>
    BY <2>1 DEF MessagesFit, OthersSilent
  <2>3. r # c \/ s # RankOf(c)
    BY <1>0, <2>1
  <2> QED
    BY <2>2, <2>3
<1> QED
  BY <1>1, <1>2, <1>3, <1>4 DEF MessagesFit

\* ReceiveRefresh keeps the nodes in step.
LEMMA ReceiveRefreshKeeps ==
  ASSUME InStep, NEW t \in Tier, ReceiveRefresh(t), UNCHANGED inputVars
  PROVE  InStep'
<1>1. PICK view, front, at : Log(view, front, at) /\ Related(view, front, at)
  BY DEF InStep
<1>2. PICK x, m : x = node[t] /\ m = Received(RankOf(t), t)
  OBVIOUS
<1>3. /\ x.pc = "refresh"
      /\ Incoming(RankOf(t), t)
      /\ Receive(RankOf(t), t)
      /\ node' = [node EXCEPT ![t].ends = m.ends,
                              ![t].pc = IF t = 0 THEN "forward" ELSE "announce"]
      /\ seed' = seed /\ ett' = ett /\ sketch' = sketch /\ bcasts' = bcasts
  <2>1. (IF t = 0 THEN 0 ELSE RankOf(t) - 1) = t
    BY TopIs DEF RankOf
  <2> QED
    BY <1>2, <2>1 DEF ReceiveRefresh
<1>4. PICK s : s = view[RankOf(t)]
  OBVIOUS
<1>5. /\ DOMAIN x = DOMAIN TierIdle
      /\ x.updates = s.b /\ x.idx = s.idx /\ x.edits \in {0, 1}
      /\ ett[t] = Below(s.L, t) /\ sketch[t] = s.G
      /\ FirstTurn(s, IF t = 0 THEN 1 ELSE t)
      /\ x.tier = t /\ x.side = 1 /\ x.ends = <<>>
  <2>1. TierFollows(t, s)
    BY <1>1, <1>4 DEF Related
  <2>2. TierRefreshes(t, s) /\ DOMAIN x = DOMAIN TierIdle
    BY <1>2, <1>3, <2>1, PlaceOf
  <2> QED
    BY <1>2, <1>3, <2>2 DEF TierRefreshes
<1>6. /\ ett = [u \in Tier |-> ett[u]] /\ sketch = [u \in Tier |-> sketch[u]]
      /\ node = [u \in Tier |-> node[u]] /\ MessagesFit(front, at) /\ StartersAt(at)
  BY <1>1 DEF Related
<1>7. t \in Rank /\ RankOf(t) \in Rank
  BY TopIs DEF RankOf
<1>8. at[RankOf(t)] /\ s = front
  <2>1. CASE t = 0
    <3>1. at[RankOf(t)]
      BY <1>2, <1>3, <1>6, <2>1 DEF StartersAt
    <3> QED
      BY <1>1, <1>4, <1>7, <3>1, LogView
  <2>2. CASE t # 0
    <3>1. Owner(s) = RankOf(t)
      BY <1>5, <2>2 DEF Owner, FirstTurn
    <3>2. Owner(view[RankOf(t)]) \notin Rank \ {RankOf(t)}
      BY <1>4, <3>1
    <3> QED
      BY <1>1, <1>4, <1>7, <3>2, LogOwner
  <2> QED
    BY <2>1, <2>2
<1>9. PICK y : y = node'[t]
  OBVIOUS
<1>10. /\ \A u \in Tier \ {t} : node'[u] = node[u]
       /\ node' = [u \in Tier |-> node'[u]]
       /\ y = [x EXCEPT !.ends = m.ends, !.pc = IF t = 0 THEN "forward" ELSE "announce"]
  BY <1>2, <1>3, <1>6, <1>9
<1>11. /\ y.pc = (IF t = 0 THEN "forward" ELSE "announce") /\ y.ends = m.ends
       /\ y.updates = x.updates /\ y.idx = x.idx /\ y.tier = x.tier /\ y.side = x.side
       /\ y.edits = x.edits /\ DOMAIN y = DOMAIN TierIdle
  BY <1>5, <1>10, Fields
<1>12. PICK z : z = p2p[t][RankOf(t)][1]
  OBVIOUS
<1>13. /\ SentRefresh(t, front, at) /\ ~GotRefresh(t, front, at)
       /\ p2p[t][RankOf(t)] = <<z>>
       /\ IF t = 0 THEN ToldEnds(front, z.ends) ELSE ToldSizes(front, z.ends)
  <2>1. RefreshSent(t, front, at)
    BY <1>6 DEF MessagesFit
  <2>2. p2p[t][RankOf(t)] # <<>>
    BY <1>3 DEF Incoming
  <2> QED
    BY <1>12, <2>1, <2>2 DEF RefreshSent
<1>14. /\ p2p' = [r \in Rank |-> [q \in Rank |-> p2p'[r][q]]]
       /\ p2p'[t][RankOf(t)] = <<>> /\ m = z
       /\ \A r, q \in Rank : r # t \/ q # RankOf(t) => p2p'[r][q] = p2p[r][q]
  <2>1. p2p = [r \in Rank |-> [q \in Rank |-> p2p[r][q]]]
    BY <1>6 DEF MessagesFit
  <2> QED
    BY <1>2, <1>3, <1>7, <1>13, <2>1, ReceivedIs
<1>15. TierFollows(t, view[RankOf(t)])'
  <2>1. s.phase = "turn" /\ s.side = 1 /\ s.tier = IF t = 0 THEN 1 ELSE t
    BY <1>5 DEF FirstTurn
  <2>2. t = 0 => t # Top
    BY TopIs
  <2>3. CASE t = 0
    <3>1. ToldEnds(s, y.ends)
      BY <1>8, <1>11, <1>13, <1>14, <2>3
    <3>2. FirstTurn(s, t + 1)
      BY <1>5, <2>3
    <3>3. TierRefreshes(t, s)'
      BY <1>3, <1>5, <1>9, <1>11, <2>2, <2>3, <3>1, <3>2 DEF TierRefreshes
    <3> QED
      BY <1>4, <1>9, <1>11, <3>3 DEF TierFollows, NodeShape
  <2>4. CASE t # 0
    <3>1. ToldSizes(s, y.ends)
      BY <1>8, <1>11, <1>13, <1>14, <2>4
    <3>2. ToldSizes(s, y.ends)'
      BY <1>3, <3>1 DEF ToldSizes, SeenSamples, Sampled
    <3>3. TierRefreshes(t, s)'
      BY <1>3, <1>5, <1>9, <1>11, <2>1, <2>4, <3>2 DEF TierRefreshes
    <3> QED
      BY <1>4, <1>9, <1>11, <3>3 DEF TierFollows, NodeShape
  <2> QED
    BY <2>3, <2>4
<1>16. MessagesFit(front, at)'
  <2>1. inp' = inp
    BY DEF inputVars
  <2>2. SentRefresh(t, front, at)'
    <3>1. t # 0 => t - 1 \in Tier \ {t}
      BY TopIs
    <3>2. t # 0 => node'[t - 1] = node[t - 1]
      BY <1>10, <3>1
    <3>3. CASE t = 0
      BY <1>13, <2>1, <3>3 DEF SentRefresh
    <3>4. CASE t # 0
      BY <1>13, <3>2, <3>4 DEF SentRefresh
    <3> QED
      BY <3>3, <3>4
  <2>3. GotRefresh(t, front, at)'
    BY <1>5, <1>8, <1>9, <1>11 DEF GotRefresh
  <2>4. RefreshSent(t, front, at)'
    BY <1>14, <2>2, <2>3 DEF RefreshSent
  <2>5. ASSUME NEW T \in Tier \ {t}
        PROVE  /\ SentRefresh(T, front, at)' <=> SentRefresh(T, front, at)
               /\ GotRefresh(T, front, at)' <=> GotRefresh(T, front, at)
    <3>1. T # 0 => T - 1 \in Tier
      BY TopIs
    <3>2. T # 0 => (node'[T - 1].pc = "listen" <=> node[T - 1].pc = "listen")
      BY <1>2, <1>3, <1>9, <1>10, <1>11, <3>1
    <3>3. SentRefresh(T, front, at)' <=> SentRefresh(T, front, at)
      BY <2>1, <3>2 DEF SentRefresh
    <3>4. GotRefresh(T, front, at)' <=> GotRefresh(T, front, at)
      BY <1>10 DEF GotRefresh
    <3> QED
      BY <3>3, <3>4
  <2>6. \A u \in Tier : \/ node'[u] = node[u]
                        \/ /\ node[u].pc \notin {"sizes2", "allreduce", "lct", "link"}
                           /\ node'[u].pc \notin {"sizes2", "allreduce", "lct", "link"}
    BY <1>2, <1>3, <1>9, <1>10, <1>11
  <2> QED
    BY <1>3, <1>6, <1>14, <2>4, <2>5, <2>6, RefreshMessages
<1>17. t = 0 => node'[0].pc = "forward"
  BY <1>9, <1>11
<1> QED
  BY <1>1, <1>3, <1>6, <1>8, <1>10, <1>15, <1>16, <1>17, LocalKeeps

\* Forward keeps the nodes in step.
LEMMA ForwardKeeps ==
  ASSUME InStep, NEW t \in Tier, Forward(t), UNCHANGED inputVars
  PROVE  InStep'
<1>1. PICK view, front, at : Log(view, front, at) /\ Related(view, front, at)
  BY DEF InStep
<1>2. PICK s, x, c : s = view[RankOf(t)] /\ x = node[t] /\ c = t + 1
  OBVIOUS
<1>3. /\ ett = [u \in Tier |-> ett[u]] /\ sketch = [u \in Tier |-> sketch[u]]
      /\ node = [u \in Tier |-> node[u]] /\ MessagesFit(front, at) /\ StartersAt(at)
  BY <1>1 DEF Related
<1>4. /\ x.pc = "forward" /\ seed' = seed /\ ett' = ett /\ sketch' = sketch /\ bcasts' = bcasts
      /\ node' = [node EXCEPT ![t] = NextTier(t, [x EXCEPT !.ends = <<>>])]
  BY <1>2, <1>3 DEF Forward
<1>5. /\ t # Top /\ DOMAIN x = DOMAIN TierIdle /\ x.updates = s.b /\ x.idx = s.idx
      /\ x.edits \in {0, 1} /\ ett[t] = Below(s.L, t) /\ sketch[t] = s.G
      /\ FirstTurn(s, c) /\ x.tier = t /\ ToldEnds(s, x.ends)
  <2>1. TierFollows(t, s)
    BY <1>1, <1>2 DEF Related
  <2>2. TierRefreshes(t, s) /\ DOMAIN x = DOMAIN TierIdle
    BY <1>2, <1>4, <2>1, PlaceOf
  <2> QED
    BY <1>2, <1>4, <2>2 DEF TierRefreshes
<1>6. /\ c \in Tier /\ c # 0 /\ c # t /\ c - 1 = t /\ c = RankOf(t) /\ RankOf(t) + 1 = RankOf(c)
      /\ c \in Rank /\ RankOf(c) \in Rank /\ t < Top
  BY <1>2, <1>5, TopIs DEF RankOf
<1>7. at[c] /\ s = front /\ Good(s)
  <2>1. at[c]
    BY <1>2, <1>3, <1>4, <1>6 DEF StartersAt
  <2> QED
    BY <1>1, <1>2, <1>6, <2>1, LogView
<1>8. s.phase = "turn" /\ s.tier = c /\ s.side = 1 /\ s.seen = s.L
  BY <1>5, <1>7 DEF FirstTurn, Good
<1>9. PICK e1, e2, m :
        /\ e1 \in EndpointChoices(t, x.ends[1].v) /\ e2 \in EndpointChoices(t, x.ends[2].v)
        /\ m = [kind |-> "refresh", ends |-> <<e1, e2>>]
        /\ Send(c, RankOf(c), m)
  BY <1>2, <1>6 DEF Forward
<1>10. m.kind = "refresh" /\ ToldSizes(front, m.ends)
  <2>1. m.kind = "refresh" /\ m.ends = <<e1, e2>>
    BY <1>9
  <2>2. x.ends[1].v = Endpoint(s, 1) /\ x.ends[2].v = Endpoint(s, 2)
    BY <1>5 DEF ToldEnds
  <2>3. ASSUME NEW k, NEW e \in EndpointChoices(t, Endpoint(s, k))
        PROVE  /\ e.v = Endpoint(s, k) /\ e.size = SeenSize(s, k)
               /\ SeenSamples(s, k) = {} => e.sample = {}
               /\ SeenSamples(s, k) # {} => e.sample \in SeenSamples(s, k)
    <3>1. /\ SeenSize(s, k) = TreeSize(ett[t], Endpoint(s, k))
          /\ SeenSamples(s, k) = Sampled(t, sketch[t], ett[t], Endpoint(s, k))
      BY <1>5, <1>6, <1>8 DEF SeenSize, SeenSamples
    <3> QED
      BY <2>3, <3>1 DEF EndpointChoices
  <2>4. /\ e1.v = Endpoint(s, 1) /\ e1.size = SeenSize(s, 1)
        /\ SeenSamples(s, 1) = {} => e1.sample = {}
        /\ SeenSamples(s, 1) # {} => e1.sample \in SeenSamples(s, 1)
    BY <1>9, <2>2, <2>3
  <2>5. /\ e2.v = Endpoint(s, 2) /\ e2.size = SeenSize(s, 2)
        /\ SeenSamples(s, 2) = {} => e2.sample = {}
        /\ SeenSamples(s, 2) # {} => e2.sample \in SeenSamples(s, 2)
    BY <1>9, <2>2, <2>3
  <2>6. m.ends[1] = e1 /\ m.ends[2] = e2 /\ m.ends = <<m.ends[1], m.ends[2]>>
    BY <2>1
  <2> QED
    BY <1>7, <2>1, <2>4, <2>5, <2>6 DEF ToldSizes, ToldEnds
<1>11. PICK x0, y : x0 = [x EXCEPT !.ends = <<>>] /\ y = NextTier(t, x0)
  OBVIOUS
<1>12. /\ DOMAIN x0 = DOMAIN TierIdle /\ x0.updates = x.updates /\ x0.idx = x.idx
       /\ x0.tier = x.tier /\ x0.ends = <<>>
  BY <1>5, <1>11, Fields
<1>13. /\ DOMAIN y = DOMAIN TierIdle /\ y.pc = "listen" /\ y.updates = s.b /\ y.idx = s.idx
       /\ y.tier = c /\ y.side = 1 /\ y.edits = 0 /\ y.ends = <<>>
  <2>1. x0.tier < Top /\ x0.tier + 1 # t /\ x0.tier + 1 = c
    BY <1>2, <1>5, <1>6, <1>12
  <2>2. /\ DOMAIN y = DOMAIN TierIdle
        /\ y.pc = "listen" /\ y.updates = x0.updates /\ y.idx = x0.idx
        /\ y.tier = x0.tier + 1 /\ y.side = 1 /\ y.edits = 0 /\ y.ends = x0.ends
    <3>1. y = NextTier(t, x0) /\ DOMAIN x0 = DOMAIN TierIdle /\ x0.tier < Top /\ x0.tier + 1 # t
      BY <1>11, <1>12, <2>1
    <3> QED
      <4>1. ASSUME NEW z, NEW w, DOMAIN z = DOMAIN TierIdle, w = NextTier(t, z),
                   z.tier < Top, z.tier + 1 # t
            PROVE  /\ DOMAIN w = DOMAIN TierIdle
                   /\ w.pc = "listen" /\ w.updates = z.updates /\ w.idx = z.idx
                   /\ w.tier = z.tier + 1 /\ w.side = 1 /\ w.edits = 0 /\ w.ends = z.ends
        BY <4>1, NextTierIs
      <4> QED
        BY <3>1, <4>1
  <2> QED
    BY <1>5, <1>12, <2>1, <2>2
<1>14. /\ node'[t] = y /\ \A u \in Tier \ {t} : node'[u] = node[u]
       /\ node' = [u \in Tier |-> node'[u]]
  BY <1>3, <1>4, <1>11
<1>15. TierFollows(t, view[RankOf(t)])'
  <2>1. TierRefreshes(t, s)'
    BY <1>4, <1>5, <1>6, <1>8, <1>13, <1>14 DEF TierRefreshes
  <2> QED
    BY <1>2, <1>13, <1>14, <2>1 DEF TierFollows, NodeShape
<1>16. MessagesFit(front, at)'
  <2>1. inp' = inp
    BY DEF inputVars
  <2>2. RefreshSent(c, front, at) /\ p2p = [r \in Rank |-> [q \in Rank |-> p2p[r][q]]]
    BY <1>3, <1>6 DEF MessagesFit
  <2>3. ~SentRefresh(c, front, at) /\ ~GotRefresh(c, front, at) /\ p2p[c][RankOf(c)] = <<>>
    <3>1. ~SentRefresh(c, front, at)
      BY <1>2, <1>4, <1>6 DEF SentRefresh
    <3> QED
      BY <2>2, <3>1 DEF RefreshSent
  <2>4. /\ p2p' = [r \in Rank |-> [q \in Rank |-> p2p'[r][q]]]
        /\ p2p'[c][RankOf(c)] = <<m>>
        /\ \A r, q \in Rank : r # c \/ q # RankOf(c) => p2p'[r][q] = p2p[r][q]
    BY <1>6, <1>9, <2>2, <2>3, SentIs
  <2>5. SentRefresh(c, front, at)' /\ ~GotRefresh(c, front, at)'
    <3>1. SentRefresh(c, front, at)'
      BY <1>5, <1>6, <1>7, <1>13, <1>14 DEF SentRefresh
    <3>2. node'[c] = node[c]
      BY <1>6, <1>14
    <3> QED
      BY <2>3, <3>1, <3>2 DEF GotRefresh
  <2>6. RefreshSent(c, front, at)'
    <3>1. ToldSizes(front, m.ends)'
      BY <1>4, <1>10 DEF ToldSizes, SeenSamples, Sampled
    <3>2. p2p'[c][RankOf(c)][1] = m
      BY <2>4
    <3> QED
      BY <1>6, <1>10, <2>4, <2>5, <3>1, <3>2 DEF RefreshSent
  <2>7. ASSUME NEW T \in Tier \ {c}
        PROVE  /\ SentRefresh(T, front, at)' <=> SentRefresh(T, front, at)
               /\ GotRefresh(T, front, at)' <=> GotRefresh(T, front, at)
    <3>1. T # 0 => T - 1 \in Tier \ {t}
      BY <1>2, TopIs
    <3>2. T # 0 => node'[T - 1] = node[T - 1]
      BY <1>14, <3>1
    <3>3. SentRefresh(T, front, at)' <=> SentRefresh(T, front, at)
      BY <2>1, <3>2 DEF SentRefresh
    <3>4. CASE T # t
      BY <1>14, <3>3, <3>4 DEF GotRefresh
    <3>5. CASE T = t /\ t # 0
      BY <1>6, <1>7, <1>8, <3>3, <3>5 DEF GotRefresh, FirstTurn
    <3>6. CASE T = t /\ t = 0
      BY <1>2, <1>4, <1>13, <1>14, <3>3, <3>6 DEF GotRefresh
    <3> QED
      BY <3>4, <3>5, <3>6
  <2>8. \A u \in Tier : \/ node'[u] = node[u]
                        \/ /\ node[u].pc \notin {"sizes2", "allreduce", "lct", "link"}
                           /\ node'[u].pc \notin {"sizes2", "allreduce", "lct", "link"}
    BY <1>2, <1>4, <1>13, <1>14
  <2> QED
    BY <1>3, <1>4, <1>6, <2>4, <2>6, <2>7, <2>8, RefreshMessages
<1>17. node'[t].pc = "listen"
  BY <1>13, <1>14
<1> QED
  BY <1>1, <1>3, <1>4, <1>14, <1>15, <1>16, <1>17, LocalKeeps

-----------------------------------------------------------------------------
(* Broadcasts that a tier's node sends.                                    *)

\* A tier's node that is about to send one has the turn.
LEMMA OwnerIs ==
  ASSUME NEW view, NEW front, NEW at, Log(view, front, at), Related(view, front, at),
         NEW t \in Tier, node[t].pc \in {"announce", "lct", "link"}
  PROVE  /\ t \in 1 .. Top /\ RankOf(t) \in Rank /\ at[RankOf(t)] /\ view[RankOf(t)] = front
         /\ Good(front) /\ front.tier = t /\ front.idx # 0
         /\ front.phase \in {"turn", "edit1", "edit2"}
         /\ node[t].pc = "announce" => front.phase = "turn"
         /\ node[t].pc = "lct" => front.phase = "edit1"
         /\ node[t].pc = "link" => front.phase \in {"edit1", "edit2"}
         /\ DOMAIN node[t] = DOMAIN TierIdle
         /\ node[t].updates = front.b /\ node[t].idx = front.idx /\ node[t].edits \in {0, 1}
         /\ node[t].tier = t /\ node[t].side = front.side /\ ToldSizes(front, node[t].ends)
         /\ node[t].pc # "announce" => front.edge = node[t].ends[front.side].sample
         /\ ett[t] = Below(front.L, t) /\ sketch[t] = front.G
<1>1. PICK s : s = view[RankOf(t)]
  OBVIOUS
<1>2. TierRefreshes(t, s) /\ DOMAIN node[t] = DOMAIN TierIdle
  <2>1. TierFollows(t, s)
    BY <1>1 DEF Related
  <2> QED
    BY <2>1, PlaceOf
<1>3. /\ t # 0 /\ s.tier = t /\ s.phase \in {"turn", "edit1", "edit2"}
      /\ node[t].pc = "announce" => s.phase = "turn"
      /\ node[t].pc = "lct" => s.phase = "edit1"
      /\ node[t].pc = "link" => s.phase \in {"edit1", "edit2"}
      /\ node[t].updates = s.b /\ node[t].idx = s.idx /\ node[t].edits \in {0, 1}
      /\ node[t].tier = t /\ node[t].side = s.side /\ ToldSizes(s, node[t].ends)
      /\ node[t].pc # "announce" => s.edge = node[t].ends[s.side].sample
      /\ ett[t] = Below(s.L, t) /\ sketch[t] = s.G
  BY <1>2 DEF TierRefreshes
<1>4. RankOf(t) \in Rank /\ t \in 1 .. Top
  BY <1>3, TopIs DEF RankOf
<1>5. at[RankOf(t)] /\ s = front
  <2>1. Owner(s) = RankOf(t)
    BY <1>3 DEF Owner
  <2>2. Owner(view[RankOf(t)]) \notin Rank \ {RankOf(t)}
    BY <1>1, <2>1
  <2> QED
    BY <1>1, <1>4, <2>2, LogOwner
<1>6. Good(front) /\ front.idx # 0
  <2>1. Good(front)
    BY <1>4, LogView
  <2> QED
    BY <1>3, <1>5, <2>1 DEF Good
<1> QED
  BY <1>1, <1>2, <1>3, <1>4, <1>5, <1>6

\* When the first tier has the turn, all the nodes before it have begun the update.
LEMMA FirstBegun ==
  ASSUME NEW front, NEW at, MessagesFit(front, at), at[RankOf(1)], node[1].pc = "announce",
         FirstTurn(front, 1)
  PROVE  /\ at[0] /\ at[RankOf(0)] /\ inp.pc = "round" /\ node[0].pc = "listen"
         /\ p2p[0][RankOf(0)] = <<>>
<1>0. 0 \in Tier /\ 1 \in Tier /\ RankOf(0) = 1 /\ 1 - 1 = 0
  BY TopIs DEF RankOf
<1>1. RefreshSent(0, front, at) /\ RefreshSent(1, front, at)
  BY <1>0 DEF MessagesFit
<1>2. GotRefresh(1, front, at)
  BY DEF GotRefresh
<1>3. at[RankOf(0)] /\ node[0].pc = "listen"
  BY <1>0, <1>1, <1>2 DEF RefreshSent, SentRefresh
<1>4. GotRefresh(0, front, at)
  BY <1>3 DEF GotRefresh
<1> QED
  BY <1>1, <1>3, <1>4 DEF RefreshSent, SentRefresh

\* A broadcast of a tier keeps the nodes in step when it is a legal entry and the tier's node follows it.
LEMMA BcastKeeps ==
  ASSUME NEW view, NEW front, NEW at, Log(view, front, at), Related(view, front, at),
         NEW t \in Tier, node[t].pc \in {"announce", "lct", "link"},
         UNCHANGED inputVars, seed' = seed,
         ett' = [u \in Tier |-> ett'[u]], sketch' = [u \in Tier |-> sketch'[u]],
         node' = [u \in Tier |-> node'[u]],
         \A u \in Tier \ {t} : node'[u] = node[u] /\ ett'[u] = ett[u] /\ sketch'[u] = sketch[u],
         NEW msg, Bcast(RankOf(t), msg), NEW ev, ev = [root |-> RankOf(t), msg |-> msg],
         Legal(front, ev), NEW q, q = After(front, ev), TierFollows(t, q)',
         p2p' = [r \in Rank |-> [s \in Rank |-> p2p'[r][s]]],
         \A T \in 1 .. Top : p2p'[0][RankOf(T)] = <<>>,
         \A r, s \in Rank : ~(r = 0 /\ s > 1) => p2p'[r][s] = p2p[r][s],
         front.phase = "edit1" => at[0],
         node'[t].pc \notin {"sizes2", "allreduce"},
         node'[t].pc = "announce" => q.side # 1,
         node'[t].pc = "listen" => t = Top,
         node'[t].pc = "link" => q.phase # "edit1",
         t = 0 => node'[0].pc \notin {"undo", "start", "refresh"}
  PROVE  InStep'
<1>1. /\ t \in 1 .. Top /\ RankOf(t) \in Rank /\ at[RankOf(t)] /\ view[RankOf(t)] = front
      /\ Good(front) /\ front.tier = t /\ front.phase \in {"turn", "edit1", "edit2"}
      /\ front.phase = "turn" => node[t].pc = "announce"
  BY OwnerIs
<1>2. MessagesFit(front, at) /\ StartersAt(at) /\ \A u \in Tier : TierFollows(u, view[RankOf(u)])
      /\ seed \in Seeds /\ InputFollows(view[0])
  BY DEF Related
<1>3. PICK r \in Rank : r = RankOf(t)
  BY <1>1
<1>4. t # 0 /\ r # 0 /\ r # 1 /\ r = t + 1 /\ t \in Int /\ 0 \in Tier /\ 0 \in Rank
      /\ RankOf(0) = 1 /\ 1 \in Rank
  BY <1>1, <1>3, TopIs DEF RankOf
<1>5. FirstTurn(front, 1) => /\ at[0] /\ at[RankOf(0)] /\ inp.pc = "round" /\ node[0].pc = "listen"
                             /\ p2p[0][RankOf(0)] = <<>>
  <2>1. SUFFICES ASSUME FirstTurn(front, 1)
                 PROVE  /\ at[0] /\ at[RankOf(0)] /\ inp.pc = "round" /\ node[0].pc = "listen"
                        /\ p2p[0][RankOf(0)] = <<>>
    OBVIOUS
  <2>2. t = 1 /\ node[1].pc = "announce" /\ at[RankOf(1)]
    BY <1>1, <2>1 DEF FirstTurn
  <2> QED
    BY <1>2, <2>1, <2>2, FirstBegun
<1>6. PICK view2 : view2 = [view EXCEPT ![r] = q]
  OBVIOUS
<1>7. PICK at2 : Log(view2, q, at2)' /\ at2[r] /\ \A p \in Rank \ {r} : ~at2[p]
  <2>1. /\ seed \in Seeds /\ at[r] /\ ev = [root |-> r, msg |-> msg] /\ Bcast(r, msg)
        /\ FirstTurn(front, 1) => at[0] /\ at[RankOf(0)]
        /\ front.phase = "edit1" => at[0]
        /\ view2 = [view EXCEPT ![r] = q]
    BY <1>1, <1>2, <1>3, <1>5, <1>6
  <2> QED
    BY <2>1, LogBcast
<1>8. /\ view2[r] = q /\ \A p \in Rank \ {r} : view2[p] = view[p]
      /\ at2[r] /\ \A p \in Rank \ {r} : ~at2[p]
  <2>1. view = [p \in Rank |-> view[p]]
    BY DEF Log
  <2> QED
    BY <1>6, <1>7, <2>1
<1>9. \A T \in Tier : node[T].pc \in {"announce", "lct", "link"} => T = t
  BY <1>1, OwnerIs
<1>10. ASSUME FirstTurn(front, t)
       PROVE  /\ node[t].pc = "announce" /\ SentRefresh(t, front, at) /\ GotRefresh(t, front, at)
              /\ node[t - 1].pc = "listen"
  <2>1. node[t].pc = "announce"
    BY <1>1, <1>10 DEF FirstTurn
  <2>2. GotRefresh(t, front, at)
    BY <1>1, <1>4, <1>10, <2>1 DEF GotRefresh
  <2>3. RefreshSent(t, front, at)
    BY <1>2 DEF MessagesFit
  <2>4. SentRefresh(t, front, at)
    BY <2>2, <2>3 DEF RefreshSent
  <2> QED
    BY <1>4, <2>1, <2>2, <2>4 DEF SentRefresh
<1>11. MessagesFit(q, at2)'
  <2>1. \A u \in 0 .. Top - 1 : SizesSent(u, q)'
    <3>1. \A u \in Tier : ~SentSizes(u)
      <4>1. SUFFICES ASSUME NEW u \in Tier, node[u].pc \in {"sizes2", "allreduce"}
                     PROVE  FALSE
        BY DEF SentSizes
      <4>2. PICK s : s = view[RankOf(u)]
        OBVIOUS
      <4>3. s.phase = "reduce"
        <5>1. TierReduces(u, s)
          BY <1>2, <4>1, <4>2, PlaceOf
        <5> QED
          BY <5>1 DEF TierReduces
      <4>4. RankOf(u) \in Rank /\ NumTiers + 1 \notin Rank /\ Owner(s) = NumTiers + 1
        BY <4>3, TopIs DEF RankOf, Owner
      <4>5. Owner(view[RankOf(u)]) \notin Rank \ {RankOf(u)}
        BY <4>2, <4>4
      <4>6. s = front
        BY <4>2, <4>4, <4>5, LogOwner
      <4> QED
        BY <1>1, <4>3, <4>6
    <3>2. \A u \in 0 .. Top - 1 : p2p'[RankOf(u + 1)][RankOf(u)] = p2p[RankOf(u + 1)][RankOf(u)]
      <4>1. \A u \in 0 .. Top - 1 : RankOf(u + 1) \in Rank /\ RankOf(u) \in Rank /\ RankOf(u + 1) # 0
        BY TopIs DEF RankOf
      <4> QED
        BY <4>1
    <3>3. \A u \in 0 .. Top - 1 : SizesSent(u, front)
      BY <1>2 DEF MessagesFit
    <3>4. \A u \in Tier : \/ node'[u] = node[u]
                          \/ /\ node[u].pc \notin {"sizes2", "allreduce"}
                             /\ node'[u].pc \notin {"sizes2", "allreduce"}
      OBVIOUS
    <3> QED
      BY <3>1, <3>2, <3>3, <3>4, SizesKept
  <2>2. \A T \in Tier : RefreshSent(T, q, at2)'
    <3>1. ASSUME NEW T \in Tier
          PROVE  p2p'[T][RankOf(T)] = <<>>
      <4>1. T \in Rank /\ RankOf(T) \in Rank /\ ~(T = 0 /\ RankOf(T) > 1)
        BY TopIs DEF RankOf
      <4>2. p2p'[T][RankOf(T)] = p2p[T][RankOf(T)]
        BY <4>1
      <4>3. SentRefresh(T, front, at) /\ ~GotRefresh(T, front, at) => p2p[T][RankOf(T)] = <<>>
        <5>1. SUFFICES ASSUME SentRefresh(T, front, at), ~GotRefresh(T, front, at)
                       PROVE  p2p[T][RankOf(T)] = <<>>
          OBVIOUS
        <5>2. FirstTurn(front, IF T = 0 THEN 1 ELSE T)
          BY <5>1 DEF SentRefresh
        <5>3. CASE T = 0
          BY <1>5, <5>2, <5>3
        <5>4. CASE T # 0
          <6>1. T = t /\ FirstTurn(front, t)
            BY <1>1, <5>2, <5>4 DEF FirstTurn
          <6> QED
            BY <1>10, <5>1, <6>1
        <5> QED
          BY <5>3, <5>4
      <4>4. RefreshSent(T, front, at)
        BY <1>2 DEF MessagesFit
      <4> QED
        BY <4>2, <4>3, <4>4 DEF RefreshSent
    <3>2. ASSUME NEW T \in Tier
          PROVE  ~SentRefresh(T, q, at2)'
      <4>1. T \in Rank /\ (T = r => T # 0 /\ T - 1 = t /\ t # Top)
        BY <1>4, TopIs
      <4> QED
        BY <1>8, <4>1 DEF SentRefresh
    <3>3. ASSUME NEW T \in Tier
          PROVE  ~GotRefresh(T, q, at2)'
      <4>1. RankOf(T) \in Rank /\ (RankOf(T) = r => T = t)
        BY <1>4, TopIs DEF RankOf
      <4> QED
        BY <1>4, <1>8, <4>1 DEF GotRefresh, FirstTurn
    <3> QED
      BY <3>1, <3>2, <3>3, RefreshNone
  <2>3. ASSUME NEW T \in 1 .. Top
        PROVE  AnswerSent(T, q, at2)'
    <3>1. T \in Tier /\ ~at2[0]
      <4>1. 0 \in Rank \ {r} /\ T \in Tier
        BY <1>4, TopIs
      <4> QED
        BY <1>8, <4>1, Zenon
    <3>2. ~(node'[T].pc = "link" /\ q.phase = "edit1")
      BY <1>9, <3>1
    <3> QED
      BY <3>1, <3>2 DEF AnswerSent
  <2>4. OthersSilent'
    <3>1. SUFFICES ASSUME NEW a \in Rank, NEW b \in Rank, b # a + 1, ~(a = b + 1 /\ b # 0),
                          ~(a = 0 /\ b > 1)
                   PROVE  p2p'[a][b] = <<>>
      BY DEF OthersSilent
    <3>2. p2p[a][b] = <<>>
      BY <1>2, <3>1 DEF MessagesFit, OthersSilent
    <3> QED
      BY <3>1, <3>2
  <2> QED
    BY <2>1, <2>2, <2>3, <2>4 DEF MessagesFit
<1>12. StartersAt(at2)'
  <2>1. inp.pc \notin {"undo", "start"}
    <3>1. SUFFICES ASSUME inp.pc \in {"undo", "start"}
                   PROVE  FALSE
      OBVIOUS
    <3>2. at[0]
      BY <1>2, <3>1 DEF StartersAt
    <3>3. view[0] = front
      BY <1>4, <3>2, LogView
    <3>4. FirstTurn(front, 1)
      BY <1>2, <3>1, <3>3, InputPlace
    <3> QED
      BY <1>5, <3>1, <3>4
  <2>2. node[0].pc \notin {"undo", "start", "refresh"}
    <3>1. SUFFICES ASSUME node[0].pc \in {"undo", "start", "refresh"}
                   PROVE  FALSE
      OBVIOUS
    <3>2. at[RankOf(0)]
      BY <1>2, <3>1 DEF StartersAt
    <3>3. view[RankOf(0)] = front
      BY <1>4, <3>2, LogView
    <3>4. TierFollows(0, front)
      BY <1>2, <1>4, <3>3
    <3>5. TierStarts(0, front) \/ (node[0].pc = "refresh" /\ TierRefreshes(0, front))
      BY <1>4, <3>1, <3>4, PlaceOf
    <3>6. FirstTurn(front, 1)
      BY <3>5 DEF TierStarts, TierRefreshes
    <3> QED
      BY <1>5, <3>1, <3>6
  <2>3. ASSUME NEW T \in Tier, T # t
        PROVE  node[T].pc # "forward"
    <3>1. SUFFICES ASSUME node[T].pc = "forward"
                   PROVE  FALSE
      OBVIOUS
    <3>2. at[RankOf(T)] /\ RankOf(T) \in Rank
      BY <1>2, <3>1, TopIs DEF StartersAt, RankOf
    <3>3. view[RankOf(T)] = front
      BY <3>2, LogView
    <3>4. TierRefreshes(T, front)
      <4>1. TierFollows(T, front)
        BY <1>2, <3>3
      <4> QED
        BY <3>1, <4>1, PlaceOf
    <3>5. FirstTurn(front, T + 1)
      BY <3>1, <3>4 DEF TierRefreshes
    <3>6. T + 1 = t /\ t - 1 = T /\ FirstTurn(front, t)
      <4>1. T + 1 = t
        BY <1>1, <3>5 DEF FirstTurn
      <4> QED
        BY <3>5, <4>1, TopIs
    <3> QED
      BY <1>10, <3>1, <3>6
  <2>4. inp' = inp
    BY DEF inputVars
  <2>5. node'[0] = node[0] /\ at2[RankOf(t)] /\ \A T \in Tier \ {t} : node'[T] = node[T]
    BY <1>3, <1>4, <1>8
  <2> QED
    BY <2>1, <2>2, <2>3, <2>4, <2>5 DEF StartersAt
<1>13. TierFollows(t, view2[RankOf(t)])'
  BY <1>3, <1>8
<1>14. \A p \in Rank \ {RankOf(t)} : view2[p] = view[p]
  BY <1>3, <1>8
<1> QED
  BY <1>7, <1>11, <1>12, <1>13, <1>14, TierKeeps

\* A plan that is about the same update and tier has told the tier the same.
LEMMA ToldSame ==
  ASSUME seed' = seed, NEW s, NEW q, q.b = s.b, q.idx = s.idx, q.tier = s.tier, q.seen = s.seen,
         q.G = s.G, NEW ends, ToldSizes(s, ends)
  PROVE  ToldSizes(q, ends)'
BY DEF ToldSizes, ToldEnds, SeenSamples, SeenSize, Endpoint, Sampled

\* A tier's node that is done with an endpoint.
LEMMA AfterEndpointFollows ==
  ASSUME seed' = seed, NEW t \in 1 .. Top, NEW s, Good(s), s.idx # 0, s.tier = t,
         NEW x, DOMAIN x = DOMAIN TierIdle, x.updates = s.b, x.idx = s.idx, x.tier = t,
         x.side = s.side, x.edits \in {0, 1}, ToldSizes(s, x.ends),
         NEW L, Weighted(L), DOMAIN L \subseteq s.G,
         NEW q, q = NextTurn(s, L),
         node'[t] = AfterEndpoint(t, x), ett'[t] = Below(L, t), sketch'[t] = s.G
  PROVE  /\ TierFollows(t, q)'
         /\ node'[t].pc \in {"announce", "forward", "refresh", "listen", "start", "batch"}
         /\ node'[t].pc = "announce" => q.side # 1
         /\ node'[t].pc = "listen" => t = Top
<1>0. t # 0 /\ t \in Tier /\ s.side \in {1, 2} /\ (t # Top => t < Top)
  BY TopIs DEF Good
<1>1. PICK y : y = node'[t]
  OBVIOUS
<1>2. CASE s.side = 1
  <2>1. y = [x EXCEPT !.pc = "announce", !.side = 2]
    BY <1>1, <1>2 DEF AfterEndpoint
  <2>2. /\ DOMAIN y = DOMAIN TierIdle /\ y.pc = "announce" /\ y.side = 2
        /\ y.updates = x.updates /\ y.idx = x.idx /\ y.tier = x.tier /\ y.edits = x.edits
        /\ y.ends = x.ends
    BY <2>1, Fields
  <2>3. /\ q.phase = "turn" /\ q.b = s.b /\ q.idx = s.idx /\ q.tier = s.tier /\ q.side = 2
        /\ q.L = L /\ q.seen = s.seen /\ q.G = s.G
    BY <1>2, NextTurnIs
  <2>4. ToldSizes(q, y.ends)'
    <3>1. PICK ends : ends = x.ends
      OBVIOUS
    <3>2. ToldSizes(q, ends)'
      BY <2>3, <3>1, ToldSame
    <3> QED
      BY <1>1, <2>2, <3>1, <3>2
  <2>5. TierRefreshes(t, q)'
    BY <1>0, <1>1, <2>2, <2>3, <2>4 DEF TierRefreshes
  <2> QED
    BY <1>1, <2>2, <2>3, <2>5 DEF TierFollows, NodeShape
<1>3. CASE s.side = 2 /\ t = Top
  <2>1. PICK x0 : x0 = [x EXCEPT !.ends = <<>>]
    OBVIOUS
  <2>2. node'[t] = NextTier(t, x0)
    BY <1>3, <2>1 DEF AfterEndpoint
  <2>3. /\ DOMAIN x0 = DOMAIN TierIdle /\ x0.updates = s.b /\ x0.idx = s.idx /\ x0.tier = s.tier
        /\ x0.ends = <<>> /\ x0.edits \in {0, 1}
    BY <2>1, Fields
  <2>4. /\ TierFollows(t, q)'
        /\ node'[t].pc \in {"refresh", "listen", "start", "batch"}
    <3>1. /\ s.side = 2
          /\ s.tier + 1 = t => t # 0
          /\ Good(s) /\ s.idx # 0 /\ t \in Tier /\ Weighted(L) /\ DOMAIN L \subseteq s.G
          /\ q = NextTurn(s, L) /\ ett'[t] = Below(L, t) /\ sketch'[t] = s.G
      BY <1>0, <1>3
    <3> QED
      BY <2>2, <2>3, <3>1, NextTierFollows
  <2> QED
    BY <1>3, <2>4
<1>4. CASE s.side = 2 /\ t # Top
  <2>1. y = [x EXCEPT !.pc = "forward"]
    BY <1>1, <1>4 DEF AfterEndpoint
  <2>2. /\ DOMAIN y = DOMAIN TierIdle /\ y.pc = "forward" /\ y.side = 2
        /\ y.updates = x.updates /\ y.idx = x.idx /\ y.tier = x.tier /\ y.edits = x.edits
        /\ y.ends = x.ends
    BY <1>4, <2>1, Fields
  <2>3. /\ q.phase = "turn" /\ q.b = s.b /\ q.idx = s.idx /\ q.tier = s.tier + 1 /\ q.side = 1
        /\ q.L = L /\ q.G = s.G
    BY <1>0, <1>4, NextTurnIs
  <2>4. FirstTurn(q, t + 1)
    BY <2>3 DEF FirstTurn
  <2>5. ToldEnds(q, y.ends)
    BY <2>2, <2>3 DEF ToldSizes, ToldEnds, Endpoint
  <2>6. TierRefreshes(t, q)'
    BY <1>0, <1>1, <1>4, <2>2, <2>3, <2>4, <2>5 DEF TierRefreshes
  <2> QED
    BY <1>1, <2>2, <2>6 DEF TierFollows, NodeShape
<1> QED
  BY <1>0, <1>2, <1>3, <1>4

\* Announce keeps the nodes in step.
LEMMA AnnounceKeeps ==
  ASSUME InStep, NEW t \in Tier, Announce(t), UNCHANGED inputVars
  PROVE  InStep'
<1>1. PICK view, front, at : Log(view, front, at) /\ Related(view, front, at)
  BY DEF InStep
<1>2. PICK x, end : x = node[t] /\ end = x.ends[x.side]
  OBVIOUS
<1>3. /\ ett = [u \in Tier |-> ett[u]] /\ sketch = [u \in Tier |-> sketch[u]]
      /\ node = [u \in Tier |-> node[u]] /\ MessagesFit(front, at) /\ seed \in Seeds
  BY <1>1 DEF Related
<1>4. x.pc = "announce" /\ seed' = seed /\ ett' = ett /\ sketch' = sketch /\ p2p' = p2p
  BY <1>2 DEF Announce
<1>5. /\ t \in 1 .. Top /\ RankOf(t) \in Rank
      /\ Good(front) /\ front.tier = t /\ front.idx # 0 /\ front.phase = "turn"
      /\ DOMAIN x = DOMAIN TierIdle /\ x.updates = front.b /\ x.idx = front.idx
      /\ x.edits \in {0, 1} /\ x.tier = t /\ x.side = front.side /\ ToldSizes(front, x.ends)
      /\ ett[t] = Below(front.L, t) /\ sketch[t] = front.G
  BY <1>1, <1>2, <1>4, OwnerIs
<1>6. front.side \in {1, 2} /\ front.G \in SUBSET Edge /\ Weighted(front.L)
      /\ DOMAIN front.L \subseteq front.G
  BY <1>5 DEF Good
<1>7. /\ end.v = Endpoint(front, front.side) /\ end.size = SeenSize(front, front.side)
      /\ IF SeenSamples(front, front.side) = {} THEN end.sample = {}
                                                ELSE end.sample \in SeenSamples(front, front.side)
  BY <1>2, <1>5, <1>6 DEF ToldSizes, ToldEnds
<1>8. \A e \in SeenSamples(front, front.side) : e # {}
  <2>1. t - 1 \in 0 .. Top - 1
    BY <1>5, TopIs
  <2>2. SeenSamples(front, front.side) \subseteq front.G
    BY <1>3, <1>5, <1>6, <2>1, SampledInGraph DEF SeenSamples
  <2>3. \A e \in Edge : e # {}
    BY DEF Edge
  <2> QED
    BY <1>6, <2>2, <2>3
<1>9. end.size = TreeSize(ett[t], end.v) /\ end.sample # {} <=> Stuck(front)
  BY <1>5, <1>7, <1>8 DEF Stuck
<1>10. \A T \in 1 .. Top : p2p'[0][RankOf(T)] = <<>>
  BY <1>3, <1>4, <1>5 DEF MessagesFit, AnswerSent
<1>11. p2p' = [r \in Rank |-> [s \in Rank |-> p2p'[r][s]]]
  BY <1>3, <1>4 DEF MessagesFit
<1>12. Owner(front) = RankOf(t)
  BY <1>5 DEF Owner
<1>13. CASE Stuck(front)
  <2>1. PICK msg, ev : /\ msg = [kind |-> "isolated", edge |-> end.sample]
                       /\ ev = [root |-> RankOf(t), msg |-> msg]
    OBVIOUS
  <2>2. ev.root = RankOf(t) /\ ev.msg.kind = "isolated" /\ ev.msg.edge = end.sample
    BY <2>1
  <2>3. /\ Bcast(RankOf(t), msg) /\ node' = [node EXCEPT ![t] = [x EXCEPT !.pc = "lct"]]
    BY <1>2, <1>3, <1>9, <1>13, <2>1 DEF Announce
  <2>4. Legal(front, ev)
    BY <1>5, <1>7, <1>12, <1>13, <2>2 DEF Legal, Stuck
  <2>5. PICK q, y : q = After(front, ev) /\ y = [x EXCEPT !.pc = "lct"]
    OBVIOUS
  <2>6. /\ q.phase = "edit1" /\ q.b = front.b /\ q.idx = front.idx /\ q.tier = front.tier
        /\ q.side = front.side /\ q.edge = end.sample /\ q.L = front.L /\ q.seen = front.seen
        /\ q.G = front.G
    BY <2>2, <2>5, AfterIs
  <2>7. /\ DOMAIN y = DOMAIN TierIdle /\ y.pc = "lct" /\ y.side = x.side
        /\ y.updates = x.updates /\ y.idx = x.idx /\ y.tier = x.tier /\ y.edits = x.edits
        /\ y.ends = x.ends
    BY <1>5, <2>5, Fields
  <2>8. /\ node'[t] = y /\ \A u \in Tier \ {t} : node'[u] = node[u]
        /\ node' = [u \in Tier |-> node'[u]]
    BY <1>3, <2>3, <2>5
  <2>9. ToldSizes(q, y.ends)'
    <3>1. PICK ends : ends = x.ends
      OBVIOUS
    <3>2. ToldSizes(q, ends)'
      BY <1>4, <1>5, <2>6, <3>1, ToldSame
    <3> QED
      BY <2>7, <3>1, <3>2
  <2>10. TierRefreshes(t, q)'
    BY <1>2, <1>4, <1>5, <2>6, <2>7, <2>8, <2>9, TopIs DEF TierRefreshes
  <2>11. TierFollows(t, q)'
    BY <2>7, <2>8, <2>10 DEF TierFollows, NodeShape
  <2>12. node'[t].pc = "lct" /\ front.phase # "edit1" /\ t # 0
    BY <1>5, <2>7, <2>8
  <2> QED
    BY <1>1, <1>2, <1>3, <1>4, <1>10, <1>11, <2>1, <2>3, <2>4, <2>5, <2>8, <2>11, <2>12, BcastKeeps
<1>14. CASE ~Stuck(front)
  <2>1. PICK msg, ev : /\ msg = [kind |-> "not_isolated"]
                       /\ ev = [root |-> RankOf(t), msg |-> msg]
    OBVIOUS
  <2>2. ev.root = RankOf(t) /\ ev.msg.kind = "not_isolated"
    BY <2>1
  <2>3. /\ Bcast(RankOf(t), msg) /\ node' = [node EXCEPT ![t] = AfterEndpoint(t, x)]
    BY <1>2, <1>3, <1>9, <1>14, <2>1 DEF Announce
  <2>4. Legal(front, ev)
    BY <1>5, <1>12, <1>14, <2>2 DEF Legal
  <2>5. PICK q, L : q = After(front, ev) /\ L = front.L
    OBVIOUS
  <2>6. q = NextTurn(front, L)
    BY <2>2, <2>5, AfterIs
  <2>7. /\ node'[t] = AfterEndpoint(t, x) /\ \A u \in Tier \ {t} : node'[u] = node[u]
        /\ node' = [u \in Tier |-> node'[u]]
    BY <1>3, <2>3
  <2>8. /\ TierFollows(t, q)'
        /\ node'[t].pc \in {"announce", "forward", "refresh", "listen", "start", "batch"}
        /\ node'[t].pc = "announce" => q.side # 1
        /\ node'[t].pc = "listen" => t = Top
    <3>1. /\ Weighted(L) /\ DOMAIN L \subseteq front.G /\ ett'[t] = Below(L, t)
          /\ sketch'[t] = front.G
      BY <1>4, <1>5, <1>6, <2>5
    <3> QED
      <4>1. PICK s : s = front
        OBVIOUS
      <4>2. /\ seed' = seed /\ t \in 1 .. Top /\ Good(s) /\ s.idx # 0 /\ s.tier = t
            /\ DOMAIN x = DOMAIN TierIdle /\ x.updates = s.b /\ x.idx = s.idx /\ x.tier = t
            /\ x.side = s.side /\ x.edits \in {0, 1} /\ ToldSizes(s, x.ends)
            /\ Weighted(L) /\ DOMAIN L \subseteq s.G /\ q = NextTurn(s, L)
            /\ node'[t] = AfterEndpoint(t, x) /\ ett'[t] = Below(L, t) /\ sketch'[t] = s.G
        BY <1>4, <1>5, <2>6, <2>7, <3>1, <4>1
      <4> QED
        BY <4>2, AfterEndpointFollows
  <2>9. front.phase # "edit1" /\ t # 0 /\ node'[t].pc \notin {"sizes2", "allreduce", "link"}
    BY <1>5, <2>8
  <2> QED
    BY <1>1, <1>2, <1>3, <1>4, <1>10, <1>11, <2>1, <2>3, <2>4, <2>5, <2>7, <2>8, <2>9, BcastKeeps
<1> QED
  BY <1>13, <1>14

\* LinkFound keeps the nodes in step.
LEMMA LinkFoundKeeps ==
  ASSUME InStep, NEW t \in Tier, LinkFound(t), UNCHANGED inputVars
  PROVE  InStep'
<1>1. PICK view, front, at : Log(view, front, at) /\ Related(view, front, at)
  BY DEF InStep
<1>2. PICK x, e, s : x = node[t] /\ e = x.ends[x.side].sample /\ s = front
  OBVIOUS
<1>3. /\ ett = [u \in Tier |-> ett[u]] /\ sketch = [u \in Tier |-> sketch[u]]
      /\ node = [u \in Tier |-> node[u]] /\ MessagesFit(front, at)
  BY <1>1 DEF Related
<1>4. /\ x.pc = "link" /\ seed' = seed /\ sketch' = sketch /\ p2p' = p2p
      /\ ett' = [ett EXCEPT ![t] = EttLink(ett[t], e)]
      /\ node' = [node EXCEPT ![t] = AfterEndpoint(t, x)]
      /\ Bcast(RankOf(t), [kind |-> "link", edge |-> e, startTier |-> t])
  BY <1>2, <1>3 DEF LinkFound
<1>5. /\ t \in 1 .. Top /\ RankOf(t) \in Rank
      /\ Good(s) /\ s.tier = t /\ s.idx # 0 /\ s.phase \in {"edit1", "edit2"}
      /\ DOMAIN x = DOMAIN TierIdle /\ x.updates = s.b /\ x.idx = s.idx
      /\ x.edits \in {0, 1} /\ x.tier = t /\ x.side = s.side /\ ToldSizes(s, x.ends)
      /\ ett[t] = Below(s.L, t) /\ sketch[t] = s.G /\ s.edge = e
  BY <1>1, <1>2, <1>4, OwnerIs
<1>6. /\ s.G \in SUBSET Edge /\ Weighted(s.L) /\ DOMAIN s.L \subseteq s.G /\ e \in s.G /\ e \in Edge
      /\ s.phase = "edit2" => ~Joins(DOMAIN s.L, e)
  BY <1>5 DEF Good
<1>7. /\ s.phase = "edit1" => at[0] /\ ~Joins(DOMAIN s.L, e)
      /\ \A T \in 1 .. Top : p2p'[0][RankOf(T)] = <<>>
      /\ p2p' = [r \in Rank |-> [q \in Rank |-> p2p'[r][q]]]
  <2>1. \A T \in 1 .. Top : AnswerSent(T, s, at)
    BY <1>2, <1>3 DEF MessagesFit
  <2>2. s.phase = "edit1" => at[0] /\ ~Joins(DOMAIN s.L, e)
    BY <1>2, <1>4, <1>5, <2>1 DEF AnswerSent
  <2>3. \A T \in 1 .. Top : p2p[0][RankOf(T)] = <<>>
    BY <1>2, <1>4, <1>5, <2>1 DEF AnswerSent
  <2> QED
    BY <1>3, <1>4, <2>2, <2>3 DEF MessagesFit
<1>8. PICK msg, ev, L, q : /\ msg = [kind |-> "link", edge |-> e, startTier |-> t]
                           /\ ev = [root |-> RankOf(t), msg |-> msg]
                           /\ L = LctLink(s.L, e, t) /\ q = After(s, ev)
  OBVIOUS
<1>9. /\ ev.root = RankOf(t) /\ ev.msg.kind = "link" /\ ev.msg.edge = e /\ ev.msg.startTier = t
  BY <1>8
<1>10. ~Joins(DOMAIN s.L, e)
  BY <1>5, <1>6, <1>7
<1>11. Legal(s, ev)
  <2>1. Owner(s) = RankOf(t)
    BY <1>5 DEF Owner
  <2> QED
    BY <1>5, <1>9, <1>10, <2>1 DEF Legal
<1>12. q = NextTurn(s, L)
  BY <1>8, <1>9, AfterIs
<1>13. /\ Below(L, t) = EttLink(Below(s.L, t), e) /\ Weighted(L) /\ DOMAIN L = DOMAIN s.L \cup {e}
  <2>1. PICK l, w : l = s.L /\ w = t
    OBVIOUS
  <2>2. LinkFits(l, e, w)
    BY <1>5, <1>6, <1>10, <2>1 DEF LinkFits
  <2>3. LinkSeen(LctLink(l, e, w), l, e, w, t)
    BY <2>2, LinkBelow
  <2>4. ~(t < t)
    BY <1>5, TopIs
  <2> QED
    BY <1>8, <2>1, <2>3, <2>4 DEF LinkSeen
<1>14. /\ node'[t] = AfterEndpoint(t, x) /\ ett'[t] = Below(L, t) /\ sketch'[t] = s.G
       /\ \A u \in Tier \ {t} : node'[u] = node[u] /\ ett'[u] = ett[u] /\ sketch'[u] = sketch[u]
       /\ node' = [u \in Tier |-> node'[u]] /\ ett' = [u \in Tier |-> ett'[u]]
       /\ sketch' = [u \in Tier |-> sketch'[u]]
  BY <1>3, <1>4, <1>5, <1>13
<1>15. /\ TierFollows(t, q)'
       /\ node'[t].pc \in {"announce", "forward", "refresh", "listen", "start", "batch"}
       /\ node'[t].pc = "announce" => q.side # 1
       /\ node'[t].pc = "listen" => t = Top
  <2>1. /\ seed' = seed /\ t \in 1 .. Top /\ Good(s) /\ s.idx # 0 /\ s.tier = t
        /\ DOMAIN x = DOMAIN TierIdle /\ x.updates = s.b /\ x.idx = s.idx /\ x.tier = t
        /\ x.side = s.side /\ x.edits \in {0, 1} /\ ToldSizes(s, x.ends)
        /\ Weighted(L) /\ DOMAIN L \subseteq s.G /\ q = NextTurn(s, L)
        /\ node'[t] = AfterEndpoint(t, x) /\ ett'[t] = Below(L, t) /\ sketch'[t] = s.G
    BY <1>4, <1>5, <1>6, <1>12, <1>13, <1>14
  <2> QED
    BY <2>1, AfterEndpointFollows
<1>16. /\ s = front /\ t # 0 /\ node'[t].pc \notin {"sizes2", "allreduce", "link"}
       /\ node[t].pc = "link" /\ Bcast(RankOf(t), msg)
  BY <1>2, <1>4, <1>5, <1>8, <1>15
<1>17. /\ Log(view, front, at) /\ Related(view, front, at) /\ t \in Tier
       /\ node[t].pc \in {"announce", "lct", "link"} /\ seed' = seed
       /\ graph' = graph /\ lct' = lct /\ queryEtt' = queryEtt /\ inp' = inp /\ answer' = answer
       /\ ett' = [u \in Tier |-> ett'[u]] /\ sketch' = [u \in Tier |-> sketch'[u]]
       /\ node' = [u \in Tier |-> node'[u]]
       /\ \A u \in Tier \ {t} : node'[u] = node[u] /\ ett'[u] = ett[u] /\ sketch'[u] = sketch[u]
       /\ Bcast(RankOf(t), msg) /\ ev = [root |-> RankOf(t), msg |-> msg]
       /\ Legal(front, ev) /\ q = After(front, ev) /\ TierFollows(t, q)'
       /\ p2p' = [r \in Rank |-> [p \in Rank |-> p2p'[r][p]]]
       /\ \A T \in 1 .. Top : p2p'[0][RankOf(T)] = <<>>
       /\ \A r, p \in Rank : ~(r = 0 /\ p > 1) => p2p'[r][p] = p2p[r][p]
       /\ node'[t].pc \notin {"sizes2", "allreduce"}
       /\ node'[t].pc # "link" /\ t # 0
  <2>1. \A r, p \in Rank : p2p'[r][p] = p2p[r][p]
    BY <1>4
  <2>2. /\ graph' = graph /\ lct' = lct /\ queryEtt' = queryEtt /\ inp' = inp /\ answer' = answer
    BY DEF inputVars
  <2>3. Legal(front, ev) /\ q = After(front, ev)
    BY <1>8, <1>11, <1>16
  <2> QED
    BY <1>1, <1>4, <1>7, <1>8, <1>14, <1>15, <1>16, <2>1, <2>2, <2>3
<1>18. front.phase = "edit1" => at[0]
  BY <1>7, <1>16
<1>19. /\ node'[t].pc = "announce" => q.side # 1
       /\ node'[t].pc = "listen" => t = Top
  BY <1>15
<1> QED
  BY <1>17, <1>18, <1>19, BcastKeeps DEF inputVars

\* ReceiveCycle keeps the nodes in step.
LEMMA ReceiveCycleKeeps ==
  ASSUME InStep, NEW t \in Tier, ReceiveCycle(t), UNCHANGED inputVars
  PROVE  InStep'
<1>1. PICK view, front, at : Log(view, front, at) /\ Related(view, front, at)
  BY DEF InStep
<1>2. PICK x, y, s, m : /\ x = node[t] /\ y = [x EXCEPT !.pc = "link"] /\ s = front
                        /\ m = Received(RankOf(t), 0)
  OBVIOUS
<1>3. /\ ett = [u \in Tier |-> ett[u]] /\ sketch = [u \in Tier |-> sketch[u]]
      /\ node = [u \in Tier |-> node[u]] /\ MessagesFit(front, at) /\ StartersAt(at)
  BY <1>1 DEF Related
<1>4. /\ x.pc = "lct" /\ seed' = seed /\ sketch' = sketch
      /\ Incoming(RankOf(t), 0) /\ Receive(RankOf(t), 0)
      /\ IF m.connected
         THEN /\ Bcast(RankOf(t), [kind |-> "cut", edge |-> m.cycleEdge, startTier |-> m.weight])
              /\ ett' = [ett EXCEPT ![t] = IF t >= m.weight THEN EttCut(ett[t], m.cycleEdge)
                                                            ELSE ett[t]]
         ELSE bcasts' = bcasts /\ ett' = ett
      /\ node' = [node EXCEPT ![t] = y]
  BY <1>2, <1>3 DEF ReceiveCycle
<1>5. /\ t \in 1 .. Top /\ RankOf(t) \in Rank /\ at[RankOf(t)] /\ view[RankOf(t)] = s
      /\ Good(s) /\ s.tier = t /\ s.idx # 0 /\ s.phase = "edit1"
      /\ DOMAIN x = DOMAIN TierIdle /\ x.updates = s.b /\ x.idx = s.idx
      /\ x.edits \in {0, 1} /\ x.tier = t /\ x.side = s.side /\ ToldSizes(s, x.ends)
      /\ s.edge = x.ends[s.side].sample
      /\ ett[t] = Below(s.L, t) /\ sketch[t] = s.G
  BY <1>1, <1>2, <1>4, OwnerIs
<1>6. /\ s.G \in SUBSET Edge /\ Weighted(s.L) /\ DOMAIN s.L \subseteq s.G /\ t # 0 /\ 0 \in Rank
      /\ RankOf(t) # 0 /\ RankOf(t) > 1 /\ t \in Nat
  BY <1>5, TopIs DEF Good, RankOf
<1>7. /\ p2p[0][RankOf(t)] = <<m>> /\ CycleAnswer(s.L, s.edge, m) /\ at[0]
      /\ p2p' = [r \in Rank |-> [q \in Rank |-> p2p'[r][q]]]
      /\ p2p'[0][RankOf(t)] = <<>>
      /\ \A r, q \in Rank : r # 0 \/ q # RankOf(t) => p2p'[r][q] = p2p[r][q]
  <2>1. PICK z : z = p2p[0][RankOf(t)][1]
    OBVIOUS
  <2>2. AnswerSent(t, s, at) /\ p2p[0][RankOf(t)] # <<>>
    BY <1>2, <1>3, <1>4, <1>5 DEF MessagesFit, Incoming
  <2>3. p2p[0][RankOf(t)] = <<z>> /\ CycleAnswer(s.L, s.edge, z) /\ at[0]
    BY <2>1, <2>2 DEF AnswerSent
  <2>4. p2p = [r \in Rank |-> [q \in Rank |-> p2p[r][q]]]
    BY <1>3 DEF MessagesFit
  <2>5. /\ p2p' = [r \in Rank |-> [q \in Rank |-> p2p'[r][q]]]
        /\ p2p'[0][RankOf(t)] = <<>>
        /\ Received(RankOf(t), 0) = z
        /\ \A r, q \in Rank : r # 0 \/ q # RankOf(t) => p2p'[r][q] = p2p[r][q]
    BY <1>4, <1>5, <1>6, <2>3, <2>4, ReceivedIs
  <2> QED
    BY <1>2, <2>3, <2>5
<1>8. \A T \in 1 .. Top : p2p'[0][RankOf(T)] = <<>>
  <2>1. SUFFICES ASSUME NEW T \in 1 .. Top, T # t
                 PROVE  p2p'[0][RankOf(T)] = <<>>
    BY <1>7
  <2>2. RankOf(T) # RankOf(t) /\ RankOf(T) \in Rank
    BY <1>6, <2>1, TopIs DEF RankOf
  <2>3. p2p[0][RankOf(T)] = <<>>
    <3>1. AnswerSent(T, s, at)
      BY <1>2, <1>3 DEF MessagesFit
    <3> QED
      BY <1>5, <2>1, <3>1 DEF AnswerSent
  <2> QED
    BY <1>6, <1>7, <2>2, <2>3
<1>9. /\ DOMAIN y = DOMAIN TierIdle /\ y.pc = "link" /\ y.side = x.side
      /\ y.updates = x.updates /\ y.idx = x.idx /\ y.tier = x.tier /\ y.edits = x.edits
      /\ y.ends = x.ends
  BY <1>2, <1>5, Fields
<1>10. /\ node'[t] = y /\ \A u \in Tier \ {t} : node'[u] = node[u]
       /\ node' = [u \in Tier |-> node'[u]]
  BY <1>3, <1>4
<1>11. ASSUME NEW q, q.phase \in {"edit1", "edit2"}, q.b = s.b, q.idx = s.idx, q.tier = s.tier,
              q.side = s.side, q.edge = s.edge, q.seen = s.seen, q.G = s.G, ett'[t] = Below(q.L, t)
       PROVE  TierFollows(t, q)'
  <2>1. ToldSizes(q, y.ends)'
    <3>1. PICK ends : ends = x.ends
      OBVIOUS
    <3>2. ToldSizes(q, ends)'
      BY <1>4, <1>5, <1>11, <3>1, ToldSame
    <3> QED
      BY <1>2, <1>9, <3>1, <3>2
  <2>2. TierRefreshes(t, q)'
    <3>1. /\ y.updates = q.b /\ y.idx = q.idx /\ y.edits \in {0, 1} /\ sketch'[t] = q.G
          /\ y.pc = "link" /\ t # 0 /\ y.tier = t /\ q.tier = t /\ y.side = q.side
          /\ q.edge = y.ends[q.side].sample
      BY <1>4, <1>5, <1>6, <1>9, <1>11
    <3> QED
      BY <1>10, <1>11, <2>1, <3>1, Zenon DEF TierRefreshes
  <2> QED
    BY <1>9, <1>10, <2>2 DEF TierFollows, NodeShape
<1>12. CASE Joins(DOMAIN s.L, s.edge)
  <2>1. PICK c \in Heaviest(s.L, s.edge) :
          m = [kind |-> "lct", connected |-> TRUE, cycleEdge |-> c, weight |-> s.L[c]]
    BY <1>7, <1>12 DEF CycleAnswer
  <2>2. m.connected /\ m.cycleEdge = c /\ m.weight = s.L[c]
    BY <2>1
  <2>3. PICK msg, ev, q : /\ msg = [kind |-> "cut", edge |-> c, startTier |-> s.L[c]]
                          /\ ev = [root |-> RankOf(t), msg |-> msg]
                          /\ q = After(s, ev)
    OBVIOUS
  <2>4. /\ ev.root = RankOf(t) /\ ev.msg.kind = "cut" /\ ev.msg.edge = c
        /\ ev.msg.startTier = s.L[c]
    BY <2>3
  <2>5. /\ Bcast(RankOf(t), msg)
        /\ ett' = [ett EXCEPT ![t] = IF t >= s.L[c] THEN EttCut(ett[t], c) ELSE ett[t]]
    BY <1>4, <2>2, <2>3
  <2>6. Legal(s, ev)
    <3>1. Owner(s) = RankOf(t)
      BY <1>5 DEF Owner
    <3> QED
      BY <1>5, <1>12, <2>1, <2>4, <3>1 DEF Legal
  <2>7. /\ q.phase = "edit2" /\ q.b = s.b /\ q.idx = s.idx /\ q.tier = s.tier
        /\ q.side = s.side /\ q.edge = s.edge /\ q.L = LctCut(s.L, c) /\ q.seen = s.seen
        /\ q.G = s.G
    BY <2>3, <2>4, AfterIs
  <2>8. ett'[t] = Below(q.L, t)
    <3>1. c \in DOMAIN s.L
      BY <2>1 DEF Heaviest, PathEdges
    <3>2. PICK l : l = s.L
      OBVIOUS
    <3>3. Weighted(l) /\ c \in DOMAIN l /\ l[c] \in Nat
      BY <1>6, <3>1, <3>2, TopIs DEF Weighted
    <3>4. Below(LctCut(l, c), t) = IF t < l[c] THEN Below(l, t) ELSE EttCut(Below(l, t), c)
      BY <3>3, CutBelow
    <3>5. t < l[c] <=> ~(t >= l[c])
      BY <1>6, <3>3
    <3> QED
      BY <1>3, <1>5, <2>5, <2>7, <3>2, <3>4, <3>5
  <2>9. TierFollows(t, q)'
    BY <1>11, <2>7, <2>8
  <2>10. /\ \A u \in Tier \ {t} : node'[u] = node[u] /\ ett'[u] = ett[u] /\ sketch'[u] = sketch[u]
         /\ ett' = [u \in Tier |-> ett'[u]] /\ sketch' = [u \in Tier |-> sketch'[u]]
    BY <1>3, <1>4, <1>10, <2>5
  <2>11. \A r, p \in Rank : ~(r = 0 /\ p > 1) => p2p'[r][p] = p2p[r][p]
    BY <1>6, <1>7
  <2>12. /\ s = front /\ node'[t].pc = "link" /\ q.phase # "edit1" /\ node[t].pc = "lct"
    BY <1>2, <1>4, <1>9, <1>10, <2>7
  <2> QED
    BY <1>1, <1>4, <1>6, <1>7, <1>8, <1>10, <2>3, <2>5, <2>6, <2>9, <2>10, <2>11, <2>12, BcastKeeps
<1>13. CASE ~Joins(DOMAIN s.L, s.edge)
  <2>1. ~m.connected
    <3>1. m = [kind |-> "lct", connected |-> FALSE]
      BY <1>7, <1>13 DEF CycleAnswer
    <3> QED
      BY <3>1
  <2>2. bcasts' = bcasts /\ ett' = ett
    BY <1>4, <2>1
  <2>3. TierFollows(t, view[RankOf(t)])'
    BY <1>5, <1>11, <2>2
  <2>4. inp' = inp
    BY DEF inputVars
  <2>5. MessagesFit(front, at)'
    <3>1. \A u \in 0 .. Top - 1 : SizesSent(u, front)'
      <4>1. \A u \in 0 .. Top - 1 : p2p'[RankOf(u + 1)][RankOf(u)] = p2p[RankOf(u + 1)][RankOf(u)]
        <5>1. \A u \in 0 .. Top - 1 : RankOf(u + 1) \in Rank /\ RankOf(u) \in Rank /\ RankOf(u + 1) # 0
          BY TopIs DEF RankOf
        <5> QED
          BY <1>7, <5>1
      <4>2. \A u \in 0 .. Top - 1 : SizesSent(u, front)
        BY <1>3 DEF MessagesFit
      <4>3. \A u \in Tier : \/ node'[u] = node[u]
                            \/ /\ node[u].pc \notin {"sizes2", "allreduce"}
                               /\ node'[u].pc \notin {"sizes2", "allreduce"}
        BY <1>2, <1>4, <1>9, <1>10
      <4> QED
        BY <4>1, <4>2, <4>3, SizesKept
    <3>2. \A T \in Tier : RefreshSent(T, front, at)'
      <4>1. \A T \in Tier : p2p'[T][RankOf(T)] = p2p[T][RankOf(T)]
        <5>1. \A T \in Tier : T \in Rank /\ RankOf(T) \in Rank /\ (T # 0 \/ RankOf(T) # RankOf(t))
          BY <1>6, TopIs DEF RankOf
        <5> QED
          BY <1>7, <5>1
      <4>2. \A T \in Tier : /\ SentRefresh(T, front, at)' <=> SentRefresh(T, front, at)
                            /\ GotRefresh(T, front, at)' <=> GotRefresh(T, front, at)
        BY <1>2, <1>4, <1>9, <1>10, <2>4, RefreshStays
      <4> QED
        BY <1>3, <1>4, <4>1, <4>2, RefreshKept DEF MessagesFit
    <3>3. ASSUME NEW T \in 1 .. Top
          PROVE  AnswerSent(T, front, at)'
      <4>1. AnswerSent(T, front, at) /\ T \in Tier
        BY <1>3, TopIs DEF MessagesFit
      <4>2. CASE T = t
        BY <1>2, <1>7, <1>9, <1>10, <1>13, <4>2 DEF AnswerSent
      <4>3. CASE T # t
        <5>1. node'[T] = node[T]
          BY <1>10, <4>1, <4>3
        <5>2. p2p'[0][RankOf(T)] = <<>> /\ front.tier # T
          BY <1>2, <1>5, <1>8, <4>3
        <5> QED
          BY <4>1, <5>1, <5>2 DEF AnswerSent
      <4> QED
        BY <4>2, <4>3
    <3>4. OthersSilent'
      <4>1. SUFFICES ASSUME NEW a \in Rank, NEW b \in Rank, b # a + 1, ~(a = b + 1 /\ b # 0),
                            ~(a = 0 /\ b > 1)
                     PROVE  p2p'[a][b] = <<>>
        BY DEF OthersSilent
      <4>2. p2p[a][b] = <<>>
        BY <1>3, <4>1 DEF MessagesFit, OthersSilent
      <4> QED
        BY <1>6, <1>7, <4>1, <4>2
    <3> QED
      BY <1>7, <3>1, <3>2, <3>3, <3>4 DEF MessagesFit
  <2>6. node'[t].pc = "link" /\ t # 0
    BY <1>6, <1>9, <1>10
  <2> QED
    BY <1>1, <1>3, <1>4, <1>10, <2>2, <2>3, <2>5, <2>6, LocalKeeps
<1> QED
  BY <1>12, <1>13
=============================================================================
