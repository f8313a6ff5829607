--------------------------- MODULE DynamicCCProofs ----------------------------
(***************************************************************************)
(* The steps of the input node, of its caller and the allreduce keep all   *)
(* nodes in step, and so InStep is invariant (KeepsInStep).  The theorems  *)
(* about the distributed program follow from it: for any number of tiers   *)
(* and vertices, any size of the buffer, any sketches, and whether MPI     *)
(* buffers messages or not.                                                *)
(***************************************************************************)
EXTENDS ReplayProofs

-----------------------------------------------------------------------------
(* Steps of the input node.                                                *)

\* A step of the input node keeps the nodes in step when it itself does.
LEMMA InputKeeps ==
  ASSUME NEW view, NEW front, NEW at, Related(view, front, at), UNCHANGED tierVars,
         NEW view2, NEW front2, NEW at2, Log(view2, front2, at2)',
         \A p \in Rank \ {0} : view2[p] = view[p],
         InputFollows(view2[0])', MessagesFit(front2, at2)', StartersAt(at2)'
  PROVE  InStep'
<1>1. seed' = seed /\ ett' = ett /\ sketch' = sketch /\ node' = node
  BY DEF tierVars
<1>2. ASSUME NEW t \in Tier
      PROVE  TierFollows(t, view2[RankOf(t)])'
  <2>1. PICK s : s = view[RankOf(t)]
    OBVIOUS
  <2>2. TierFollows(t, s)
    BY <2>1 DEF Related
  <2>3. TierFollows(t, s)'
    BY <1>1, <2>2, TierFrame
  <2>4. view2[RankOf(t)] = s
    BY <2>1, TopIs DEF RankOf
  <2> QED
    BY <2>3, <2>4
<1>3. /\ (seed \in Seeds)'
      /\ ett' = [t \in Tier |-> ett'[t]]
      /\ sketch' = [t \in Tier |-> sketch'[t]]
      /\ node' = [t \in Tier |-> node'[t]]
  BY <1>1 DEF Related
<1>4. Related(view2, front2, at2)'
  BY <1>2, <1>3 DEF Related
<1> QED
  BY <1>4 DEF InStep

\* The messages that the input node has no part in stay.
LEMMA InputMessages ==
  ASSUME UNCHANGED tierVars, NEW front, NEW at, MessagesFit(front, at),
         p2p' = [r \in Rank |-> [s \in Rank |-> p2p'[r][s]]],
         \A r, s \in Rank : r # 0 \/ s = 0 => p2p'[r][s] = p2p[r][s],
         NEW at2, \A p \in Rank \ {0} : at2[p] = at[p],
         RefreshSent(0, front, at2)',
         \A T \in 1 .. Top : AnswerSent(T, front, at2)'
  PROVE  MessagesFit(front, at2)'
<1>1. seed' = seed /\ node' = node
  BY DEF tierVars
<1>2. \A u \in 0 .. Top - 1 : SizesSent(u, front)'
  <2>1. \A u \in 0 .. Top - 1 : p2p'[RankOf(u + 1)][RankOf(u)] = p2p[RankOf(u + 1)][RankOf(u)]
    <3>1. \A u \in 0 .. Top - 1 : RankOf(u + 1) \in Rank /\ RankOf(u) \in Rank /\ RankOf(u + 1) # 0
      BY TopIs DEF RankOf
    <3> QED
      BY <3>1
  <2>2. \A u \in 0 .. Top - 1 : SizesSent(u, front)
    BY DEF MessagesFit
  <2> QED
    BY <1>1, <2>1, <2>2, SizesKept
<1>3. ASSUME NEW T \in Tier, T # 0
      PROVE  RefreshSent(T, front, at2)'
  <2>1. T \in Rank /\ RankOf(T) \in Rank /\ RankOf(T) # 0
    BY <1>3, TopIs DEF RankOf
  <2>2. /\ p2p'[T][RankOf(T)] = p2p[T][RankOf(T)]
        /\ at2[T] = at[T] /\ at2[RankOf(T)] = at[RankOf(T)]
    BY <1>3, <2>1
  <2>3. /\ SentRefresh(T, front, at2)' <=> SentRefresh(T, front, at)
        /\ GotRefresh(T, front, at2)' <=> GotRefresh(T, front, at)
    BY <1>1, <1>3, <2>2 DEF SentRefresh, GotRefresh
  <2>4. RefreshSent(T, front, at)
    BY DEF MessagesFit
  <2>5. \A ends : ToldSizes(front, ends)' <=> ToldSizes(front, ends)
    BY <1>1 DEF ToldSizes, SeenSamples, Sampled
  <2> QED
    BY <2>2, <2>3, <2>4, <2>5 DEF RefreshSent
<1>4. \A T \in Tier : RefreshSent(T, front, at2)'
  BY <1>3
<1>5. OthersSilent'
  <2>1. SUFFICES ASSUME NEW a \in Rank, NEW b \in Rank, b # a + 1, ~(a = b + 1 /\ b # 0),
                        ~(a = 0 /\ b > 1)
                 PROVE  p2p'[a][b] = <<>>
    BY DEF OthersSilent
  <2>2. p2p[a][b] = <<>>
    BY <2>1 DEF MessagesFit, OthersSilent
  <2>3. a # 0 \/ b = 0
    BY <2>1, TopIs
  <2> QED
    BY <2>2, <2>3
<1> QED
  BY <1>2, <1>4, <1>5 DEF MessagesFit

\* Steps without a message.
LEMMA InputLocalKeeps ==
  ASSUME NEW view, NEW front, NEW at, Log(view, front, at), Related(view, front, at),
         UNCHANGED tierVars, p2p' = p2p, bcasts' = bcasts, InputFollows(view[0])',
         inp.pc # "round", inp'.pc # "round",
         inp'.pc \in {"undo", "start"} => at[0]
  PROVE  InStep'
<1>1. seed' = seed /\ node' = node
  BY DEF tierVars
<1>2. MessagesFit(front, at) /\ StartersAt(at)
  BY DEF Related
<1>3. Log(view, front, at)'
  BY <1>1, LogSame
<1>4. RefreshSent(0, front, at)'
  <2>1. RefreshSent(0, front, at)
    BY <1>2, TopIs DEF MessagesFit
  <2>2. ~SentRefresh(0, front, at)' /\ ~SentRefresh(0, front, at)
    BY DEF SentRefresh
  <2>3. GotRefresh(0, front, at)' <=> GotRefresh(0, front, at)
    BY <1>1 DEF GotRefresh
  <2> QED
    BY <2>1, <2>2, <2>3 DEF RefreshSent
<1>5. \A T \in 1 .. Top : AnswerSent(T, front, at)'
  <2>1. \A T \in 1 .. Top : AnswerSent(T, front, at)
    BY <1>2 DEF MessagesFit
  <2> QED
    BY <1>1, <2>1, AnswerKept
<1>6. MessagesFit(front, at)'
  <2>1. p2p' = [r \in Rank |-> [s \in Rank |-> p2p'[r][s]]]
    BY <1>2 DEF MessagesFit
  <2> QED
    BY <1>2, <1>4, <1>5, <2>1, InputMessages
<1>7. StartersAt(at)'
  BY <1>1, <1>2 DEF StartersAt
<1> QED
  BY <1>3, <1>6, <1>7, InputKeeps

\* The input node's own state between two batches.
LEMMA IdleIs ==
  ASSUME NEW s, Good(s), InputFollows(s), inp.pc \in {"fill", "batch", "return"}, NEW x, x = inp
  PROVE  /\ DOMAIN x = {"pc", "buffer", "undo", "idx", "tier", "side", "edits", "call"}
         /\ x.undo \in Seq(0 .. Top) /\ x.tier \in 1 .. Top /\ x.side \in {1, 2}
         /\ x.edits \in {0, 1}
         /\ x.call \in {NoCall, End} \cup {Query(Q) : Q \in SUBSET Vertex}
         /\ queryEtt = DOMAIN lct /\ s.phase = "idle" /\ s.idx = 0 /\ s.G \in SUBSET Edge
         /\ graph = SketchAfter(s.G, x.buffer, 1 .. Len(x.buffer))
         /\ x.buffer \in Seq(UpdateMessage) /\ Len(x.buffer) <= BatchSize
         /\ x.pc = "fill" => Len(x.buffer) # BatchSize
         /\ x.pc = "batch" => x.buffer # <<>>
         /\ x.pc = "return" => x.buffer = <<>> /\ x.call # NoCall
         /\ StreamLegal(s.G, x.buffer, 1)
         /\ x.idx = 0 /\ lct = s.L
<1>1. s.phase = "idle" => s.idx = 0
  BY DEF Good
<1>2. s.G \in SUBSET Edge
  BY DEF Good
<1>3. graph = SketchAfter(s.G, x.buffer, s.idx + 1 .. Len(x.buffer))
  BY DEF InputFollows
<1>4. s.phase = "idle" => graph = SketchAfter(s.G, x.buffer, 1 .. Len(x.buffer))
  BY <1>1, <1>3
<1> QED
  BY <1>1, <1>2, <1>4 DEF InputFollows, InputShape

\* Between two batches the state the input node is in follows the plan when the
\* parts do.
LEMMA IdleFollows ==
  ASSUME NEW s, s.phase = "idle", s.idx = 0,
         NEW y, inp' = y,
         DOMAIN y = {"pc", "buffer", "undo", "idx", "tier", "side", "edits", "call"},
         y.undo \in Seq(0 .. Top), y.tier \in 1 .. Top, y.side \in {1, 2}, y.edits \in {0, 1},
         y.call \in {NoCall, End} \cup {Query(Q) : Q \in SUBSET Vertex},
         queryEtt' = DOMAIN lct', lct' = s.L,
         graph' = SketchAfter(s.G, y.buffer, 1 .. Len(y.buffer)),
         y.pc \in {"fill", "batch", "return"},
         y.buffer \in Seq(UpdateMessage), Len(y.buffer) <= BatchSize,
         y.pc = "fill" => Len(y.buffer) # BatchSize,
         y.pc = "batch" => y.buffer # <<>>,
         y.pc = "return" => y.buffer = <<>> /\ y.call # NoCall,
         StreamLegal(s.G, y.buffer, 1), y.idx = 0
  PROVE  InputFollows(s)'
<1>1. graph' = SketchAfter(s.G, y.buffer, s.idx + 1 .. Len(y.buffer))
  OBVIOUS
<1> QED
  BY <1>1 DEF InputFollows, InputShape

\* The calls that wait for the buffer to be emptied.
Calls == {End} \cup {Query(Q) : Q \in SUBSET Vertex}

\* Update keeps the nodes in step.
LEMMA UpdateKeeps ==
  ASSUME InStep, NEW src \in Vertex, NEW dst \in Vertex, Update(src, dst), UNCHANGED tierVars
  PROVE  InStep'
<1>1. PICK view, front, at : Log(view, front, at) /\ Related(view, front, at)
  BY DEF InStep
<1>2. PICK x, s, e, u, b, y, c :
        /\ x = inp /\ s = view[0] /\ e = {src, dst}
        /\ u = [type |-> IF {src, dst} \in graph THEN "delete" ELSE "insert",
                src |-> src, dst |-> dst]
        /\ b = x.buffer
        /\ c = Append(b, u)
        /\ y = [x EXCEPT !.buffer = Append(@, u),
                         !.pc = IF Len(x.buffer) + 1 = BatchSize THEN "batch" ELSE "fill"]
  OBVIOUS
<1>3. /\ x.pc = "fill" /\ src # dst /\ inp' = y /\ graph' = Toggle(graph, e)
      /\ lct' = lct /\ queryEtt' = queryEtt /\ p2p' = p2p /\ bcasts' = bcasts
  BY <1>2 DEF Update, mpi
<1>4. 0 \in Rank /\ BatchSize \in Nat \ {0}
  BY TopIs, BatchSizeAssumption
<1>5. Good(s) /\ InputFollows(s)
  BY <1>1, <1>2, <1>4, LogView DEF Related
<1>6. /\ DOMAIN x = {"pc", "buffer", "undo", "idx", "tier", "side", "edits", "call"}
      /\ x.undo \in Seq(0 .. Top) /\ x.tier \in 1 .. Top /\ x.side \in {1, 2}
      /\ x.edits \in {0, 1}
      /\ x.call \in {NoCall, End} \cup {Query(Q) : Q \in SUBSET Vertex}
      /\ queryEtt = DOMAIN lct /\ s.phase = "idle" /\ s.idx = 0 /\ s.G \in SUBSET Edge
      /\ graph = SketchAfter(s.G, b, 1 .. Len(b))
      /\ b \in Seq(UpdateMessage) /\ Len(b) <= BatchSize /\ Len(b) # BatchSize
      /\ StreamLegal(s.G, b, 1)
      /\ x.idx = 0 /\ lct = s.L
  BY <1>2, <1>3, <1>5, IdleIs
<1>7. e \in Edge /\ EdgeOf(u) = e /\ u \in UpdateMessage /\ (u.type = "delete" <=> e \in graph)
  BY <1>2, <1>3 DEF Edge, EdgeOf, UpdateMessage
<1>8. /\ c \in Seq(UpdateMessage) /\ Len(c) = Len(b) + 1 /\ c[Len(b) + 1] = u
      /\ \A i \in 1 .. Len(b) : c[i] = b[i]
      /\ Len(b) \in Nat /\ c # <<>>
  BY <1>2, <1>6, <1>7
<1>9. \A k \in 0 .. Len(b) : SketchAfter(s.G, c, 1 .. k) = SketchAfter(s.G, b, 1 .. k)
  <2>1. SUFFICES ASSUME NEW k \in 0 .. Len(b)
                 PROVE  SketchAfter(s.G, c, 1 .. k) = SketchAfter(s.G, b, 1 .. k)
    OBVIOUS
  <2>2. \A i \in 1 .. k : c[i] = b[i]
    BY <1>8, <2>1
  <2> QED
    BY <2>2, SketchSame
<1>10. graph' = SketchAfter(s.G, c, 1 .. Len(c))
  <2>1. PICK n, G, S : n = Len(b) + 1 /\ G = s.G /\ S = 1 .. Len(b)
    OBVIOUS
  <2>2. G \in SUBSET Edge /\ IsFiniteSet(S) /\ n \notin S /\ EdgeOf(c[n]) \in Edge
    BY <1>6, <1>7, <1>8, <2>1, IntervalFinite
  <2>3. SketchAfter(G, c, S \cup {n}) = Toggle(SketchAfter(G, c, S), EdgeOf(c[n]))
    BY <2>2, SketchNext
  <2>4. S \cup {n} = 1 .. Len(c)
    BY <1>8, <2>1
  <2>5. SketchAfter(G, c, S) = graph
    BY <1>6, <1>8, <1>9, <2>1
  <2> QED
    BY <1>3, <1>7, <1>8, <2>1, <2>3, <2>4, <2>5
<1>11. StreamLegal(s.G, c, 1)
  <2>1. SUFFICES ASSUME NEW k \in 1 .. Len(c)
                 PROVE  /\ EdgeOf(c[k]) \in Edge
                        /\ c[k].type = "delete" <=> EdgeOf(c[k]) \in SketchAfter(s.G, c, 1 .. k - 1)
    BY DEF StreamLegal
  <2>2. CASE k = Len(b) + 1
    <3>1. k - 1 = Len(b) /\ Len(b) \in 0 .. Len(b) /\ c[k] = u
      BY <1>8, <2>2
    <3>2. SketchAfter(s.G, c, 1 .. k - 1) = graph
      BY <1>6, <1>9, <3>1
    <3> QED
      BY <1>7, <3>1, <3>2
  <2>3. CASE k # Len(b) + 1
    <3>1. k \in 1 .. Len(b) /\ k - 1 \in 0 .. Len(b) /\ c[k] = b[k]
      BY <1>8, <2>1, <2>3
    <3>2. SketchAfter(s.G, c, 1 .. k - 1) = SketchAfter(s.G, b, 1 .. k - 1)
      BY <1>9, <3>1
    <3> QED
      BY <1>6, <3>1, <3>2 DEF StreamLegal
  <2> QED
    BY <2>2, <2>3
<1>12. /\ DOMAIN y = {"pc", "buffer", "undo", "idx", "tier", "side", "edits", "call"}
       /\ y.undo = x.undo /\ y.tier = x.tier /\ y.side = x.side /\ y.edits = x.edits
       /\ y.call = x.call /\ y.idx = 0 /\ y.buffer = c
       /\ y.pc = IF Len(b) + 1 = BatchSize THEN "batch" ELSE "fill"
  BY <1>2, <1>6
<1>13. /\ y.pc \in {"fill", "batch"} /\ Len(c) <= BatchSize
       /\ y.pc = "fill" => Len(c) # BatchSize
  BY <1>4, <1>6, <1>8, <1>12
<1>14. InputFollows(s)'
  <2>1. /\ s.phase = "idle" /\ s.idx = 0 /\ inp' = y
        /\ y.undo \in Seq(0 .. Top) /\ y.tier \in 1 .. Top /\ y.side \in {1, 2}
        /\ y.edits \in {0, 1} /\ y.call \in {NoCall, End} \cup {Query(Q) : Q \in SUBSET Vertex}
        /\ queryEtt' = DOMAIN lct' /\ lct' = s.L
    BY <1>3, <1>6, <1>12
  <2>2. /\ graph' = SketchAfter(s.G, y.buffer, 1 .. Len(y.buffer))
        /\ y.buffer \in Seq(UpdateMessage) /\ Len(y.buffer) <= BatchSize /\ y.buffer # <<>>
        /\ y.pc \in {"fill", "batch", "return"} /\ y.pc # "return"
        /\ StreamLegal(s.G, y.buffer, 1) /\ y.idx = 0
    BY <1>8, <1>10, <1>11, <1>12, <1>13
  <2>3. y.pc = "fill" => Len(y.buffer) # BatchSize
    BY <1>12, <1>13
  <2> QED
    BY <1>12, <2>1, <2>2, <2>3, IdleFollows
<1>15. inp.pc # "round" /\ inp'.pc # "round" /\ inp'.pc \notin {"undo", "start"}
  BY <1>2, <1>3, <1>13
<1> QED
  BY <1>1, <1>2, <1>3, <1>14, <1>15, InputLocalKeeps

\* Call keeps the nodes in step.
LEMMA CallKeeps ==
  ASSUME InStep, NEW call \in Calls, Call(call), UNCHANGED tierVars
  PROVE  InStep'
<1>1. PICK view, front, at : Log(view, front, at) /\ Related(view, front, at)
  BY DEF InStep
<1>2. PICK x, s, y :
        /\ x = inp /\ s = view[0]
        /\ y = [x EXCEPT !.call = call, !.pc = IF x.buffer = <<>> THEN "return" ELSE "batch"]
  OBVIOUS
<1>3. /\ x.pc = "fill" /\ inp' = y /\ graph' = graph
      /\ lct' = lct /\ queryEtt' = queryEtt /\ p2p' = p2p /\ bcasts' = bcasts
  BY <1>2 DEF Call, mpi
<1>4. 0 \in Rank
  BY TopIs
<1>5. Good(s) /\ InputFollows(s)
  BY <1>1, <1>2, <1>4, LogView DEF Related
<1>6. /\ DOMAIN x = {"pc", "buffer", "undo", "idx", "tier", "side", "edits", "call"}
      /\ x.undo \in Seq(0 .. Top) /\ x.tier \in 1 .. Top /\ x.side \in {1, 2}
      /\ x.edits \in {0, 1}
      /\ queryEtt = DOMAIN lct /\ s.phase = "idle" /\ s.idx = 0
      /\ graph = SketchAfter(s.G, x.buffer, 1 .. Len(x.buffer))
      /\ x.buffer \in Seq(UpdateMessage) /\ Len(x.buffer) <= BatchSize
      /\ StreamLegal(s.G, x.buffer, 1)
      /\ x.idx = 0 /\ lct = s.L
  BY <1>2, <1>3, <1>5, IdleIs
<1>7. /\ DOMAIN y = {"pc", "buffer", "undo", "idx", "tier", "side", "edits", "call"}
      /\ y.undo = x.undo /\ y.tier = x.tier /\ y.side = x.side /\ y.edits = x.edits
      /\ y.call = call /\ y.idx = 0 /\ y.buffer = x.buffer
      /\ y.pc = IF x.buffer = <<>> THEN "return" ELSE "batch"
  BY <1>2, <1>6
<1>8. call \in {NoCall, End} \cup {Query(Q) : Q \in SUBSET Vertex} /\ call # NoCall
  BY DEF Calls, NoCall, End, Query
<1>9. InputFollows(s)'
  <2>1. /\ s.phase = "idle" /\ s.idx = 0 /\ inp' = y
        /\ y.undo \in Seq(0 .. Top) /\ y.tier \in 1 .. Top /\ y.side \in {1, 2}
        /\ y.edits \in {0, 1} /\ y.call \in {NoCall, End} \cup {Query(Q) : Q \in SUBSET Vertex}
        /\ queryEtt' = DOMAIN lct' /\ lct' = s.L
        /\ graph' = SketchAfter(s.G, y.buffer, 1 .. Len(y.buffer))
        /\ y.buffer \in Seq(UpdateMessage) /\ Len(y.buffer) <= BatchSize
        /\ StreamLegal(s.G, y.buffer, 1) /\ y.idx = 0
    BY <1>3, <1>6, <1>7, <1>8
  <2>2. y.pc \in {"fill", "batch", "return"} /\ y.pc # "fill"
    BY <1>7
  <2>3. y.pc = "batch" => y.buffer # <<>>
    BY <1>7
  <2>4. y.pc = "return" => y.buffer = <<>> /\ y.call # NoCall
    BY <1>7, <1>8
  <2> QED
    BY <1>7, <2>1, <2>2, <2>3, <2>4, IdleFollows
<1>10. inp.pc # "round" /\ inp'.pc # "round" /\ inp'.pc \notin {"undo", "start"}
  BY <1>2, <1>3, <1>7
<1> QED
  BY <1>1, <1>2, <1>3, <1>9, <1>10, InputLocalKeeps

\* Answer keeps the nodes in step.
LEMMA AnswerKeeps ==
  ASSUME InStep, Answer, UNCHANGED tierVars
  PROVE  InStep'
<1>1. PICK view, front, at : Log(view, front, at) /\ Related(view, front, at)
  BY DEF InStep
<1>2. PICK x, s, y : x = inp /\ s = view[0] /\ y = [x EXCEPT !.pc = "fill", !.call = NoCall]
  OBVIOUS
<1>3. /\ x.pc = "return" /\ inp' = y /\ graph' = graph
      /\ lct' = lct /\ queryEtt' = queryEtt /\ p2p' = p2p /\ bcasts' = bcasts
  BY <1>2 DEF Answer, mpi
<1>4. 0 \in Rank /\ BatchSize \in Nat \ {0}
  BY TopIs, BatchSizeAssumption
<1>5. Good(s) /\ InputFollows(s)
  BY <1>1, <1>2, <1>4, LogView DEF Related
<1>6. /\ DOMAIN x = {"pc", "buffer", "undo", "idx", "tier", "side", "edits", "call"}
      /\ x.undo \in Seq(0 .. Top) /\ x.tier \in 1 .. Top /\ x.side \in {1, 2}
      /\ x.edits \in {0, 1}
      /\ queryEtt = DOMAIN lct /\ s.phase = "idle" /\ s.idx = 0
      /\ graph = SketchAfter(s.G, x.buffer, 1 .. Len(x.buffer))
      /\ x.buffer = <<>> /\ x.buffer \in Seq(UpdateMessage) /\ Len(x.buffer) <= BatchSize
      /\ StreamLegal(s.G, x.buffer, 1)
      /\ x.idx = 0 /\ lct = s.L
  BY <1>2, <1>3, <1>5, IdleIs
<1>7. /\ DOMAIN y = {"pc", "buffer", "undo", "idx", "tier", "side", "edits", "call"}
      /\ y.undo = x.undo /\ y.tier = x.tier /\ y.side = x.side /\ y.edits = x.edits
      /\ y.call = NoCall /\ y.idx = 0 /\ y.buffer = x.buffer /\ y.pc = "fill"
  BY <1>2, <1>6
<1>8. Len(y.buffer) # BatchSize
  BY <1>4, <1>6, <1>7
<1>9. InputFollows(s)'
  <2>1. /\ s.phase = "idle" /\ s.idx = 0 /\ inp' = y
        /\ y.undo \in Seq(0 .. Top) /\ y.tier \in 1 .. Top /\ y.side \in {1, 2}
        /\ y.edits \in {0, 1} /\ y.call \in {NoCall, End} \cup {Query(Q) : Q \in SUBSET Vertex}
        /\ queryEtt' = DOMAIN lct' /\ lct' = s.L
        /\ graph' = SketchAfter(s.G, y.buffer, 1 .. Len(y.buffer))
        /\ y.buffer \in Seq(UpdateMessage) /\ Len(y.buffer) <= BatchSize
        /\ StreamLegal(s.G, y.buffer, 1) /\ y.idx = 0
    BY <1>3, <1>6, <1>7
  <2>2. y.pc \in {"fill", "batch", "return"} /\ y.pc # "batch" /\ y.pc # "return"
    BY <1>7
  <2> QED
    BY <1>7, <1>8, <2>1, <2>2, IdleFollows
<1>10. inp.pc # "round" /\ inp'.pc # "round" /\ inp'.pc \notin {"undo", "start"}
  BY <1>2, <1>3, <1>7
<1> QED
  BY <1>1, <1>2, <1>3, <1>9, <1>10, InputLocalKeeps

\* A broadcast of the input node adds an entry to the log.
LEMMA LogBcastInput ==
  ASSUME NEW view, NEW front, NEW at, Log(view, front, at), seed \in Seeds, seed' = seed,
         0 \in Rank, at[0], NEW msg, NEW ev, ev = [root |-> 0, msg |-> msg],
         Legal(front, ev), Bcast(0, msg),
         ~FirstTurn(front, 1), front.phase # "edit1",
         NEW q, q = After(front, ev),
         NEW view2, view2 = [view EXCEPT ![0] = q]
  PROVE  \E at2 : Log(view2, q, at2)' /\ at2[0] /\ \A p \in Rank \ {0} : ~at2[p]
BY LogBcast

\* The input node's broadcasts come between two batches.
LEMMA InputBcastKeeps ==
  ASSUME NEW view, NEW front, NEW at, Log(view, front, at), Related(view, front, at),
         view[0].phase = "idle", UNCHANGED tierVars, p2p' = p2p,
         NEW msg, Bcast(0, msg), NEW ev, ev = [root |-> 0, msg |-> msg],
         msg.kind \in {"batch", "end"}, Legal(view[0], ev),
         NEW q, q = After(view[0], ev), InputFollows(q)', inp'.pc \notin {"undo", "start"}
  PROVE  InStep'
<1>1. seed' = seed /\ node' = node /\ seed \in Seeds /\ MessagesFit(front, at) /\ StartersAt(at)
      /\ \A t \in Tier : TierFollows(t, view[RankOf(t)])
  BY DEF tierVars, Related
<1>2. 0 \in Rank /\ 0 \in Tier /\ RankOf(0) \in Rank
  BY TopIs DEF RankOf
<1>3. at[0] /\ view[0] = front /\ front.phase = "idle"
  <2>1. Owner(view[0]) \notin Rank \ {0}
    BY DEF Owner
  <2> QED
    BY <1>2, <2>1, LogOwner
<1>4. q.phase \in {"reduce", "end"} /\ ~FirstTurn(front, 1) /\ front.phase # "edit1"
  <2>1. ev.msg.kind \in {"batch", "end"}
    OBVIOUS
  <2> QED
    BY <1>3, <2>1, AfterIs DEF FirstTurn
<1>5. PICK view2 : view2 = [view EXCEPT ![0] = q]
  OBVIOUS
<1>6. PICK at2 : Log(view2, q, at2)' /\ at2[0] /\ \A p \in Rank \ {0} : ~at2[p]
  BY <1>1, <1>2, <1>3, <1>4, <1>5, LogBcastInput
<1>7. view2[0] = q /\ \A p \in Rank \ {0} : view2[p] = view[p]
  <2>1. view = [p \in Rank |-> view[p]]
    BY DEF Log
  <2> QED
    BY <1>2, <1>5, <2>1
<1>8. \A u \in Tier : ~SentSizes(u)
  <2>1. SUFFICES ASSUME NEW u \in Tier, node[u].pc \in {"sizes2", "allreduce"}
                 PROVE  FALSE
    BY DEF SentSizes
  <2>2. PICK s : s = view[RankOf(u)]
    OBVIOUS
  <2>3. s.phase = "reduce"
    <3>1. TierReduces(u, s)
      BY <1>1, <2>1, <2>2, PlaceOf
    <3> QED
      BY <3>1 DEF TierReduces
  <2>4. RankOf(u) \in Rank /\ NumTiers + 1 \notin Rank /\ Owner(s) = NumTiers + 1
    BY <2>3, TopIs DEF RankOf, Owner
  <2>5. Owner(view[RankOf(u)]) \notin Rank \ {RankOf(u)}
    BY <2>2, <2>4
  <2>6. s = front
    BY <2>2, <2>4, <2>5, LogOwner
  <2> QED
    BY <1>3, <2>3, <2>6
<1>9. MessagesFit(q, at2)'
  <2>1. \A u \in 0 .. Top - 1 : SizesSent(u, q)'
    <3>1. \A u \in 0 .. Top - 1 : SizesSent(u, front)
      BY <1>1 DEF MessagesFit
    <3> QED
      BY <1>1, <1>8, <3>1, SizesKept
  <2>2. \A T \in Tier : RefreshSent(T, q, at2)'
    <3>1. ASSUME NEW T \in Tier
          PROVE  /\ p2p'[T][RankOf(T)] = <<>>
                 /\ ~SentRefresh(T, q, at2)'
                 /\ ~GotRefresh(T, q, at2)'
      <4>1. RefreshSent(T, front, at)
        BY <1>1 DEF MessagesFit
      <4>2. ~SentRefresh(T, front, at)
        BY <1>3 DEF SentRefresh, FirstTurn
      <4>3. ~SentRefresh(T, q, at2)' /\ ~GotRefresh(T, q, at2)'
        BY <1>4 DEF SentRefresh, GotRefresh, FirstTurn
      <4> QED
        BY <4>1, <4>2, <4>3 DEF RefreshSent
    <3> QED
      BY <3>1, RefreshNone
  <2>3. ASSUME NEW T \in 1 .. Top
        PROVE  AnswerSent(T, q, at2)'
    <3>1. AnswerSent(T, front, at)
      BY <1>1 DEF MessagesFit
    <3>2. p2p'[0][RankOf(T)] = <<>>
      BY <1>4, <3>1 DEF AnswerSent
    <3> QED
      BY <1>4, <3>2 DEF AnswerSent
  <2> QED
    BY <1>1, <2>1, <2>2, <2>3 DEF MessagesFit, OthersSilent
<1>10. StartersAt(at2)'
  <2>1. node[0].pc \notin {"undo", "start", "refresh"}
    <3>1. SUFFICES ASSUME node[0].pc \in {"undo", "start", "refresh"}
                   PROVE  FALSE
      OBVIOUS
    <3>2. at[RankOf(0)]
      BY <1>1, <3>1 DEF StartersAt
    <3>3. view[RankOf(0)] = front
      BY <1>2, <3>2, LogView
    <3>4. TierFollows(0, front)
      BY <1>1, <1>2, <3>3
    <3>5. TierStarts(0, front) \/ (node[0].pc = "refresh" /\ TierRefreshes(0, front))
      BY <1>2, <3>1, <3>4, PlaceOf
    <3> QED
      BY <1>4, <3>5 DEF TierStarts, TierRefreshes
  <2>2. ASSUME NEW T \in Tier
        PROVE  node[T].pc # "forward"
    <3>1. SUFFICES ASSUME node[T].pc = "forward"
                   PROVE  FALSE
      OBVIOUS
    <3>2. at[RankOf(T)] /\ RankOf(T) \in Rank
      BY <1>1, <3>1, TopIs DEF StartersAt, RankOf
    <3>3. view[RankOf(T)] = front
      BY <3>2, LogView
    <3>4. TierRefreshes(T, front)
      <4>1. TierFollows(T, front)
        BY <1>1, <3>3
      <4> QED
        BY <3>1, <4>1, PlaceOf
    <3> QED
      BY <1>3, <3>1, <3>4 DEF TierRefreshes, FirstTurn
  <2> QED
    BY <1>1, <2>1, <2>2 DEF StartersAt
<1>11. InputFollows(view2[0])'
  BY <1>7
<1> QED
  BY <1>6, <1>7, <1>9, <1>10, <1>11, InputKeeps

\* EndStream keeps the nodes in step.
LEMMA EndStreamKeeps ==
  ASSUME InStep, EndStream, UNCHANGED tierVars
  PROVE  InStep'
<1>1. PICK view, front, at : Log(view, front, at) /\ Related(view, front, at)
  BY DEF InStep
<1>2. PICK x, s, y, msg, ev, q :
        /\ x = inp /\ s = view[0] /\ y = [x EXCEPT !.pc = "done"]
        /\ msg = [kind |-> "end"] /\ ev = [root |-> 0, msg |-> msg] /\ q = After(s, ev)
  OBVIOUS
<1>3. /\ x.pc = "return" /\ inp' = y /\ graph' = graph /\ Bcast(0, msg)
      /\ lct' = lct /\ queryEtt' = queryEtt /\ p2p' = p2p
  BY <1>2 DEF EndStream
<1>4. 0 \in Rank
  BY TopIs
<1>5. Good(s) /\ InputFollows(s)
  BY <1>1, <1>2, <1>4, LogView DEF Related
<1>6. /\ DOMAIN x = {"pc", "buffer", "undo", "idx", "tier", "side", "edits", "call"}
      /\ x.undo \in Seq(0 .. Top) /\ x.tier \in 1 .. Top /\ x.side \in {1, 2}
      /\ x.edits \in {0, 1}
      /\ x.call \in {NoCall, End} \cup {Query(Q) : Q \in SUBSET Vertex}
      /\ queryEtt = DOMAIN lct /\ s.phase = "idle" /\ s.idx = 0
      /\ graph = SketchAfter(s.G, x.buffer, 1 .. Len(x.buffer))
      /\ x.buffer = <<>> /\ x.idx = 0 /\ lct = s.L
  BY <1>2, <1>3, <1>5, IdleIs
<1>7. /\ DOMAIN y = {"pc", "buffer", "undo", "idx", "tier", "side", "edits", "call"}
      /\ y.undo = x.undo /\ y.tier = x.tier /\ y.side = x.side /\ y.edits = x.edits
      /\ y.call = x.call /\ y.idx = 0 /\ y.buffer = x.buffer /\ y.pc = "done"
  BY <1>2, <1>6
<1>8. ev.root = 0 /\ ev.msg.kind = "end" /\ msg.kind = "end"
  BY <1>2
<1>9. q.phase = "end" /\ q.idx = 0 /\ q.L = s.L /\ q.G = s.G
  BY <1>2, <1>6, <1>8, AfterIs
<1>10. Legal(s, ev)
  BY <1>6, <1>8 DEF Legal, Owner
<1>11. InputFollows(q)'
  <2>1. graph' = SketchAfter(q.G, y.buffer, q.idx + 1 .. Len(y.buffer))
    BY <1>3, <1>6, <1>7, <1>9
  <2> QED
    BY <1>3, <1>6, <1>7, <1>9, <2>1 DEF InputFollows, InputShape
<1>12. view[0].phase = "idle" /\ Legal(view[0], ev) /\ q = After(view[0], ev)
       /\ inp'.pc \notin {"undo", "start"}
  BY <1>2, <1>3, <1>6, <1>7, <1>10
<1> QED
  BY <1>1, <1>2, <1>3, <1>8, <1>11, <1>12, InputBcastKeeps

\* The edges that a batch cuts are those the greedy pass takes from the forest.
LEMMA CutIs ==
  ASSUME NEW F, NEW b \in Seq(UpdateMessage), b # <<>>
  PROVE  F \ {EdgeOf(b[i]) : i \in {i \in DOMAIN b : Cuts(F, b, i)}} = ForestAfter(F, b, Len(b))
<1>1. 1 \in 1 .. Len(b) /\ DOMAIN b = 1 .. Len(b) /\ 1 - 1 = 0
  OBVIOUS
<1>2. PICK C, A : C = CutsFrom(F, b, 1, Len(b)) /\ A = ForestAfter(F, b, Len(b))
  OBVIOUS
<1>3. A \cup C = F
  BY <1>1, <1>2, CutsRestore, ForestAfterNone
<1>4. C = {EdgeOf(b[i]) : i \in {i \in DOMAIN b : Cuts(F, b, i)}}
  BY <1>1, <1>2 DEF CutsFrom
<1>5. C \cap A = {}
  BY <1>1, <1>2 DEF CutsFrom, Cuts, ForestAfter
<1>6. F \ C = A
  BY <1>3, <1>5
<1> QED
  BY <1>2, <1>4, <1>6

\* StartBatch keeps the nodes in step.
LEMMA StartBatchKeeps ==
  ASSUME InStep, StartBatch, UNCHANGED tierVars
  PROVE  InStep'
<1>1. PICK view, front, at : Log(view, front, at) /\ Related(view, front, at)
  BY DEF InStep
<1>2. PICK x, s, b, F, cuts, cut, undo, y, msg, ev, q :
        /\ x = inp /\ s = view[0] /\ b = x.buffer /\ F = DOMAIN lct
        /\ cuts = {i \in DOMAIN b : Cuts(F, b, i)}
        /\ cut = {EdgeOf(b[i]) : i \in cuts}
        /\ undo = [i \in DOMAIN b |-> IF i \in cuts THEN lct[EdgeOf(b[i])] ELSE 0]
        /\ y = [x EXCEPT !.pc = "allreduce", !.undo = undo]
        /\ msg = [kind |-> "batch", updates |-> b] /\ ev = [root |-> 0, msg |-> msg]
        /\ q = After(s, ev)
  OBVIOUS
<1>3. /\ x.pc = "batch" /\ inp' = y /\ graph' = graph /\ Bcast(0, msg)
      /\ lct' = [e \in F \ cut |-> lct[e]] /\ queryEtt' = queryEtt \ cut /\ p2p' = p2p
  BY <1>2 DEF StartBatch
<1>4. 0 \in Rank
  BY TopIs
<1>5. Good(s) /\ InputFollows(s)
  BY <1>1, <1>2, <1>4, LogView DEF Related
<1>6. /\ DOMAIN x = {"pc", "buffer", "undo", "idx", "tier", "side", "edits", "call"}
      /\ x.undo \in Seq(0 .. Top) /\ x.tier \in 1 .. Top /\ x.side \in {1, 2}
      /\ x.edits \in {0, 1}
      /\ x.call \in {NoCall, End} \cup {Query(Q) : Q \in SUBSET Vertex}
      /\ queryEtt = DOMAIN lct /\ s.phase = "idle" /\ s.idx = 0
      /\ graph = SketchAfter(s.G, b, 1 .. Len(b))
      /\ b \in Seq(UpdateMessage) /\ Len(b) <= BatchSize /\ b # <<>>
      /\ StreamLegal(s.G, b, 1)
      /\ x.idx = 0 /\ lct = s.L
  BY <1>2, <1>3, <1>5, IdleIs
<1>7. /\ DOMAIN y = {"pc", "buffer", "undo", "idx", "tier", "side", "edits", "call"}
      /\ y.undo = undo /\ y.tier = x.tier /\ y.side = x.side /\ y.edits = x.edits
      /\ y.call = x.call /\ y.idx = 0 /\ y.buffer = b /\ y.pc = "allreduce"
  BY <1>2, <1>6
<1>8. ev.root = 0 /\ ev.msg.kind = "batch" /\ msg.kind = "batch" /\ ev.msg.updates = b
  BY <1>2
<1>9. q.phase = "reduce" /\ q.b = b /\ q.idx = 0 /\ q.L = s.L /\ q.G = s.G
  BY <1>2, <1>6, <1>8, AfterIs
<1>10. Legal(s, ev)
  <2>1. Len(b) \in 1 .. BatchSize
    BY <1>6, BatchSizeAssumption
  <2> QED
    BY <1>6, <1>8, <2>1 DEF Legal, Owner
<1>11. /\ F \ cut = ForestAfter(F, b, Len(b))
       /\ lct' = Restricted(s.L, ForestAfter(DOMAIN s.L, b, Len(b)))
       /\ queryEtt' = DOMAIN lct'
  <2>1. F \ cut = ForestAfter(F, b, Len(b))
    BY <1>2, <1>6, CutIs
  <2>2. F = DOMAIN s.L /\ queryEtt = F
    BY <1>2, <1>6
  <2>3. lct' = [e \in ForestAfter(F, b, Len(b)) |-> s.L[e]]
    BY <1>3, <1>6, <2>1
  <2> QED
    BY <1>3, <2>1, <2>2, <2>3 DEF Restricted
<1>12. undo = [i \in DOMAIN b |-> IF Cuts(DOMAIN s.L, b, i) THEN s.L[EdgeOf(b[i])] ELSE 0]
  <2>1. F = DOMAIN s.L /\ \A i \in DOMAIN b : i \in cuts <=> Cuts(DOMAIN s.L, b, i)
    BY <1>2, <1>6
  <2> QED
    BY <1>2, <1>6, <2>1
<1>13. undo \in Seq(0 .. Top)
  <2>1. ASSUME NEW i \in DOMAIN b, Cuts(DOMAIN s.L, b, i)
        PROVE  s.L[EdgeOf(b[i])] \in 0 .. Top
    <3>1. Weighted(s.L) /\ EdgeOf(b[i]) \in DOMAIN s.L
      BY <1>5, <2>1 DEF Good, Cuts, ForestAfter
    <3> QED
      BY <3>1, TopIs DEF Weighted
  <2>2. ASSUME NEW i \in DOMAIN b
        PROVE  undo[i] \in 0 .. Top
    <3>1. undo[i] = IF Cuts(DOMAIN s.L, b, i) THEN s.L[EdgeOf(b[i])] ELSE 0
      BY <1>12
    <3>2. 0 \in 0 .. Top
      BY TopIs
    <3> QED
      BY <2>1, <3>1, <3>2
  <2>3. undo \in [1 .. Len(b) -> 0 .. Top] /\ Len(b) \in Nat
    <3>1. DOMAIN b = 1 .. Len(b) /\ Len(b) \in Nat
      BY <1>6
    <3>2. undo = [i \in DOMAIN b |-> undo[i]]
      BY <1>12
    <3> QED
      BY <2>2, <3>1, <3>2
  <2>4. PICK n, S : n = Len(b) /\ S = 0 .. Top
    OBVIOUS
  <2>5. n \in Nat /\ undo \in [1 .. n -> S]
    BY <2>3, <2>4
  <2>6. undo \in Seq(S)
    BY <2>5
  <2> QED
    BY <2>4, <2>6
<1>14. InputFollows(q)'
  <2>1. graph' = SketchAfter(q.G, y.buffer, q.idx + 1 .. Len(y.buffer))
    BY <1>3, <1>6, <1>7, <1>9
  <2>2. /\ y.undo \in Seq(0 .. Top) /\ y.tier \in 1 .. Top /\ y.side \in {1, 2}
        /\ y.edits \in {0, 1} /\ y.call \in {NoCall, End} \cup {Query(Q) : Q \in SUBSET Vertex}
        /\ queryEtt' = DOMAIN lct' /\ inp' = y
    BY <1>3, <1>6, <1>7, <1>11, <1>13
  <2>3. /\ y.pc = "allreduce" /\ q.phase = "reduce" /\ y.buffer = q.b /\ y.idx = 0
        /\ lct' = Restricted(q.L, ForestAfter(DOMAIN q.L, q.b, Len(q.b)))
        /\ y.undo = [i \in DOMAIN q.b |-> IF Cuts(DOMAIN q.L, q.b, i)
                                          THEN q.L[EdgeOf(q.b[i])] ELSE 0]
    BY <1>7, <1>9, <1>11, <1>12
  <2> QED
    BY <1>7, <2>1, <2>2, <2>3 DEF InputFollows, InputShape
<1>15. view[0].phase = "idle" /\ Legal(view[0], ev) /\ q = After(view[0], ev)
       /\ inp'.pc \notin {"undo", "start"}
  BY <1>2, <1>3, <1>6, <1>7, <1>10
<1> QED
  BY <1>1, <1>2, <1>3, <1>8, <1>14, <1>15, InputBcastKeeps

InputFields == {"pc", "buffer", "undo", "idx", "tier", "side", "edits", "call"}

\* The input node's own state while an update is applied.
TurnIs(s, x) ==
  /\ DOMAIN x = InputFields
  /\ x.undo \in Seq(0 .. Top) /\ x.tier \in 1 .. Top /\ x.side \in {1, 2} /\ x.edits \in {0, 1}
  /\ x.call \in {NoCall, End} \cup {Query(Q) : Q \in SUBSET Vertex}
  /\ x.buffer = s.b /\ x.idx = s.idx

\* The input node while an update is applied, by its place in the code.
LEMMA InputTurnIs ==
  ASSUME NEW s, Good(s), InputFollows(s), inp.pc \in {"undo", "start", "round", "edits"},
         NEW x, x = inp
  PROVE  /\ TurnIs(s, x)
         /\ queryEtt = DOMAIN lct
         /\ graph = SketchAfter(s.G, s.b, s.idx + 1 .. Len(s.b))
         /\ s.phase \in {"turn", "edit1", "edit2"}
         /\ x.pc = "undo" =>
              /\ FirstTurn(s, 1)
              /\ RelinkedWeighted(lct, s.b, x.undo, s.idx) = s.prev
              /\ Relinked(queryEtt, s.b, [i \in DOMAIN x.undo |-> x.undo[i] # 0], s.idx)
                   = DOMAIN s.prev
         /\ x.pc = "start" => FirstTurn(s, 1) /\ lct = s.prev
         /\ x.pc \in {"round", "edits"} => x.tier = s.tier /\ x.side = s.side /\ lct = s.L
         /\ x.pc = "round" => s.phase = "turn"
         /\ x.pc = "edits" => s.phase = IF x.edits = 0 THEN "edit1" ELSE "edit2"
<1>1. FirstTurn(s, 1) => s.phase = "turn"
  BY DEF FirstTurn
<1>2. x.buffer = s.b /\ x.idx = s.idx
  BY DEF InputFollows
<1>3. graph = SketchAfter(s.G, s.b, s.idx + 1 .. Len(s.b))
  BY <1>2 DEF InputFollows
<1>4. inp.pc = "edits" => s.phase \in {"edit1", "edit2"}
  BY DEF InputFollows
<1> QED
  BY <1>1, <1>2, <1>3, <1>4 DEF InputFollows, InputShape, TurnIs, InputFields

\* The input node follows a plan that applies an update.
LEMMA TurnFollows ==
  ASSUME NEW s, NEW y, inp' = y, TurnIs(s, y), queryEtt' = DOMAIN lct',
         graph' = SketchAfter(s.G, s.b, s.idx + 1 .. Len(s.b)),
         \/ y.pc = "start" /\ FirstTurn(s, 1) /\ lct' = s.prev
         \/ /\ \/ y.pc = "round" /\ s.phase = "turn"
               \/ y.pc = "edits" /\ s.phase = IF y.edits = 0 THEN "edit1" ELSE "edit2"
            /\ y.tier = s.tier /\ y.side = s.side /\ lct' = s.L
  PROVE  InputFollows(s)'
BY DEF InputFollows, InputShape, TurnIs, InputFields

\* Undo keeps the nodes in step.
LEMMA UndoKeeps ==
  ASSUME InStep, Undo, UNCHANGED tierVars
  PROVE  InStep'
<1>1. PICK view, front, at : Log(view, front, at) /\ Related(view, front, at)
  BY DEF InStep
<1>2. PICK x, s, y : x = inp /\ s = view[0] /\ y = [x EXCEPT !.pc = "start"]
  OBVIOUS
<1>3. /\ x.pc = "undo" /\ inp' = y /\ graph' = graph
      /\ lct' = RelinkedWeighted(lct, x.buffer, x.undo, x.idx)
      /\ queryEtt' = Relinked(queryEtt, x.buffer, [i \in DOMAIN x.undo |-> x.undo[i] # 0], x.idx)
      /\ p2p' = p2p /\ bcasts' = bcasts
  BY <1>2 DEF Undo, mpi
<1>4. 0 \in Rank
  BY TopIs
<1>5. Good(s) /\ InputFollows(s) /\ StartersAt(at)
  BY <1>1, <1>2, <1>4, LogView DEF Related
<1>6. /\ TurnIs(s, x)
      /\ graph = SketchAfter(s.G, s.b, s.idx + 1 .. Len(s.b))
      /\ FirstTurn(s, 1)
      /\ RelinkedWeighted(lct, s.b, x.undo, s.idx) = s.prev
      /\ Relinked(queryEtt, s.b, [i \in DOMAIN x.undo |-> x.undo[i] # 0], s.idx) = DOMAIN s.prev
  BY <1>2, <1>3, <1>5, InputTurnIs
<1>7. TurnIs(s, y) /\ y.pc = "start"
  BY <1>2, <1>6 DEF TurnIs, InputFields
<1>8. lct' = s.prev /\ queryEtt' = DOMAIN s.prev
  <2>1. x.buffer = s.b /\ x.idx = s.idx
    BY <1>6 DEF TurnIs
  <2> QED
    BY <1>3, <1>6, <2>1
<1>9. InputFollows(s)'
  BY <1>3, <1>6, <1>7, <1>8, TurnFollows
<1>10. inp.pc # "round" /\ inp'.pc # "round" /\ at[0]
  BY <1>2, <1>3, <1>5, <1>7 DEF StartersAt
<1> QED
  BY <1>1, <1>2, <1>3, <1>9, <1>10, InputLocalKeeps

\* StartUpdate keeps the nodes in step.
LEMMA StartUpdateKeeps ==
  ASSUME InStep, StartUpdate, UNCHANGED tierVars
  PROVE  InStep'
<1>1. PICK view, front, at : Log(view, front, at) /\ Related(view, front, at)
  BY DEF InStep
<1>2. PICK x, s, u, cut, ends, m, y :
        /\ x = inp /\ s = view[0] /\ u = x.buffer[x.idx]
        /\ cut = (u.type = "delete" /\ EdgeOf(u) \in DOMAIN lct)
        /\ ends = << [v |-> u.src], [v |-> u.dst] >>
        /\ m = [kind |-> "refresh", ends |-> ends]
        /\ y = [x EXCEPT !.pc = "round", !.tier = 1, !.side = 1]
  OBVIOUS
<1>3. /\ x.pc = "start" /\ inp' = y /\ graph' = graph /\ bcasts' = bcasts
      /\ lct' = IF u.type = "delete" /\ EdgeOf(u) \in DOMAIN lct THEN LctCut(lct, EdgeOf(u))
                                                                  ELSE lct
      /\ queryEtt' = IF u.type = "delete" /\ EdgeOf(u) \in DOMAIN lct
                     THEN EttCut(queryEtt, EdgeOf(u)) ELSE queryEtt
      /\ Send(0, RankOf(0), m)
  BY <1>2, Zenon DEF StartUpdate
<1>4. 0 \in Rank /\ RankOf(0) \in Rank /\ 0 \in Tier /\ 1 \in 1 .. Top
  BY TopIs DEF RankOf
<1>5. Good(s) /\ InputFollows(s) /\ StartersAt(at) /\ MessagesFit(front, at)
  BY <1>1, <1>2, <1>4, LogView DEF Related
<1>6. /\ TurnIs(s, x) /\ queryEtt = DOMAIN lct
      /\ graph = SketchAfter(s.G, s.b, s.idx + 1 .. Len(s.b))
      /\ FirstTurn(s, 1) /\ lct = s.prev
  BY <1>2, <1>3, <1>5, InputTurnIs
<1>7. at[0] /\ s = front
  <2>1. at[0]
    BY <1>2, <1>3, <1>5 DEF StartersAt
  <2> QED
    BY <1>1, <1>2, <1>4, <2>1, LogView
<1>8. /\ s.phase = "turn" /\ s.tier = 1 /\ s.side = 1 /\ s.L = CutBy(s.prev, s.b[s.idx])
      /\ Weighted(s.prev)
  BY <1>5, <1>6 DEF FirstTurn, Good
<1>9. u = s.b[s.idx]
  BY <1>2, <1>6 DEF TurnIs
<1>10. TurnIs(s, y) /\ y.pc = "round" /\ y.tier = 1 /\ y.side = 1
  BY <1>2, <1>4, <1>6 DEF TurnIs, InputFields
<1>11. lct' = s.L /\ queryEtt' = DOMAIN lct'
  <2>1. PICK l, e : l = s.prev /\ e = EdgeOf(u)
    OBVIOUS
  <2>2. Weighted(l) /\ s.L = IF u.type = "delete" THEN LctCut(l, e) ELSE l
    BY <1>8, <1>9, <2>1 DEF CutBy
  <2>3. DOMAIN LctCut(l, e) = DOMAIN l \ {e}
    BY <2>2, WeightedCut
  <2>4. e \notin DOMAIN l => LctCut(l, e) = l
    <3>1. l = [f \in DOMAIN l |-> l[f]]
      BY <2>2 DEF Weighted
    <3> QED
      BY <3>1 DEF LctCut
  <2>5. CASE u.type = "delete" /\ e \in DOMAIN l
    BY <1>3, <1>6, <2>1, <2>2, <2>3, <2>5 DEF EttCut
  <2>6. CASE ~(u.type = "delete" /\ e \in DOMAIN l)
    BY <1>3, <1>6, <2>1, <2>2, <2>4, <2>6
  <2> QED
    BY <2>5, <2>6
<1>12. InputFollows(s)'
  BY <1>3, <1>6, <1>8, <1>10, <1>11, TurnFollows
<1>13. /\ p2p' = [r \in Rank |-> [q \in Rank |-> p2p'[r][q]]]
       /\ p2p[0][RankOf(0)] = <<>> => p2p'[0][RankOf(0)] = <<m>>
       /\ \A r, q \in Rank : r # 0 \/ q # RankOf(0) => p2p'[r][q] = p2p[r][q]
  <2>1. p2p = [r \in Rank |-> [q \in Rank |-> p2p[r][q]]]
    BY <1>5 DEF MessagesFit
  <2> QED
    BY <1>3, <1>4, <2>1, SentIs
<1>14. RefreshSent(0, front, at)'
  <2>1. RefreshSent(0, front, at)
    BY <1>4, <1>5 DEF MessagesFit
  <2>2. ~SentRefresh(0, front, at)
    BY <1>2, <1>3 DEF SentRefresh
  <2>3. ~GotRefresh(0, front, at) /\ p2p[0][RankOf(0)] = <<>>
    BY <2>1, <2>2 DEF RefreshSent
  <2>4. ~GotRefresh(0, front, at)'
    BY <2>3 DEF GotRefresh, tierVars
  <2>5. SentRefresh(0, front, at)'
    BY <1>3, <1>6, <1>7, <1>10 DEF SentRefresh
  <2>6. p2p'[0][RankOf(0)] = <<m>>
    BY <1>13, <2>3
  <2>7. m.kind = "refresh" /\ m.ends = ends /\ <<m>>[1] = m
    BY <1>2
  <2>8. ToldEnds(front, ends)
    <3>1. ends = <<ends[1], ends[2]>> /\ ends[1].v = u.src /\ ends[2].v = u.dst
      BY <1>2
    <3> QED
      BY <1>7, <1>9, <3>1 DEF ToldEnds, Endpoint
  <2> QED
    BY <2>4, <2>5, <2>6, <2>7, <2>8 DEF RefreshSent
<1>15. \A T \in 1 .. Top : AnswerSent(T, front, at)'
  <2>1. \A T \in 1 .. Top : AnswerSent(T, front, at)
    BY <1>5 DEF MessagesFit
  <2>2. \A T \in 1 .. Top : p2p'[0][RankOf(T)] = p2p[0][RankOf(T)] /\ node'[T] = node[T]
    <3>1. \A T \in 1 .. Top : RankOf(T) \in Rank /\ RankOf(T) # RankOf(0)
      BY TopIs DEF RankOf
    <3> QED
      BY <1>4, <1>13, <3>1 DEF tierVars
  <2> QED
    BY <2>1, <2>2, AnswerKept
<1>16. MessagesFit(front, at)'
  <2>1. \A r, q \in Rank : r # 0 \/ q = 0 => p2p'[r][q] = p2p[r][q]
    BY <1>13 DEF RankOf
  <2> QED
    BY <1>5, <1>13, <1>14, <1>15, <2>1, InputMessages
<1>17. StartersAt(at)'
  BY <1>5, <1>7 DEF StartersAt, tierVars
<1>18. Log(view, front, at)'
  <2>1. seed' = seed
    BY DEF tierVars
  <2> QED
    BY <1>1, <1>3, <2>1, LogSame
<1> QED
  BY <1>1, <1>2, <1>12, <1>16, <1>17, <1>18, InputKeeps

\* The rounds of a refresh in the input node.
LEMMA NextInputRoundIs ==
  ASSUME NEW x, DOMAIN x = InputFields, NEW y, y = NextInputRound(x)
  PROVE  /\ DOMAIN y = InputFields /\ y.call = x.call
         /\ x.side = 1 =>
              /\ y.pc = "round" /\ y.buffer = x.buffer /\ y.undo = x.undo /\ y.idx = x.idx
              /\ y.tier = x.tier /\ y.side = 2 /\ y.edits = 0
         /\ x.side # 1 /\ x.tier + 1 < NumTiers =>
              /\ y.pc = "round" /\ y.buffer = x.buffer /\ y.undo = x.undo /\ y.idx = x.idx
              /\ y.tier = x.tier + 1 /\ y.side = 1 /\ y.edits = 0
         /\ x.side # 1 /\ ~(x.tier + 1 < NumTiers) /\ x.idx < Len(x.buffer) =>
              /\ y.pc = "start" /\ y.buffer = x.buffer /\ y.undo = x.undo /\ y.idx = x.idx + 1
              /\ y.tier = 1 /\ y.side = 1 /\ y.edits = 0
         /\ x.side # 1 /\ ~(x.tier + 1 < NumTiers) /\ ~(x.idx < Len(x.buffer)) =>
              /\ y.pc = IF x.call = NoCall THEN "fill" ELSE "return"
              /\ y.buffer = <<>> /\ y.undo = <<>> /\ y.idx = 0
              /\ y.tier = 1 /\ y.side = 1 /\ y.edits = 0
<1>1. PICK over : over = [x EXCEPT !.side = 1, !.tier = 1, !.edits = 0]
  OBVIOUS
<1>2. /\ DOMAIN over = InputFields /\ over.pc = x.pc /\ over.buffer = x.buffer
      /\ over.undo = x.undo /\ over.idx = x.idx /\ over.tier = 1 /\ over.side = 1
      /\ over.edits = 0 /\ over.call = x.call
  BY <1>1 DEF InputFields
<1>3. y = IF x.side = 1 THEN [x EXCEPT !.pc = "round", !.side = 2, !.edits = 0]
          ELSE IF x.tier + 1 < NumTiers THEN [over EXCEPT !.pc = "round", !.tier = x.tier + 1]
          ELSE IF x.idx < Len(x.buffer) THEN [over EXCEPT !.pc = "start", !.idx = @ + 1]
          ELSE Finished(over)
  BY <1>1, Zenon DEF NextInputRound, HasNextTier
<1>4. CASE x.side = 1
  BY <1>3, <1>4 DEF InputFields
<1>5. CASE x.side # 1 /\ x.tier + 1 < NumTiers
  BY <1>2, <1>3, <1>5 DEF InputFields
<1>6. CASE x.side # 1 /\ ~(x.tier + 1 < NumTiers) /\ x.idx < Len(x.buffer)
  BY <1>2, <1>3, <1>6 DEF InputFields
<1>7. CASE x.side # 1 /\ ~(x.tier + 1 < NumTiers) /\ ~(x.idx < Len(x.buffer))
  BY <1>2, <1>3, <1>7 DEF InputFields, Finished
<1> QED
  BY <1>4, <1>5, <1>6, <1>7

\* NextInputRound follows the next turn.
LEMMA InputRoundFollows ==
  ASSUME NEW s, Good(s), s.idx # 0, NEW x, TurnIs(s, x), x.tier = s.tier, x.side = s.side,
         NEW L, Weighted(L), lct' = L, queryEtt' = DOMAIN L,
         graph' = SketchAfter(s.G, s.b, s.idx + 1 .. Len(s.b)),
         NEW q, q = NextTurn(s, L), inp' = NextInputRound(x)
  PROVE  /\ InputFollows(q)'
         /\ inp'.pc \in {"round", "start", "fill", "return"}
         /\ inp'.pc = "round" => ~FirstTurn(q, 1)
         /\ inp'.pc = "start" => FirstTurn(q, 1)
         /\ q.phase # "edit1"
<1>1. PICK y : y = NextInputRound(x)
  OBVIOUS
<1>2. /\ s.tier \in 1 .. Top /\ s.b \in Seq(UpdateMessage) /\ s.idx \in 1 .. Len(s.b)
      /\ s.side \in {1, 2} /\ s.G \in SUBSET Edge /\ Top \in Nat /\ Len(s.b) \in Nat
      /\ NumTiers = Top + 1 /\ 1 \in 1 .. Top /\ StreamLegal(s.G, s.b, s.idx + 1)
  BY TopIs DEF Good
<1>3. /\ DOMAIN x = InputFields /\ x.undo \in Seq(0 .. Top)
      /\ x.call \in {NoCall, End} \cup {Query(Q) : Q \in SUBSET Vertex}
      /\ x.buffer = s.b /\ x.idx = s.idx /\ x.tier = s.tier /\ x.side = s.side
  BY DEF TurnIs
<1>4. DOMAIN y = InputFields /\ y.call = x.call
  BY <1>1, <1>3, NextInputRoundIs
<1>5. CASE s.side = 1
  <2>1. /\ y.pc = "round" /\ y.buffer = x.buffer /\ y.undo = x.undo /\ y.idx = x.idx
        /\ y.tier = x.tier /\ y.side = 2 /\ y.edits = 0
    BY <1>1, <1>3, <1>5, NextInputRoundIs
  <2>2. /\ q.phase = "turn" /\ q.b = s.b /\ q.idx = s.idx /\ q.tier = s.tier /\ q.side = 2
        /\ q.L = L /\ q.G = s.G
    BY <1>5, NextTurnIs
  <2>3. TurnIs(q, y)
    BY <1>2, <1>3, <1>4, <2>1, <2>2 DEF TurnIs
  <2>4. InputFollows(q)'
    BY <1>1, <1>3, <2>1, <2>2, <2>3, TurnFollows
  <2>5. ~FirstTurn(q, 1)
    BY <2>2 DEF FirstTurn
  <2> QED
    BY <1>1, <2>1, <2>2, <2>4, <2>5
<1>6. CASE s.side # 1 /\ s.tier < Top
  <2>1. /\ y.pc = "round" /\ y.buffer = x.buffer /\ y.undo = x.undo /\ y.idx = x.idx
        /\ y.tier = x.tier + 1 /\ y.side = 1 /\ y.edits = 0
    BY <1>1, <1>2, <1>3, <1>6, NextInputRoundIs
  <2>2. /\ q.phase = "turn" /\ q.b = s.b /\ q.idx = s.idx /\ q.tier = s.tier + 1 /\ q.side = 1
        /\ q.L = L /\ q.G = s.G
    BY <1>6, NextTurnIs
  <2>3. s.tier + 1 \in 1 .. Top /\ s.tier + 1 # 1
    BY <1>2, <1>6
  <2>4. TurnIs(q, y)
    BY <1>3, <1>4, <2>1, <2>2, <2>3 DEF TurnIs
  <2>5. InputFollows(q)'
    BY <1>1, <1>3, <2>1, <2>2, <2>4, TurnFollows
  <2>6. ~FirstTurn(q, 1)
    BY <2>2, <2>3 DEF FirstTurn
  <2> QED
    BY <1>1, <2>1, <2>2, <2>5, <2>6
<1>7. CASE s.side # 1 /\ ~(s.tier < Top) /\ s.idx < Len(s.b)
  <2>1. /\ y.pc = "start" /\ y.buffer = x.buffer /\ y.undo = x.undo /\ y.idx = x.idx + 1
        /\ y.tier = 1 /\ y.side = 1 /\ y.edits = 0
    BY <1>1, <1>2, <1>3, <1>7, NextInputRoundIs
  <2>2. q = Begin(s.b, s.idx + 1, L, s.G)
    BY <1>7, NextTurnIs
  <2>3. /\ q.phase = "turn" /\ q.b = s.b /\ q.idx = s.idx + 1 /\ q.tier = 1 /\ q.side = 1
        /\ q.prev = L /\ q.G = Toggle(s.G, EdgeOf(s.b[s.idx + 1]))
    BY <2>2, BeginIs
  <2>4. TurnIs(q, y) /\ FirstTurn(q, 1)
    BY <1>2, <1>3, <1>4, <2>1, <2>3 DEF TurnIs, FirstTurn
  <2>5. graph' = SketchAfter(q.G, q.b, q.idx + 1 .. Len(q.b))
    <3>1. PICK G, b, i, S, T : /\ G = s.G /\ b = s.b /\ i = s.idx + 1 /\ S = {i}
                               /\ T = i + 1 .. Len(b)
      OBVIOUS
    <3>2. /\ G \in SUBSET Edge /\ i \in 1 .. Len(b) /\ i \in Int /\ Len(b) \in Int
          /\ EdgeOf(b[i]) \in Edge
      BY <1>2, <1>7, <3>1 DEF StreamLegal
    <3>3. IsFiniteSet(S) /\ IsFiniteSet(T) /\ S \cap T = {} /\ S \cup T = i .. Len(b)
      <4>1. S = i .. i
        BY <3>1, <3>2
      <4>2. IsFiniteSet(S)
        BY <3>2, <4>1, IntervalFinite
      <4>3. i + 1 \in Int /\ IsFiniteSet(T)
        BY <3>1, <3>2, IntervalFinite
      <4> QED
        BY <3>1, <3>2, <4>2, <4>3
    <3>4. SketchAfter(SketchAfter(G, b, S), b, T) = SketchAfter(G, b, S \cup T)
      BY <3>2, <3>3, SketchUnion
    <3>5. SketchAfter(G, b, S) = Toggle(G, EdgeOf(b[i]))
      BY <3>1, <3>2, SketchOne
    <3>6. graph' = SketchAfter(G, b, i .. Len(b))
      BY <3>1
    <3>7. graph' = SketchAfter(Toggle(G, EdgeOf(b[i])), b, T)
      BY <3>3, <3>4, <3>5, <3>6
    <3> QED
      BY <2>3, <3>1, <3>7
  <2>6. InputFollows(q)'
    BY <1>1, <2>1, <2>3, <2>4, <2>5, TurnFollows
  <2> QED
    BY <1>1, <2>1, <2>3, <2>4, <2>6
<1>8. CASE s.side # 1 /\ ~(s.tier < Top) /\ ~(s.idx < Len(s.b))
  <2>1. /\ y.pc = IF x.call = NoCall THEN "fill" ELSE "return"
        /\ y.buffer = <<>> /\ y.undo = <<>> /\ y.idx = 0
        /\ y.tier = 1 /\ y.side = 1 /\ y.edits = 0
    BY <1>1, <1>2, <1>3, <1>8, NextInputRoundIs
  <2>2. q = Between(L, s.G)
    BY <1>8, NextTurnIs
  <2>3. q.phase = "idle" /\ q.idx = 0 /\ q.L = L /\ q.G = s.G
    BY <2>2, BetweenIs
  <2>4. graph' = SketchAfter(q.G, y.buffer, 1 .. Len(y.buffer))
    <3>1. PICK G, b : G = s.G /\ b = s.b
      OBVIOUS
    <3>2. s.idx + 1 .. Len(b) = {} /\ 1 .. Len(<<>>) = {}
      BY <1>2, <1>8, <3>1
    <3>3. SketchAfter(G, b, {}) = G /\ SketchAfter(G, <<>>, {}) = G
      BY <1>2, <3>1, SketchEmpty
    <3> QED
      BY <2>1, <2>3, <3>1, <3>2, <3>3
  <2>5. StreamLegal(q.G, y.buffer, 1) /\ y.buffer \in Seq(UpdateMessage) /\ Len(y.buffer) = 0
    BY <2>1 DEF StreamLegal
  <2>6. Len(y.buffer) <= BatchSize /\ Len(y.buffer) # BatchSize
    BY <2>5, BatchSizeAssumption
  <2>7. y.pc \in {"fill", "return"} /\ (y.pc = "return" => y.buffer = <<>> /\ y.call # NoCall)
    BY <1>4, <2>1
  <2>8. /\ q.phase = "idle" /\ q.idx = 0 /\ inp' = y
        /\ DOMAIN y = {"pc", "buffer", "undo", "idx", "tier", "side", "edits", "call"}
        /\ y.undo \in Seq(0 .. Top) /\ y.tier \in 1 .. Top /\ y.side \in {1, 2}
        /\ y.edits \in {0, 1} /\ y.call \in {NoCall, End} \cup {Query(Q) : Q \in SUBSET Vertex}
        /\ queryEtt' = DOMAIN lct' /\ lct' = q.L
        /\ y.pc \in {"fill", "batch", "return"} /\ y.pc # "batch" /\ y.idx = 0
    BY <1>1, <1>2, <1>3, <1>4, <2>1, <2>3, <2>7 DEF InputFields
  <2>9. InputFollows(q)'
    BY <2>4, <2>5, <2>6, <2>7, <2>8, IdleFollows
  <2> QED
    BY <1>1, <2>3, <2>7, <2>9
<1> QED
  BY <1>5, <1>6, <1>7, <1>8

\* The input node takes part in its next broadcast, and sends no message.
LEMMA InputReceivesKeep ==
  ASSUME NEW view, NEW front, NEW at, Log(view, front, at), Related(view, front, at),
         UNCHANGED tierVars, p2p' = p2p, bcasts[0] # <<>>, ReceiveBcast(0),
         NEW q, q = After(view[0], Head(bcasts[0])), InputFollows(q)',
         q.phase # "edit1",
         inp'.pc = "round" => ~FirstTurn(q, 1),
         inp'.pc \in {"undo", "start"} => FirstTurn(q, 1)
  PROVE  InStep'
<1>1. PICK r \in Rank : r = 0
  BY TopIs
<1>2. PICK view2 : view2 = [view EXCEPT ![r] = q]
  OBVIOUS
<1>3. seed' = seed /\ node' = node /\ MessagesFit(front, at) /\ StartersAt(at)
  BY DEF tierVars, Related
<1>4. PICK at2 :
        /\ Log(view2, front, at2)'
        /\ \A p \in Rank \ {r} : at2[p] = at[p]
        /\ at2[r] => q = front
        /\ FirstTurn(q, 1) => at2[r]
  <2>1. bcasts[r] # <<>> /\ ReceiveBcast(r) /\ q = After(view[r], Head(bcasts[r]))
    BY <1>1
  <2>2. PICK at2 :
          /\ Log(view2, front, at2)'
          /\ CaughtUp(r, Head(bcasts[r]).root, q, front, at, at2)
    BY <1>2, <1>3, <2>1, LogReceive
  <2> QED
    BY <1>1, <2>2 DEF CaughtUp
<1>5. ~at[0] /\ 0 \in Rank
  BY <1>1, LogView
<1>6. /\ view2[0] = q /\ \A p \in Rank \ {0} : view2[p] = view[p]
      /\ Log(view2, front, at2)' /\ \A p \in Rank \ {0} : at2[p] = at[p]
      /\ at2[0] => q = front
      /\ FirstTurn(q, 1) => at2[0]
  <2>1. view = [p \in Rank |-> view[p]]
    BY DEF Log
  <2> QED
    BY <1>1, <1>2, <1>4, <2>1
<1>7. RefreshSent(0, front, at2)'
  <2>1. RefreshSent(0, front, at)
    BY <1>3, TopIs DEF MessagesFit
  <2>2. ~SentRefresh(0, front, at)
    BY <1>5 DEF SentRefresh
  <2>3. ~SentRefresh(0, front, at2)'
    BY <1>6 DEF SentRefresh
  <2>4. ~GotRefresh(0, front, at) /\ p2p[0][RankOf(0)] = <<>>
    BY <2>1, <2>2 DEF RefreshSent
  <2>5. at2[RankOf(0)] = at[RankOf(0)]
    BY <1>6, TopIs DEF RankOf
  <2>6. ~GotRefresh(0, front, at2)'
    BY <1>3, <2>4, <2>5 DEF GotRefresh
  <2> QED
    BY <2>3, <2>4, <2>6 DEF RefreshSent
<1>8. \A T \in 1 .. Top : AnswerSent(T, front, at2)'
  <2>1. SUFFICES ASSUME NEW T \in 1 .. Top
                 PROVE  AnswerSent(T, front, at2)'
    OBVIOUS
  <2>2. AnswerSent(T, front, at)
    BY <1>3 DEF MessagesFit
  <2>3. /\ p2p[0][RankOf(T)] = <<>>
        /\ ~(node[T].pc = "link" /\ front.phase = "edit1")
    BY <1>5, <2>2 DEF AnswerSent
  <2>4. ~(front.phase = "edit1" /\ at2[0])
    BY <1>6
  <2> QED
    BY <1>3, <2>3, <2>4 DEF AnswerSent
<1>9. MessagesFit(front, at2)'
  <2>1. p2p' = [a \in Rank |-> [b \in Rank |-> p2p'[a][b]]]
    BY <1>3 DEF MessagesFit
  <2> QED
    BY <1>3, <1>6, <1>7, <1>8, <2>1, InputMessages
<1>10. StartersAt(at2)'
  <2>1. \A t \in Tier : at2[RankOf(t)] = at[RankOf(t)]
    BY <1>6, TopIs DEF RankOf
  <2>2. 0 \in Tier
    BY TopIs
  <2> QED
    BY <1>3, <1>6, <2>1, <2>2 DEF StartersAt
<1>11. InputFollows(view2[0])'
  BY <1>6
<1> QED
  BY <1>6, <1>9, <1>10, <1>11, InputKeeps

\* The broadcast that the input node meets.
LEMMA InputHeadIs ==
  ASSUME NEW view, NEW front, NEW at, Log(view, front, at), seed \in Seeds, NEW root,
         IncomingFrom(0, root)
  PROVE  \E ev, q :
           /\ bcasts[0] # <<>> /\ ev = Head(bcasts[0])
           /\ ev.msg = BcastReceived(0) /\ ev.root = root
           /\ q = After(view[0], ev)
           /\ Legal(view[0], ev) /\ Good(view[0]) /\ Good(q) /\ ~at[0]
<1>1. PICK ev, q : ev = Head(bcasts[0]) /\ q = After(view[0], ev)
  OBVIOUS
<1>2. bcasts[0] # <<>> /\ ev.root = root /\ ev.msg = BcastReceived(0)
  BY <1>1 DEF IncomingFrom, BcastReceived
<1>3. Legal(view[0], ev) /\ Good(view[0]) /\ ~at[0]
  BY <1>1, <1>2, LogView, TopIs
<1>4. Good(q)
  BY <1>1, <1>3, AfterGood
<1> QED
  BY <1>1, <1>2, <1>3, <1>4

\* InputNotIsolated keeps the nodes in step.
LEMMA InputNotIsolatedKeeps ==
  ASSUME InStep, InputNotIsolated, UNCHANGED tierVars
  PROVE  InStep'
<1>1. PICK view, front, at : Log(view, front, at) /\ Related(view, front, at)
  BY DEF InStep
<1>2. PICK x, s : x = inp /\ s = view[0]
  OBVIOUS
<1>3. /\ x.pc = "round" /\ inp' = NextInputRound(x) /\ graph' = graph
      /\ lct' = lct /\ queryEtt' = queryEtt /\ p2p' = p2p
      /\ IncomingFrom(0, RankOf(inp.tier)) /\ ReceiveBcast(0)
      /\ BcastReceived(0).kind = "not_isolated"
  BY <1>2 DEF InputNotIsolated
<1>4. seed \in Seeds /\ InputFollows(s)
  BY <1>1, <1>2 DEF Related
<1>5. PICK ev, q :
        /\ bcasts[0] # <<>> /\ ev = Head(bcasts[0]) /\ ev.msg = BcastReceived(0)
        /\ q = After(s, ev) /\ Good(s)
  BY <1>1, <1>2, <1>3, <1>4, InputHeadIs
<1>6. /\ TurnIs(s, x) /\ queryEtt = DOMAIN lct
      /\ graph = SketchAfter(s.G, s.b, s.idx + 1 .. Len(s.b))
      /\ x.tier = s.tier /\ x.side = s.side /\ lct = s.L /\ s.idx # 0
  <2>1. s.phase \in {"turn", "edit1", "edit2"}
    BY <1>2, <1>3, <1>4, <1>5, InputTurnIs
  <2>2. s.idx # 0
    BY <1>5, <2>1 DEF Good
  <2> QED
    BY <1>2, <1>3, <1>4, <1>5, <2>2, InputTurnIs
<1>7. q = NextTurn(s, s.L)
  BY <1>3, <1>5, AfterIs
<1>8. /\ InputFollows(q)'
      /\ inp'.pc \in {"round", "start", "fill", "return"}
      /\ inp'.pc = "round" => ~FirstTurn(q, 1)
      /\ inp'.pc = "start" => FirstTurn(q, 1)
      /\ q.phase # "edit1"
  <2>1. PICK L : L = s.L
    OBVIOUS
  <2>2. /\ Good(s) /\ s.idx # 0 /\ TurnIs(s, x) /\ x.tier = s.tier /\ x.side = s.side
        /\ Weighted(L) /\ lct' = L /\ queryEtt' = DOMAIN L
        /\ graph' = SketchAfter(s.G, s.b, s.idx + 1 .. Len(s.b))
        /\ q = NextTurn(s, L) /\ inp' = NextInputRound(x)
    BY <1>3, <1>5, <1>6, <1>7, <2>1 DEF Good
  <2> QED
    BY <2>2, InputRoundFollows
<1>9. q = After(view[0], Head(bcasts[0]))
  BY <1>2, <1>5
<1>10. inp'.pc \in {"undo", "start"} => FirstTurn(q, 1)
  BY <1>8
<1> QED
  BY <1>1, <1>3, <1>5, <1>8, <1>9, <1>10, InputReceivesKeep

\* ReceiveEdit keeps the nodes in step.
LEMMA ReceiveEditKeeps ==
  ASSUME InStep, ReceiveEdit, UNCHANGED tierVars
  PROVE  InStep'
<1>1. PICK view, front, at : Log(view, front, at) /\ Related(view, front, at)
  BY DEF InStep
<1>2. PICK x, s, m, y : x = inp /\ s = view[0] /\ m = BcastReceived(0) /\ y = [x EXCEPT !.edits = 1]
  OBVIOUS
<1>3. /\ x.pc = "edits" /\ graph' = graph /\ p2p' = p2p
      /\ IncomingFrom(0, RankOf(inp.tier)) /\ ReceiveBcast(0)
      /\ \/ m.kind = "link" /\ lct' = LctLink(lct, m.edge, m.startTier)
            /\ queryEtt' = EttLink(queryEtt, m.edge)
         \/ m.kind = "cut" /\ lct' = LctCut(lct, m.edge) /\ queryEtt' = EttCut(queryEtt, m.edge)
      /\ inp' = IF m.kind = "link" \/ x.edits = 1 THEN NextInputRound(x) ELSE y
  BY <1>2 DEF ReceiveEdit, InputLastEdit
<1>4. seed \in Seeds /\ InputFollows(s)
  BY <1>1, <1>2 DEF Related
<1>5. PICK ev, q :
        /\ bcasts[0] # <<>> /\ ev = Head(bcasts[0]) /\ ev.msg = m
        /\ q = After(s, ev) /\ Good(s) /\ Legal(s, ev)
  BY <1>1, <1>2, <1>3, <1>4, InputHeadIs
<1>6. /\ TurnIs(s, x) /\ queryEtt = DOMAIN lct
      /\ graph = SketchAfter(s.G, s.b, s.idx + 1 .. Len(s.b))
      /\ x.tier = s.tier /\ x.side = s.side /\ lct = s.L /\ s.idx # 0
      /\ s.phase = IF x.edits = 0 THEN "edit1" ELSE "edit2"
  <2>1. s.phase \in {"turn", "edit1", "edit2"}
    BY <1>2, <1>3, <1>4, <1>5, InputTurnIs
  <2>2. s.idx # 0
    BY <1>5, <2>1 DEF Good
  <2> QED
    BY <1>2, <1>3, <1>4, <1>5, <2>2, InputTurnIs
<1>7. x.edits \in {0, 1} /\ Weighted(s.L) /\ DOMAIN x = InputFields
  BY <1>5, <1>6 DEF TurnIs, Good
<1>8. q = After(view[0], Head(bcasts[0]))
  BY <1>2, <1>5
<1>9. CASE m.kind = "link"
  <2>1. PICK l, e, t, L : l = s.L /\ e = m.edge /\ t = m.startTier /\ L = LctLink(l, e, t)
    OBVIOUS
  <2>2. /\ s.phase \in {"edit1", "edit2"} /\ e = s.edge /\ t = s.tier /\ ~Joins(DOMAIN l, e)
    BY <1>5, <1>9, <2>1 DEF Legal
  <2>3. e \in Edge /\ t \in 1 .. Top /\ t \in Tier /\ Weighted(l)
    BY <1>5, <1>7, <2>1, <2>2, TopIs DEF Good
  <2>4. /\ EttLink(DOMAIN l, e) = DOMAIN LctLink(l, e, t)
        /\ Weighted(LctLink(l, e, t))
    <3>1. Weighted(LctLink(l, e, t)) /\ DOMAIN LctLink(l, e, t) = DOMAIN l \cup {e}
      BY <2>3, WeightedLink
    <3>2. EttLink(DOMAIN l, e) = DOMAIN l \cup {e}
      BY <2>2 DEF EttLink
    <3> QED
      BY <3>1, <3>2
  <2>5. q = NextTurn(s, L)
    BY <1>5, <1>9, <2>1, AfterIs
  <2>6. /\ Good(s) /\ s.idx # 0 /\ TurnIs(s, x) /\ x.tier = s.tier /\ x.side = s.side
        /\ Weighted(L) /\ lct' = L /\ queryEtt' = DOMAIN L
        /\ graph' = SketchAfter(s.G, s.b, s.idx + 1 .. Len(s.b))
        /\ q = NextTurn(s, L) /\ inp' = NextInputRound(x)
    BY <1>3, <1>5, <1>6, <1>9, <2>1, <2>4, <2>5
  <2>7. /\ InputFollows(q)'
        /\ inp'.pc \in {"round", "start", "fill", "return"}
        /\ inp'.pc = "round" => ~FirstTurn(q, 1)
        /\ inp'.pc = "start" => FirstTurn(q, 1)
        /\ q.phase # "edit1"
    BY <2>6, InputRoundFollows
  <2>8. inp'.pc \in {"undo", "start"} => FirstTurn(q, 1)
    BY <2>7
  <2> QED
    BY <1>1, <1>3, <1>5, <1>8, <2>7, <2>8, InputReceivesKeep
<1>10. CASE m.kind = "cut"
  <2>1. s.phase = "edit1" /\ x.edits = 0
    BY <1>5, <1>6, <1>7, <1>10 DEF Legal
  <2>2. inp' = y
    BY <1>3, <1>10, <2>1
  <2>3. /\ q.phase = "edit2" /\ q.b = s.b /\ q.idx = s.idx /\ q.tier = s.tier
        /\ q.side = s.side /\ q.L = LctCut(s.L, m.edge) /\ q.G = s.G
    BY <1>5, <1>10, AfterIs
  <2>4. TurnIs(q, y) /\ y.pc = "edits" /\ y.edits = 1 /\ y.tier = x.tier /\ y.side = x.side
    BY <1>2, <1>3, <1>6, <1>7, <2>3 DEF TurnIs, InputFields
  <2>5. lct' = q.L /\ queryEtt' = DOMAIN lct'
    <3>1. PICK l, e : l = s.L /\ e = m.edge
      OBVIOUS
    <3>2. DOMAIN LctCut(l, e) = DOMAIN l \ {e}
      BY DEF LctCut
    <3>3. lct' = LctCut(l, e) /\ queryEtt' = DOMAIN l \ {e}
      BY <1>3, <1>6, <1>10, <3>1 DEF EttCut
    <3> QED
      BY <2>3, <3>1, <3>2, <3>3
  <2>6. InputFollows(q)'
    BY <1>3, <1>6, <2>2, <2>3, <2>4, <2>5, TurnFollows
  <2>7. inp'.pc # "round" /\ inp'.pc \notin {"undo", "start"} /\ q.phase # "edit1"
    BY <2>2, <2>3, <2>4
  <2> QED
    BY <1>1, <1>3, <1>5, <1>8, <2>6, <2>7, InputReceivesKeep
<1> QED
  BY <1>3, <1>9, <1>10

\* The tier that announced an edge waits for the answer when the announcement is
\* the last entry of the log and the input node has not met it.
LEMMA OwnerWaits ==
  ASSUME NEW view, NEW front, NEW at, Related(view, front, at), front.phase = "edit1", ~at[0],
         NEW t \in 1 .. Top, front.tier = t, view[RankOf(t)] = front
  PROVE  node[t].pc = "lct"
<1>1. TierFollows(t, front) /\ AnswerSent(t, front, at) /\ t \in Tier /\ t # 0
  BY TopIs DEF Related, MessagesFit
<1>2. node[t].pc # "link"
  BY <1>1 DEF AnswerSent
<1>3. TierRefreshes(t, front)
  <2>1. /\ front.phase # "idle" /\ front.phase # "reduce" /\ front.phase # "end"
        /\ ~FirstTurn(front, 1)
    BY DEF FirstTurn
  <2> QED
    BY <1>1, <2>1 DEF TierFollows, TierReduces, TierStarts
<1> QED
  BY <1>1, <1>2, <1>3 DEF TierRefreshes, FirstTurn

\* AnswerLctQuery keeps the nodes in step.
LEMMA AnswerLctQueryKeeps ==
  ASSUME InStep, AnswerLctQuery, UNCHANGED tierVars
  PROVE  InStep'
<1>1. PICK view, front, at : Log(view, front, at) /\ Related(view, front, at)
  BY DEF InStep
<1>2. PICK x, s, y, e, T :
        /\ x = inp /\ s = view[0] /\ y = [x EXCEPT !.pc = "edits", !.edits = 0]
        /\ e = BcastReceived(0).edge /\ T = x.tier
  OBVIOUS
<1>3. /\ x.pc = "round" /\ inp' = y /\ graph' = graph /\ lct' = lct /\ queryEtt' = queryEtt
      /\ IncomingFrom(0, RankOf(T)) /\ ReceiveBcast(0)
      /\ BcastReceived(0).kind = "isolated"
      /\ \E m : CycleAnswer(lct, e, m) /\ Send(0, RankOf(T), m)
  <2>1. /\ x.pc = "round" /\ inp' = y /\ graph' = graph /\ lct' = lct /\ queryEtt' = queryEtt
        /\ IncomingFrom(0, RankOf(T)) /\ ReceiveBcast(0)
        /\ BcastReceived(0).kind = "isolated"
    BY <1>2 DEF AnswerLctQuery
  <2>2. CASE Joins(DOMAIN lct, e)
    <3>1. PICK c \in Heaviest(lct, e) :
            Send(0, RankOf(T), [kind |-> "lct", connected |-> TRUE, cycleEdge |-> c,
                                weight |-> lct[c]])
      BY <1>2, <2>2 DEF AnswerLctQuery
    <3>2. CycleAnswer(lct, e, [kind |-> "lct", connected |-> TRUE, cycleEdge |-> c,
                               weight |-> lct[c]])
      BY <2>2, <3>1 DEF CycleAnswer
    <3> QED
      BY <2>1, <3>1, <3>2
  <2>3. CASE ~Joins(DOMAIN lct, e)
    <3>1. Send(0, RankOf(T), [kind |-> "lct", connected |-> FALSE])
      BY <1>2, <2>3 DEF AnswerLctQuery
    <3>2. CycleAnswer(lct, e, [kind |-> "lct", connected |-> FALSE])
      BY <2>3 DEF CycleAnswer
    <3> QED
      BY <2>1, <3>1, <3>2
  <2> QED
    BY <2>2, <2>3
<1>4. seed \in Seeds /\ InputFollows(s) /\ MessagesFit(front, at) /\ StartersAt(at)
      /\ seed' = seed /\ node' = node
  BY <1>1, <1>2 DEF Related, tierVars
<1>5. PICK ev, q :
        /\ bcasts[0] # <<>> /\ ev = Head(bcasts[0]) /\ ev.msg = BcastReceived(0)
        /\ ev.root = RankOf(T) /\ q = After(s, ev) /\ Good(s) /\ Legal(s, ev) /\ ~at[0]
  BY <1>1, <1>2, <1>3, <1>4, InputHeadIs
<1>6. /\ TurnIs(s, x) /\ queryEtt = DOMAIN lct
      /\ graph = SketchAfter(s.G, s.b, s.idx + 1 .. Len(s.b))
      /\ T = s.tier /\ x.side = s.side /\ lct = s.L /\ T \in 1 .. Top
  <2>1. /\ TurnIs(s, x) /\ queryEtt = DOMAIN lct
        /\ graph = SketchAfter(s.G, s.b, s.idx + 1 .. Len(s.b))
        /\ x.tier = s.tier /\ x.side = s.side /\ lct = s.L
    BY <1>2, <1>3, <1>4, <1>5, InputTurnIs
  <2> QED
    BY <1>2, <1>5, <2>1 DEF Good
<1>7. /\ q.phase = "edit1" /\ q.b = s.b /\ q.idx = s.idx /\ q.tier = s.tier
      /\ q.side = s.side /\ q.edge = e /\ q.L = s.L /\ q.G = s.G
  BY <1>2, <1>3, <1>5, AfterIs
<1>8. TurnIs(q, y) /\ y.pc = "edits" /\ y.edits = 0 /\ y.tier = T /\ y.side = x.side
  BY <1>2, <1>6, <1>7 DEF TurnIs, InputFields
<1>9. InputFollows(q)'
  BY <1>3, <1>6, <1>7, <1>8, TurnFollows
<1>10. PICK r \in Rank : r = 0
  BY TopIs
<1>11. PICK view2 : view2 = [view EXCEPT ![r] = q]
  OBVIOUS
<1>12. PICK at2 :
        /\ Log(view2, front, at2)'
        /\ \A p \in Rank \ {r} : at2[p] = at[p]
        /\ at2[r] /\ q = front /\ at[RankOf(T)]
  <2>1. /\ bcasts[r] # <<>> /\ ReceiveBcast(r) /\ q = After(view[r], Head(bcasts[r]))
        /\ Head(bcasts[r]).root = RankOf(T)
    BY <1>2, <1>3, <1>5, <1>10
  <2>2. PICK at2 :
          /\ Log(view2, front, at2)'
          /\ CaughtUp(r, Head(bcasts[r]).root, q, front, at, at2)
    BY <1>1, <1>4, <1>11, <2>1, LogReceive
  <2>3. at2[r]
    BY <1>7, <1>10, <2>2 DEF CaughtUp
  <2> QED
    BY <2>1, <2>2, <2>3 DEF CaughtUp
<1>13. /\ view2[0] = q /\ \A p \in Rank \ {0} : view2[p] = view[p]
       /\ Log(view2, front, at2)' /\ \A p \in Rank \ {0} : at2[p] = at[p]
       /\ at2[0] /\ 0 \in Rank
  <2>1. view = [p \in Rank |-> view[p]]
    BY <1>1 DEF Log
  <2> QED
    BY <1>10, <1>11, <1>12, <2>1
<1>14. node[T].pc = "lct"
  <2>1. RankOf(T) \in Rank /\ front.phase = "edit1" /\ front.tier = T
    BY <1>6, <1>7, <1>12, TopIs DEF RankOf
  <2>2. view[RankOf(T)] = front
    BY <1>1, <1>12, <2>1, LogView
  <2> QED
    BY <1>1, <1>5, <1>6, <2>1, <2>2, OwnerWaits
<1>15. PICK m : CycleAnswer(lct, e, m) /\ Send(0, RankOf(T), m)
  BY <1>3
<1>16. /\ p2p' = [a \in Rank |-> [b \in Rank |-> p2p'[a][b]]]
       /\ p2p[0][RankOf(T)] = <<>> => p2p'[0][RankOf(T)] = <<m>>
       /\ \A a, b \in Rank : a # 0 \/ b # RankOf(T) => p2p'[a][b] = p2p[a][b]
       /\ RankOf(T) \in Rank /\ RankOf(T) > 1
  <2>1. p2p = [a \in Rank |-> [b \in Rank |-> p2p[a][b]]]
    BY <1>4 DEF MessagesFit
  <2>2. RankOf(T) \in Rank /\ RankOf(T) > 1 /\ 0 \in Rank
    BY <1>6, TopIs DEF RankOf
  <2> QED
    BY <1>15, <2>1, <2>2, SentIs
<1>17. RefreshSent(0, front, at2)'
  <2>1. ~FirstTurn(front, 1)
    BY <1>7, <1>12 DEF FirstTurn
  <2>2. RefreshSent(0, front, at) /\ 0 \in Rank /\ RankOf(0) \in Rank
    BY <1>4, TopIs DEF MessagesFit, RankOf
  <2>3. p2p[0][RankOf(0)] = <<>>
    BY <2>1, <2>2 DEF RefreshSent, SentRefresh
  <2>4. p2p'[0][RankOf(0)] = <<>>
    <3>1. RankOf(0) # RankOf(T)
      BY <1>6 DEF RankOf
    <3> QED
      BY <1>16, <2>2, <2>3, <3>1
  <2> QED
    BY <2>1, <2>4 DEF RefreshSent, SentRefresh, GotRefresh
<1>18. \A U \in 1 .. Top : AnswerSent(U, front, at2)'
  <2>1. SUFFICES ASSUME NEW U \in 1 .. Top
                 PROVE  AnswerSent(U, front, at2)'
    OBVIOUS
  <2>2. AnswerSent(U, front, at)
    BY <1>4 DEF MessagesFit
  <2>3. /\ p2p[0][RankOf(U)] = <<>>
        /\ node[U].pc # "link"
    BY <1>5, <1>7, <1>12, <2>2 DEF AnswerSent
  <2>4. CASE U = T
    <3>1. p2p'[0][RankOf(U)] = <<m>> /\ <<m>>[1] = m
      BY <1>16, <2>3, <2>4
    <3>2. CycleAnswer(front.L, front.edge, m)
      BY <1>6, <1>7, <1>12, <1>15
    <3>3. front.phase = "edit1" /\ front.tier = U /\ at2[0] /\ node'[U].pc = "lct"
      BY <1>4, <1>6, <1>7, <1>12, <1>13, <1>14, <2>4
    <3> QED
      BY <3>1, <3>2, <3>3 DEF AnswerSent
  <2>5. CASE U # T
    <3>1. RankOf(U) \in Rank /\ RankOf(U) # RankOf(T) /\ front.tier # U
      BY <1>6, <1>7, <1>12, <2>5, TopIs DEF RankOf
    <3>2. p2p'[0][RankOf(U)] = <<>>
      BY <1>13, <1>16, <2>3, <3>1
    <3> QED
      BY <1>4, <2>3, <3>1, <3>2 DEF AnswerSent
  <2> QED
    BY <2>4, <2>5
<1>19. MessagesFit(front, at2)'
  <2>1. \A a, b \in Rank : a # 0 \/ b = 0 => p2p'[a][b] = p2p[a][b]
    BY <1>16
  <2> QED
    BY <1>4, <1>13, <1>16, <1>17, <1>18, <2>1, InputMessages
<1>20. StartersAt(at2)'
  <2>1. \A t \in Tier : at2[RankOf(t)] = at[RankOf(t)]
    BY <1>13, TopIs DEF RankOf
  <2>2. 0 \in Tier
    BY TopIs
  <2> QED
    BY <1>4, <1>13, <2>1, <2>2 DEF StartersAt
<1>21. InputFollows(view2[0])'
  BY <1>9, <1>13
<1> QED
  BY <1>1, <1>13, <1>19, <1>20, <1>21, InputKeeps

-----------------------------------------------------------------------------
(* The allreduce.                                                          *)

\* The updates that the tiers report are the isolated ones of the plan.
LEMMA ReportedIs ==
  ASSUME NEW s, s.b \in Seq(UpdateMessage),
         \A t \in Tier : TierReduces(t, s) /\ node[t].pc = "allreduce"
  PROVE  UNION {IsolatedUpdates(t) : t \in Tier} = {i \in 1 .. Len(s.b) : IsolatedAfter(s, i)}
<1>0. DOMAIN s.b = 1 .. Len(s.b)
  OBVIOUS
<1>1. ASSUME NEW t \in 0 .. Top - 1
      PROVE  IsolatedUpdates(t) =
               {i \in 1 .. Len(s.b) : \E k \in {1, 2} :
                  /\ SizesAfter(Below(s.L, t), s.b, i)[k] = SizesAfter(Below(s.L, t + 1), s.b, i)[k]
                  /\ GoodAfter(t, s.G, Below(s.L, t), s.b, i)[k]}
  <2>1. t \in Tier /\ t # Top
    BY TopIs
  <2>2. /\ node[t].sizes = Sizes(Below(s.L, t), s.b)
        /\ node[t].good = Goods(t, s.G, Below(s.L, t), s.b)
        /\ node[t].next = Sizes(Below(s.L, t + 1), s.b)
    BY <2>1 DEF TierReduces, GotSizes
  <2>3. DOMAIN node[t].next = 1 .. Len(s.b)
    BY <1>0, <2>2 DEF Sizes
  <2>4. ASSUME NEW i \in 1 .. Len(s.b)
        PROVE  /\ node[t].sizes[i] = SizesAfter(Below(s.L, t), s.b, i)
               /\ node[t].next[i] = SizesAfter(Below(s.L, t + 1), s.b, i)
               /\ node[t].good[i] = GoodAfter(t, s.G, Below(s.L, t), s.b, i)
    BY <1>0, <2>2, <2>4 DEF Sizes, Goods
  <2> QED
    BY <2>3, <2>4, Zenon DEF IsolatedUpdates
<1>2. IsolatedUpdates(Top) = {}
  <2>1. Top \in Tier
    BY TopIs
  <2>2. node[Top].next = <<>>
    BY <2>1 DEF TierReduces, GotSizes
  <2> QED
    BY <2>2 DEF IsolatedUpdates
<1>3. Tier = (0 .. Top - 1) \cup {Top}
  BY TopIs
<1>4. ASSUME NEW i
      PROVE  i \in UNION {IsolatedUpdates(t) : t \in Tier}
               <=> \E t \in 0 .. Top - 1 : i \in IsolatedUpdates(t)
  BY <1>2, <1>3
<1>5. ASSUME NEW i
      PROVE  (\E t \in 0 .. Top - 1 : i \in IsolatedUpdates(t))
               <=> i \in 1 .. Len(s.b) /\ IsolatedAfter(s, i)
  BY <1>1, Zenon DEF IsolatedAfter
<1> QED
  BY <1>4, <1>5

\* The allreduce returns the first of them.
LEMMA FirstIs ==
  ASSUME NEW s, s.b \in Seq(UpdateMessage), Len(s.b) <= BatchSize,
         \A t \in Tier : TierReduces(t, s) /\ node[t].pc = "allreduce",
         NEW first, first = FirstIsolated
  PROVE  /\ first \in (1 .. Len(s.b)) \cup {NoUpdate}
         /\ \A i \in 1 .. Len(s.b) : i < first => ~IsolatedAfter(s, i)
<1>1. PICK I : I = UNION {IsolatedUpdates(t) : t \in Tier}
  OBVIOUS
<1>2. I = {i \in 1 .. Len(s.b) : IsolatedAfter(s, i)}
  BY <1>1, ReportedIs
<1>3. NoUpdate \in Nat /\ Len(s.b) \in Nat
  BY BatchSizeAssumption DEF NoUpdate
<1>4. first = CHOOSE i \in I \cup {NoUpdate} : \A j \in I \cup {NoUpdate} : i <= j
  BY <1>1 DEF FirstIsolated
<1>5. I \cup {NoUpdate} \in SUBSET Nat /\ I \cup {NoUpdate} # {}
  BY <1>2, <1>3
<1>6. first \in I \cup {NoUpdate} /\ \A j \in I \cup {NoUpdate} : first <= j
  <2>1. PICK S : S = I \cup {NoUpdate}
    OBVIOUS
  <2>2. S \in SUBSET Nat /\ S # {} /\ first = CHOOSE i \in S : \A j \in S : i <= j
    BY <1>4, <1>5, <2>1
  <2>3. \E i \in S : \A j \in S : i <= j
    BY <2>2, LeastElement
  <2>4. first \in S /\ \A j \in S : first <= j
    BY <2>2, <2>3
  <2> QED
    BY <2>1, <2>4
<1>7. first \in Nat
  BY <1>5, <1>6
<1> QED
  BY <1>2, <1>3, <1>6, <1>7

\* Nothing is isolated: the tiers are done with the batch.
LEMMA TierDone ==
  ASSUME NEW t \in Tier, NEW s, Good(s), s.phase = "reduce", TierReduces(t, s),
         NEW q, q = Between(Kept(s, Len(s.b)), Applied(s, Len(s.b))),
         node'[t] = TierIdle, ett'[t] = ett[t], sketch'[t] = sketch[t]
  PROVE  TierFollows(t, q)'
<1>1. q.phase = "idle" /\ q.L = Kept(s, Len(s.b)) /\ q.G = Applied(s, Len(s.b))
  BY BetweenIs
<1>2. Len(s.b) \in 0 .. Len(s.b)
  BY DEF Good
<1>3. /\ ett[t] = ForestAfter(Below(s.L, t), s.b, Len(s.b))
      /\ sketch[t] = SketchAfter(s.G, s.b, 1 .. Len(s.b))
  BY DEF TierReduces
<1>4. ett'[t] = Below(q.L, t) /\ sketch'[t] = q.G
  BY <1>1, <1>2, <1>3, KeptBelow DEF Applied
<1> QED
  BY <1>1, <1>4 DEF TierFollows, NodeShape

\* An update needs refresh: the tiers are about to undo those from it on.
LEMMA TierBegins ==
  ASSUME NEW t \in Tier, NEW s, Good(s), s.phase = "reduce", TierReduces(t, s),
         DOMAIN node[t] = DOMAIN TierIdle, NEW k \in 1 .. Len(s.b),
         NEW q, q = Begin(s.b, k, Kept(s, k - 1), Applied(s, k - 1)),
         node'[t] = TierReduced(t, k),
         ett'[t] = ett[t], sketch'[t] = sketch[t]
  PROVE  TierFollows(t, q)' /\ node'[t].pc = "undo"
<1>1. /\ q.phase = "turn" /\ q.b = s.b /\ q.idx = k /\ q.tier = 1 /\ q.side = 1
      /\ q.prev = Kept(s, k - 1) /\ q.G = Toggle(Applied(s, k - 1), EdgeOf(s.b[k]))
  BY BeginIs
<1>2. PICK x, y : x = node[t] /\ y = node'[t]
  OBVIOUS
<1>3. /\ x.updates = s.b /\ x.tier = 0 /\ x.side = 1 /\ x.edits = 0 /\ x.ends = <<>>
      /\ x.cut = [i \in DOMAIN s.b |-> Cuts(Below(s.L, t), s.b, i)]
      /\ ett[t] = ForestAfter(Below(s.L, t), s.b, Len(s.b))
      /\ sketch[t] = SketchAfter(s.G, s.b, 1 .. Len(s.b))
  BY <1>2 DEF TierReduces
<1>4. /\ DOMAIN y = DOMAIN TierIdle /\ y.pc = "undo" /\ y.idx = k /\ y.updates = x.updates
      /\ y.cut = x.cut /\ y.tier = x.tier /\ y.side = x.side /\ y.edits = x.edits
      /\ y.ends = x.ends
  <2>1. node[t].updates = s.b /\ ~(k > Len(s.b))
    BY <1>2, <1>3 DEF Good
  <2>2. y = [x EXCEPT !.pc = "undo", !.idx = k, !.sizes = <<>>, !.next = <<>>, !.good = <<>>]
    BY <1>2, <2>1 DEF TierReduced
  <2> QED
    BY <1>2, <2>2, Fields
<1>5. PICK F, G, b, n : F = Below(s.L, t) /\ G = s.G /\ b = s.b /\ n = Len(s.b)
  OBVIOUS
<1>6. /\ b \in Seq(UpdateMessage) /\ G \in SUBSET Edge /\ k \in 1 .. Len(b) /\ n = Len(b)
      /\ n \in Nat /\ k \in Int /\ k - 1 \in 0 .. n /\ F \in SUBSET Edge /\ Acyclic(F)
  <2>1. Weighted(s.L) /\ Acyclic(DOMAIN s.L)
    BY DEF Good
  <2>2. F \in SUBSET DOMAIN s.L /\ F \in SUBSET Edge
    <3>1. PICK l : l = s.L
      OBVIOUS
    <3>2. Weighted(l)
      BY <2>1, <3>1
    <3> QED
      BY <1>5, <3>1, <3>2, BelowTop
  <2>3. Acyclic(F)
    BY <2>1, <2>2, AcyclicSubset
  <2> QED
    BY <1>5, <2>2, <2>3 DEF Good
<1>7. Relinked(ett'[t], b, y.cut, k) = Below(q.prev, t)
  <2>1. Relinked(ForestAfter(F, b, Len(b)), b, [i \in DOMAIN b |-> Cuts(F, b, i)], k)
          = ForestAfter(F, b, k - 1)
    BY <1>6, RelinkedIs
  <2>2. Below(q.prev, t) = ForestAfter(F, b, k - 1)
    BY <1>1, <1>5, <1>6, KeptBelow
  <2>3. /\ ett'[t] = ForestAfter(F, b, Len(b))
        /\ y.cut = [i \in DOMAIN b |-> Cuts(F, b, i)]
    BY <1>3, <1>4, <1>5, Zenon
  <2> QED
    BY <2>1, <2>2, <2>3, Zenon
<1>8. SketchAfter(sketch'[t], b, UpdatesFrom(b, k)) = Toggle(q.G, EdgeOf(b[k]))
  <2>1. PICK S, T : S = 1 .. k - 1 /\ T = k .. n
    OBVIOUS
  <2>2. IsFiniteSet(S) /\ IsFiniteSet(T)
    <3>1. k - 1 \in Int /\ n \in Int /\ 1 \in Int
      BY <1>6
    <3> QED
      BY <1>6, <2>1, <3>1, IntervalFinite
  <2>3. S \cap T = {} /\ S \cup T = 1 .. n
    BY <1>6, <2>1
  <2>4. SketchAfter(SketchAfter(G, b, S \cup T), b, T) = SketchAfter(G, b, S)
    BY <1>6, <2>2, <2>3, SketchBack
  <2>5. Toggle(q.G, EdgeOf(b[k])) = SketchAfter(G, b, S)
    BY <1>1, <1>5, <2>1, ToggleTwice DEF Applied
  <2>6. sketch'[t] = SketchAfter(G, b, S \cup T) /\ UpdatesFrom(b, k) = T
    BY <1>3, <1>5, <1>6, <2>1, <2>3 DEF UpdatesFrom
  <2> QED
    BY <2>4, <2>5, <2>6
<1>9. ett'[t] \subseteq Edge /\ sketch'[t] \subseteq Edge
  BY <1>3, <1>5, <1>6, ForestAfterIn, SketchInEdge
<1>10. TierStarts(t, q)'
  BY <1>1, <1>2, <1>3, <1>4, <1>5, <1>7, <1>8, <1>9 DEF TierStarts, FirstTurn
<1> QED
  BY <1>2, <1>4, <1>10 DEF TierFollows, NodeShape

\* The input node at the allreduce.
LEMMA InputReduceIs ==
  ASSUME NEW s, Good(s), InputFollows(s), inp.pc = "allreduce", NEW x, x = inp
  PROVE  /\ DOMAIN x = InputFields
         /\ x.undo \in Seq(0 .. Top) /\ x.tier \in 1 .. Top /\ x.side \in {1, 2}
         /\ x.edits \in {0, 1}
         /\ x.call \in {NoCall, End} \cup {Query(Q) : Q \in SUBSET Vertex}
         /\ queryEtt = DOMAIN lct /\ s.phase = "reduce" /\ x.buffer = s.b /\ x.idx = 0
         /\ graph = SketchAfter(s.G, s.b, 1 .. Len(s.b))
         /\ lct = Kept(s, Len(s.b))
         /\ x.undo = [i \in DOMAIN s.b |-> IF Cuts(DOMAIN s.L, s.b, i)
                                           THEN s.L[EdgeOf(s.b[i])] ELSE 0]
<1>1. s.phase = "reduce" /\ s.idx = 0 /\ x.buffer = s.b
  BY DEF InputFollows, Good
<1>2. graph = SketchAfter(s.G, s.b, 1 .. Len(s.b))
  <2>1. graph = SketchAfter(s.G, x.buffer, s.idx + 1 .. Len(x.buffer))
    BY DEF InputFollows
  <2> QED
    BY <1>1, <2>1
<1> QED
  BY <1>1, <1>2 DEF InputFollows, InputShape, InputFields, Kept

\* Nothing is isolated: the input node is done with the batch.
LEMMA InputDone ==
  ASSUME NEW s, Good(s), InputFollows(s), inp.pc = "allreduce",
         NEW q, q = Between(Kept(s, Len(s.b)), Applied(s, Len(s.b))),
         inp' = Finished(inp), graph' = graph, lct' = lct, queryEtt' = queryEtt
  PROVE  InputFollows(q)' /\ inp'.pc \in {"fill", "return"}
<1>1. PICK x, y : x = inp /\ y = Finished(x)
  OBVIOUS
<1>2. /\ DOMAIN x = InputFields
      /\ x.undo \in Seq(0 .. Top) /\ x.tier \in 1 .. Top /\ x.side \in {1, 2}
      /\ x.edits \in {0, 1}
      /\ x.call \in {NoCall, End} \cup {Query(Q) : Q \in SUBSET Vertex}
      /\ queryEtt = DOMAIN lct /\ s.phase = "reduce"
      /\ graph = SketchAfter(s.G, s.b, 1 .. Len(s.b))
      /\ lct = Kept(s, Len(s.b))
  BY <1>1, InputReduceIs
<1>3. /\ DOMAIN y = InputFields /\ y.call = x.call
      /\ y.pc = IF x.call = NoCall THEN "fill" ELSE "return"
      /\ y.buffer = <<>> /\ y.undo = <<>> /\ y.idx = 0
      /\ y.tier = x.tier /\ y.side = x.side /\ y.edits = x.edits
  BY <1>1, <1>2 DEF InputFields, Finished
<1>4. q.phase = "idle" /\ q.idx = 0 /\ q.L = Kept(s, Len(s.b)) /\ q.G = Applied(s, Len(s.b))
  BY BetweenIs
<1>5. graph' = SketchAfter(q.G, y.buffer, 1 .. Len(y.buffer))
  <2>1. PICK G : G = q.G
    OBVIOUS
  <2>2. G \in SUBSET Edge /\ graph = G
    BY <1>2, <1>4, <2>1, SketchInEdge DEF Applied
  <2>3. SketchAfter(G, y.buffer, {}) = G
    BY <2>2, SketchEmpty
  <2>4. 1 .. Len(y.buffer) = {}
    BY <1>3
  <2> QED
    BY <2>1, <2>2, <2>3, <2>4
<1>6. StreamLegal(q.G, y.buffer, 1) /\ y.buffer \in Seq(UpdateMessage) /\ Len(y.buffer) = 0
  BY <1>3 DEF StreamLegal
<1>7. Len(y.buffer) <= BatchSize /\ Len(y.buffer) # BatchSize
  BY <1>6, BatchSizeAssumption
<1>8. y.pc \in {"fill", "return"} /\ (y.pc = "return" => y.buffer = <<>> /\ y.call # NoCall)
  BY <1>3
<1>9. /\ q.phase = "idle" /\ q.idx = 0 /\ inp' = y
      /\ DOMAIN y = {"pc", "buffer", "undo", "idx", "tier", "side", "edits", "call"}
      /\ y.undo \in Seq(0 .. Top) /\ y.tier \in 1 .. Top /\ y.side \in {1, 2}
      /\ y.edits \in {0, 1} /\ y.call \in {NoCall, End} \cup {Query(Q) : Q \in SUBSET Vertex}
      /\ queryEtt' = DOMAIN lct' /\ lct' = q.L
      /\ y.pc \in {"fill", "batch", "return"} /\ y.pc # "batch" /\ y.idx = 0
  BY <1>1, <1>2, <1>3, <1>4, <1>8 DEF InputFields
<1>10. InputFollows(q)'
  BY <1>5, <1>6, <1>7, <1>8, <1>9, IdleFollows
<1> QED
  BY <1>8, <1>9, <1>10

\* The link-cut tree after the greedy pass, with the edges cut from update k on
\* relinked, is that of the pass over the first k - 1 updates.
LEMMA UndoneIs ==
  ASSUME NEW s, Good(s), InputFollows(s), inp.pc = "allreduce", NEW k \in 1 .. Len(s.b)
  PROVE  /\ RelinkedWeighted(lct, s.b, inp.undo, k) = Kept(s, k - 1)
         /\ Relinked(queryEtt, s.b, [i \in DOMAIN inp.undo |-> inp.undo[i] # 0], k)
              = DOMAIN Kept(s, k - 1)
         /\ Weighted(lct) /\ DOMAIN lct \subseteq DOMAIN Kept(s, k - 1)
<1>0. PICK L, b, F, n, undo : /\ L = s.L /\ b = s.b /\ F = DOMAIN L /\ n = Len(b)
                              /\ undo = inp.undo
  OBVIOUS
<1>1. /\ queryEtt = DOMAIN lct /\ s.phase = "reduce"
      /\ lct = Kept(s, Len(b))
      /\ undo = [i \in DOMAIN b |-> IF Cuts(F, b, i) THEN L[EdgeOf(b[i])] ELSE 0]
  BY <1>0 DEF InputFollows, Kept
<1>2. /\ b \in Seq(UpdateMessage) /\ k \in 1 .. Len(b) /\ n \in Nat /\ Len(b) \in 0 .. Len(b)
      /\ k - 1 \in 0 .. Len(b) /\ DOMAIN b = 1 .. n
  BY <1>0 DEF Good
<1>3. F \in SUBSET Edge /\ Acyclic(F) /\ L \in [F -> 1 .. Top] /\ Weighted(L)
  BY <1>0 DEF Good, Weighted
<1>4. L \in [DOMAIN L -> Nat \ {0}]
  BY <1>0, <1>3, TopIs
<1>5. /\ Kept(s, k - 1) = WeightsAfter(L, b, k - 1)
      /\ lct = WeightsAfter(L, b, Len(b))
      /\ undo = CutWeights(L, b)
      /\ DOMAIN lct = ForestAfter(F, b, Len(b))
      /\ DOMAIN Kept(s, k - 1) = ForestAfter(F, b, k - 1)
  BY <1>0, <1>1 DEF Kept, Restricted, WeightsAfter, CutWeights
<1>6. RelinkedWeighted(lct, b, undo, k) = Kept(s, k - 1)
  <2>1. RelinkedWeighted(WeightsAfter(L, b, Len(b)), b, CutWeights(L, b), k)
           = WeightsAfter(L, b, k - 1)
    BY <1>2, <1>4, RelinkedWeightedIs
  <2> QED
    BY <1>5, <2>1, Zenon
<1>7. [i \in DOMAIN undo |-> undo[i] # 0] = [i \in DOMAIN b |-> Cuts(F, b, i)]
  <2>1. DOMAIN undo = DOMAIN b
    BY <1>1
  <2>2. ASSUME NEW i \in DOMAIN b
        PROVE  undo[i] # 0 <=> Cuts(F, b, i)
    <3>1. undo[i] = IF Cuts(F, b, i) THEN L[EdgeOf(b[i])] ELSE 0
      BY <1>1, <2>2
    <3>2. Cuts(F, b, i) => EdgeOf(b[i]) \in F
      BY ForestAfterIn DEF Cuts
    <3>3. Cuts(F, b, i) => L[EdgeOf(b[i])] # 0
      BY <1>3, <3>2, TopIs
    <3> QED
      BY <3>1, <3>3
  <2>3. ASSUME NEW i \in DOMAIN b
        PROVE  (undo[i] # 0) = Cuts(F, b, i)
    <3>1. Cuts(F, b, i) \in BOOLEAN
      BY DEF Cuts
    <3> QED
      BY <2>2, <3>1
  <2> QED
    BY <2>1, <2>3, Zenon
<1>8. Relinked(queryEtt, b, [i \in DOMAIN undo |-> undo[i] # 0], k) = DOMAIN Kept(s, k - 1)
  <2>1. Relinked(ForestAfter(F, b, Len(b)), b, [i \in DOMAIN b |-> Cuts(F, b, i)], k)
          = ForestAfter(F, b, k - 1)
    BY <1>2, <1>3, RelinkedIs
  <2> QED
    BY <1>1, <1>5, <1>7, <2>1, Zenon
<1>9. Weighted(lct)
  <2>1. Len(s.b) \in 0 .. Len(s.b)
    BY <1>0, <1>2
  <2> QED
    BY <1>0, <1>1, <2>1, KeptIs
<1>10. DOMAIN lct \subseteq DOMAIN Kept(s, k - 1)
  <2>1. k - 1 \in Int /\ Len(b) \in Int /\ k - 1 <= Len(b)
    BY <1>2
  <2>2. ForestAfter(F, b, Len(b)) \subseteq ForestAfter(F, b, k - 1)
    BY <2>1, ForestAfterLess
  <2> QED
    BY <1>5, <2>2
<1> QED
  BY <1>0, <1>6, <1>8, <1>9, <1>10, Zenon

\* The stream's graph is that of update k with the updates that follow it.
LEMMA GraphOfUpdate ==
  ASSUME NEW s, Good(s), s.phase = "reduce", NEW k \in 1 .. Len(s.b)
  PROVE  SketchAfter(Toggle(Applied(s, k - 1), EdgeOf(s.b[k])), s.b, k + 1 .. Len(s.b))
           = SketchAfter(s.G, s.b, 1 .. Len(s.b))
<1>1. PICK G, b, n, S, T : G = s.G /\ b = s.b /\ n = Len(b) /\ S = 1 .. k - 1 /\ T = k + 1 .. n
  OBVIOUS
<1>2. /\ b \in Seq(UpdateMessage) /\ G \in SUBSET Edge /\ k \in 1 .. n /\ n \in Nat
      /\ k \in Int /\ StreamLegal(G, b, 1)
  <2>1. s.idx + 1 = 1
    BY DEF Good
  <2> QED
    BY <1>1, <2>1 DEF Good
<1>3. EdgeOf(b[k]) \in Edge
  BY <1>1, <1>2 DEF StreamLegal
<1>4. IsFiniteSet(S) /\ IsFiniteSet(T) /\ IsFiniteSet(S \cup {k}) /\ k \notin S
      /\ (S \cup {k}) \cap T = {} /\ (S \cup {k}) \cup T = 1 .. n
  <2>1. k - 1 \in Int /\ k + 1 \in Int /\ n \in Int /\ 1 \in Int
    BY <1>2
  <2>2. IsFiniteSet(1 .. k - 1) /\ IsFiniteSet(k + 1 .. n) /\ IsFiniteSet(1 .. k)
    BY <1>2, <2>1, IntervalFinite
  <2>3. S \cup {k} = 1 .. k
    BY <1>1, <1>2
  <2>4. (1 .. k) \cap (k + 1 .. n) = {} /\ (1 .. k) \cup (k + 1 .. n) = 1 .. n
    BY <1>2
  <2>5. IsFiniteSet(S) /\ IsFiniteSet(T) /\ k \notin S
    BY <1>1, <1>2, <2>2
  <2> QED
    BY <1>1, <2>2, <2>3, <2>4, <2>5, Zenon
<1>5. SketchAfter(G, b, S \cup {k}) = Toggle(SketchAfter(G, b, S), EdgeOf(b[k]))
  BY <1>2, <1>3, <1>4, SketchNext
<1>6. PICK R : R = S \cup {k}
  OBVIOUS
<1>7. SketchAfter(SketchAfter(G, b, R), b, T) = SketchAfter(G, b, R \cup T)
  BY <1>4, <1>6, SketchUnion
<1>8. Applied(s, k - 1) = SketchAfter(G, b, S)
  BY <1>1 DEF Applied
<1> QED
  BY <1>1, <1>4, <1>5, <1>6, <1>7, <1>8, Zenon

\* An update needs refresh: the input node is about to undo those from it on.
LEMMA InputBegins ==
  ASSUME NEW s, Good(s), InputFollows(s), inp.pc = "allreduce", NEW k \in 1 .. Len(s.b),
         NEW q, q = Begin(s.b, k, Kept(s, k - 1), Applied(s, k - 1)),
         inp' = [inp EXCEPT !.pc = "undo", !.idx = k],
         graph' = graph, lct' = lct, queryEtt' = queryEtt
  PROVE  InputFollows(q)' /\ inp'.pc = "undo"
<1>1. PICK x, y : x = inp /\ y = [x EXCEPT !.pc = "undo", !.idx = k]
  OBVIOUS
<1>2. /\ DOMAIN x = InputFields
      /\ x.undo \in Seq(0 .. Top) /\ x.tier \in 1 .. Top /\ x.side \in {1, 2}
      /\ x.edits \in {0, 1}
      /\ x.call \in {NoCall, End} \cup {Query(Q) : Q \in SUBSET Vertex}
      /\ queryEtt = DOMAIN lct /\ s.phase = "reduce" /\ x.buffer = s.b
      /\ graph = SketchAfter(s.G, s.b, 1 .. Len(s.b))
      /\ lct = Kept(s, Len(s.b))
      /\ x.undo = [i \in DOMAIN s.b |-> IF Cuts(DOMAIN s.L, s.b, i)
                                        THEN s.L[EdgeOf(s.b[i])] ELSE 0]
  BY <1>1, InputReduceIs
<1>3. /\ DOMAIN y = InputFields /\ y.call = x.call /\ y.pc = "undo" /\ y.idx = k
      /\ y.buffer = x.buffer /\ y.undo = x.undo
      /\ y.tier = x.tier /\ y.side = x.side /\ y.edits = x.edits
  BY <1>1, <1>2 DEF InputFields
<1>4. /\ q.phase = "turn" /\ q.b = s.b /\ q.idx = k /\ q.tier = 1 /\ q.side = 1
      /\ q.prev = Kept(s, k - 1) /\ q.G = Toggle(Applied(s, k - 1), EdgeOf(s.b[k]))
  BY BeginIs
<1>6. /\ RelinkedWeighted(lct, s.b, x.undo, k) = Kept(s, k - 1)
      /\ Relinked(queryEtt, s.b, [i \in DOMAIN x.undo |-> x.undo[i] # 0], k)
           = DOMAIN Kept(s, k - 1)
      /\ Weighted(lct) /\ DOMAIN lct \subseteq DOMAIN Kept(s, k - 1)
  BY <1>1, UndoneIs, Zenon
<1>7. graph' = SketchAfter(q.G, s.b, k + 1 .. Len(s.b))
  BY <1>2, <1>4, GraphOfUpdate
<1>8. inp' = y
  BY <1>1
<1>12. FirstTurn(q, 1) /\ y.buffer = q.b /\ y.idx = q.idx
  BY <1>2, <1>3, <1>4 DEF FirstTurn
<1>13. y.undo = x.undo /\ q.b = s.b /\ q.idx = k
  BY <1>3, <1>4
<1>9. /\ y.pc = "undo" /\ FirstTurn(q, 1)
      /\ y.buffer = q.b /\ y.idx = q.idx
      /\ Weighted(lct') /\ DOMAIN lct' \subseteq DOMAIN q.prev
      /\ RelinkedWeighted(lct', q.b, y.undo, q.idx) = q.prev
      /\ Relinked(queryEtt', q.b, [i \in DOMAIN y.undo |-> y.undo[i] # 0], q.idx)
           = DOMAIN q.prev
  BY <1>3, <1>4, <1>6, <1>12, <1>13, Zenon
<1>10. /\ DOMAIN y = {"pc", "buffer", "undo", "idx", "tier", "side", "edits", "call"}
       /\ y.undo \in Seq(0 .. Top) /\ y.tier \in 1 .. Top /\ y.side \in {1, 2}
       /\ y.edits \in {0, 1} /\ y.call \in {NoCall, End} \cup {Query(Q) : Q \in SUBSET Vertex}
       /\ queryEtt' = DOMAIN lct'
       /\ graph' = SketchAfter(q.G, y.buffer, q.idx + 1 .. Len(y.buffer))
  BY <1>2, <1>3, <1>4, <1>7 DEF InputFields
<1>11. InputFollows(q)'
  <2>1. y = inp'
    BY <1>8
  <2>2. /\ inp'.pc = "undo" /\ FirstTurn(q, 1)
        /\ inp'.buffer = q.b /\ inp'.idx = q.idx
        /\ Weighted(lct') /\ DOMAIN lct' \subseteq DOMAIN q.prev
        /\ RelinkedWeighted(lct', q.b, inp'.undo, q.idx) = q.prev
        /\ Relinked(queryEtt', q.b, [i \in DOMAIN inp'.undo |-> inp'.undo[i] # 0], q.idx)
             = DOMAIN q.prev
    BY <1>9, <2>1, Zenon
  <2>3. /\ DOMAIN inp' = {"pc", "buffer", "undo", "idx", "tier", "side", "edits", "call"}
        /\ inp'.undo \in Seq(0 .. Top) /\ inp'.tier \in 1 .. Top /\ inp'.side \in {1, 2}
        /\ inp'.edits \in {0, 1}
        /\ inp'.call \in {NoCall, End} \cup {Query(Q) : Q \in SUBSET Vertex}
        /\ queryEtt' = DOMAIN lct'
        /\ graph' = SketchAfter(q.G, inp'.buffer, q.idx + 1 .. Len(inp'.buffer))
    BY <1>10, <2>1, Zenon
  <2> QED
    BY <2>2, <2>3, Zenon DEF InputFollows, InputShape
<1> QED
  BY <1>3, <1>8, <1>11

\* At the allreduce every rank has replayed the whole log.
LEMMA AllAtReduce ==
  ASSUME NEW view, NEW front, NEW at, Log(view, front, at), Related(view, front, at), Allreduce
  PROVE  /\ Good(front) /\ front.phase = "reduce"
         /\ \A r \in Rank : at[r] /\ view[r] = front
         /\ InputFollows(front)
         /\ \A t \in Tier : /\ TierFollows(t, front) /\ TierReduces(t, front)
                            /\ node[t].pc = "allreduce" /\ DOMAIN node[t] = DOMAIN TierIdle
<1>1. inp.pc = "allreduce" /\ \A t \in Tier : node[t].pc = "allreduce"
  BY DEF Allreduce
<1>2. InputFollows(view[0]) /\ \A t \in Tier : TierFollows(t, view[RankOf(t)])
  BY DEF Related
<1>3. view[0].phase = "reduce"
  BY <1>1, <1>2, InputPlace
<1>4. \A t \in Tier : TierReduces(t, view[RankOf(t)]) /\ DOMAIN node[t] = DOMAIN TierIdle
  BY <1>1, <1>2, PlaceOf
<1>5. \A t \in Tier : view[RankOf(t)].phase = "reduce"
  BY <1>4 DEF TierReduces
<1>6. ASSUME NEW r \in Rank
      PROVE  view[r].phase = "reduce"
  <2>1. r = 0 \/ (r - 1 \in Tier /\ RankOf(r - 1) = r)
    BY TopIs DEF RankOf
  <2> QED
    BY <1>3, <1>5, <2>1
<1>7. ASSUME NEW r \in Rank
      PROVE  at[r] /\ view[r] = front
  <2>1. Owner(view[r]) = NumTiers + 1
    BY <1>6 DEF Owner
  <2>2. Owner(view[r]) \notin Rank \ {r}
    BY <2>1, TopIs
  <2> QED
    BY <2>2, LogOwner
<1>8. 0 \in Rank /\ \A t \in Tier : RankOf(t) \in Rank
  BY TopIs DEF RankOf
<1>9. Good(front) /\ front.phase = "reduce"
  BY <1>3, <1>7, <1>8, LogView
<1> QED
  BY <1>1, <1>2, <1>4, <1>7, <1>8, <1>9

\* The queues are empty at the allreduce.
LEMMA SilentAtReduce ==
  ASSUME NEW front, NEW at, MessagesFit(front, at), front.phase = "reduce",
         \A t \in Tier : node[t].pc = "allreduce"
  PROVE  p2p = [r \in Rank |-> [s \in Rank |-> p2p[r][s]]]
         /\ \A r, s \in Rank : p2p[r][s] = <<>>
<1>1. ASSUME NEW t \in 0 .. Top - 1
      PROVE  p2p[RankOf(t + 1)][RankOf(t)] = <<>>
  <2>1. t \in Tier /\ t # Top /\ t + 1 \in Tier /\ t + 1 # 0
    BY TopIs
  <2>2. GotSizes(t)
    BY <2>1 DEF GotSizes
  <2>3. SizesSent(t, front)
    BY DEF MessagesFit
  <2> QED
    BY <2>2, <2>3 DEF SizesSent
<1>2. ASSUME NEW T \in Tier
      PROVE  p2p[T][RankOf(T)] = <<>>
  <2>1. ~SentRefresh(T, front, at)
    BY DEF SentRefresh, FirstTurn
  <2>2. RefreshSent(T, front, at)
    BY DEF MessagesFit
  <2> QED
    BY <2>1, <2>2 DEF RefreshSent
<1>3. ASSUME NEW T \in 1 .. Top
      PROVE  p2p[0][RankOf(T)] = <<>>
  <2>1. AnswerSent(T, front, at)
    BY DEF MessagesFit
  <2> QED
    BY <2>1 DEF AnswerSent
<1>4. ASSUME NEW r \in Rank, NEW s \in Rank
      PROVE  p2p[r][s] = <<>>
  <2>1. CASE s = r + 1
    <3>1. r \in Tier /\ RankOf(r) = s
      BY <2>1, TopIs DEF RankOf
    <3> QED
      BY <1>2, <3>1
  <2>2. CASE r = s + 1 /\ s # 0
    <3>1. s - 1 \in 0 .. Top - 1 /\ RankOf((s - 1) + 1) = r /\ RankOf(s - 1) = s
      BY <2>2, TopIs DEF RankOf
    <3> QED
      BY <1>1, <3>1
  <2>3. CASE r = 0 /\ s > 1
    <3>1. s - 1 \in 1 .. Top /\ RankOf(s - 1) = s
      BY <2>3, TopIs DEF RankOf
    <3> QED
      BY <1>3, <2>3, <3>1
  <2>4. CASE ~(s = r + 1) /\ ~(r = s + 1 /\ s # 0) /\ ~(r = 0 /\ s > 1)
    BY <2>4 DEF MessagesFit, OthersSilent
  <2> QED
    BY <2>1, <2>2, <2>3, <2>4
<1> QED
  BY <1>4 DEF MessagesFit

\* Empty queues fit where nobody sends.
LEMMA SilentFits ==
  ASSUME NEW front, NEW at,
         p2p' = [r \in Rank |-> [s \in Rank |-> p2p'[r][s]]],
         \A r, s \in Rank : p2p'[r][s] = <<>>,
         \A t \in Tier : node'[t].pc \in {"batch", "undo"},
         inp'.pc # "round", front.phase # "edit1"
  PROVE  MessagesFit(front, at)'
<1>1. ASSUME NEW t \in 0 .. Top - 1
      PROVE  SizesSent(t, front)'
  <2>1. t \in Tier /\ t + 1 \in Tier /\ RankOf(t + 1) \in Rank /\ RankOf(t) \in Rank
    BY TopIs DEF RankOf
  <2>2. ~GotSizes(t)' /\ ~SentSizes(t + 1)'
    BY <2>1 DEF GotSizes, SentSizes
  <2> QED
    BY <2>1, <2>2 DEF SizesSent
<1>2. ASSUME NEW T \in Tier
      PROVE  p2p'[T][RankOf(T)] = <<>> /\ ~SentRefresh(T, front, at)' /\ ~GotRefresh(T, front, at)'
  <2>1. T \in Rank /\ RankOf(T) \in Rank /\ (T # 0 => T - 1 \in Tier)
    BY TopIs DEF RankOf
  <2>2. ~SentRefresh(T, front, at)'
    BY <2>1 DEF SentRefresh
  <2>3. ~GotRefresh(T, front, at)'
    BY DEF GotRefresh
  <2> QED
    BY <2>1, <2>2, <2>3
<1>3. \A T \in Tier : RefreshSent(T, front, at)'
  BY <1>2, RefreshNone
<1>4. ASSUME NEW T \in 1 .. Top
      PROVE  AnswerSent(T, front, at)'
  <2>1. T \in Tier /\ RankOf(T) \in Rank /\ 0 \in Rank
    BY TopIs DEF RankOf
  <2> QED
    BY <2>1 DEF AnswerSent
<1>5. OthersSilent'
  BY DEF OthersSilent
<1> QED
  BY <1>1, <1>3, <1>4, <1>5 DEF MessagesFit

\* All go on together after the allreduce.
LEMMA TogetherKeeps ==
  ASSUME seed' \in Seeds, ett' = [t \in Tier |-> ett'[t]], sketch' = [t \in Tier |-> sketch'[t]],
         node' = [t \in Tier |-> node'[t]],
         NEW view, NEW front, NEW at, Log(view, front, at)', \A r \in Rank : at[r],
         \A r \in Rank : view[r] = front,
         InputFollows(front)', \A t \in Tier : TierFollows(t, front)',
         p2p' = [r \in Rank |-> [s \in Rank |-> p2p'[r][s]]],
         \A r, s \in Rank : p2p'[r][s] = <<>>,
         \A t \in Tier : node'[t].pc \in {"batch", "undo"},
         inp'.pc # "round", front.phase # "edit1"
  PROVE  InStep'
<1>1. 0 \in Rank /\ \A t \in Tier : RankOf(t) \in Rank
  BY TopIs DEF RankOf
<1>2. MessagesFit(front, at)'
  BY SilentFits
<1>3. StartersAt(at)'
  BY <1>1, TopIs DEF StartersAt
<1>4. Related(view, front, at)'
  BY <1>1, <1>2, <1>3 DEF Related
<1> QED
  BY <1>4 DEF InStep

\* Allreduce keeps the nodes in step.
LEMMA AllreduceKeeps ==
  ASSUME InStep, Allreduce
  PROVE  InStep'
<1>1. PICK view, front, at : Log(view, front, at) /\ Related(view, front, at)
  BY DEF InStep
<1>2. PICK s, first : s = front /\ first = FirstIsolated
  OBVIOUS
<1>3. /\ Good(s) /\ s.phase = "reduce"
      /\ \A r \in Rank : at[r] /\ view[r] = s
      /\ InputFollows(s)
      /\ \A t \in Tier : /\ TierFollows(t, s) /\ TierReduces(t, s)
                         /\ node[t].pc = "allreduce" /\ DOMAIN node[t] = DOMAIN TierIdle
  BY <1>1, <1>2, AllAtReduce
<1>4. /\ inp.pc = "allreduce" /\ InputReduced(first)
      /\ node' = [t \in Tier |-> TierReduced(t, first)]
      /\ graph' = graph /\ lct' = lct /\ queryEtt' = queryEtt /\ answer' = answer
      /\ seed' = seed /\ ett' = ett /\ sketch' = sketch /\ p2p' = p2p /\ bcasts' = bcasts
  BY <1>2 DEF Allreduce, mpi
<1>5. /\ seed \in Seeds /\ ett = [t \in Tier |-> ett[t]] /\ sketch = [t \in Tier |-> sketch[t]]
      /\ MessagesFit(s, at)
  BY <1>1, <1>2 DEF Related
<1>6. /\ s.b \in Seq(UpdateMessage) /\ Len(s.b) <= BatchSize /\ Len(s.b) \in Nat
      /\ BatchSize \in Nat
  BY <1>3, BatchSizeAssumption DEF Good
<1>7. /\ first \in (1 .. Len(s.b)) \cup {NoUpdate}
      /\ \A i \in 1 .. Len(s.b) : i < first => ~IsolatedAfter(s, i)
  BY <1>2, <1>3, <1>6, FirstIs
<1>8. /\ NoUpdate \notin 1 .. Len(s.b) /\ NoUpdate > Len(s.b)
  BY <1>6 DEF NoUpdate
<1>9. PICK ev : ev = [root |-> NumTiers + 1, msg |-> [kind |-> "first", first |-> first]]
  OBVIOUS
<1>10. ev.root = NumTiers + 1 /\ ev.msg.kind = "first" /\ ev.msg.first = first
  BY <1>9
<1>11. Legal(s, ev)
  <2>1. Owner(s) = NumTiers + 1
    BY <1>3 DEF Owner
  <2> QED
    BY <1>3, <1>7, <1>10, <2>1 DEF Legal
<1>12. PICK q : q = After(s, ev)
  OBVIOUS
<1>13. PICK view2 : view2 = [r \in Rank |-> q]
  OBVIOUS
<1>14. PICK at2 : Log(view2, q, at2)' /\ \A r \in Rank : at2[r]
  <2>1. Log(view, s, at) /\ (\A r \in Rank : at[r]) /\ seed \in Seeds /\ seed' = seed
        /\ bcasts' = bcasts /\ Legal(s, ev)
    BY <1>1, <1>2, <1>3, <1>4, <1>5, <1>11
  <2> QED
    BY <2>1, <1>12, <1>13, LogReduce
<1>15. q = IF first = NoUpdate
           THEN Between(Kept(s, Len(s.b)), Applied(s, Len(s.b)))
           ELSE Begin(s.b, first, Kept(s, first - 1), Applied(s, first - 1))
  BY <1>10, <1>12, AfterIs
<1>16. /\ p2p' = [r \in Rank |-> [c \in Rank |-> p2p'[r][c]]]
       /\ \A r, c \in Rank : p2p'[r][c] = <<>>
  BY <1>3, <1>4, <1>5, SilentAtReduce
<1>17. \A t \in Tier : /\ node'[t] = TierReduced(t, first) /\ node[t].updates = s.b
                       /\ ett'[t] = ett[t] /\ sketch'[t] = sketch[t]
  BY <1>3, <1>4 DEF TierReduces
<1>18. q.phase # "edit1" /\ InputFollows(q)' /\ inp'.pc # "round"
       /\ \A t \in Tier : TierFollows(t, q)' /\ node'[t].pc \in {"batch", "undo"}
  <2>1. CASE first = NoUpdate
    <3>1. q = Between(Kept(s, Len(s.b)), Applied(s, Len(s.b)))
      BY <1>15, <2>1
    <3>2. q.phase = "idle"
      BY <3>1, BetweenIs
    <3>3. inp' = Finished(inp)
      BY <1>4, <2>1 DEF InputReduced
    <3>4. InputFollows(q)' /\ inp'.pc \in {"fill", "return"}
      BY <1>3, <1>4, <3>1, <3>3, InputDone
    <3>5. ASSUME NEW t \in Tier
          PROVE  TierFollows(t, q)' /\ node'[t].pc \in {"batch", "undo"}
      <4>1. node'[t] = TierIdle
        BY <1>8, <1>17, <2>1 DEF TierReduced
      <4>2. TierFollows(t, q)'
        BY <1>3, <1>17, <3>1, <4>1, TierDone
      <4> QED
        BY <4>1, <4>2 DEF TierIdle
    <3> QED
      BY <3>2, <3>4, <3>5
  <2>2. CASE first # NoUpdate
    <3>0. first \in 1 .. Len(s.b) /\ ~(first > Len(s.b))
      BY <1>6, <1>7, <2>2
    <3>1. q = Begin(s.b, first, Kept(s, first - 1), Applied(s, first - 1))
      BY <1>15, <2>2
    <3>2. q.phase = "turn"
      BY <3>1, BeginIs
    <3>3. inp' = [inp EXCEPT !.pc = "undo", !.idx = first]
      BY <1>4, <2>2 DEF InputReduced
    <3>4. InputFollows(q)' /\ inp'.pc = "undo"
      BY <1>3, <1>4, <3>0, <3>1, <3>3, InputBegins
    <3>5. ASSUME NEW t \in Tier
          PROVE  TierFollows(t, q)' /\ node'[t].pc \in {"batch", "undo"}
      <4>1. /\ Good(s) /\ s.phase = "reduce" /\ TierReduces(t, s)
            /\ DOMAIN node[t] = DOMAIN TierIdle /\ ett'[t] = ett[t] /\ sketch'[t] = sketch[t]
            /\ node'[t] = TierReduced(t, first)
        BY <1>3, <1>17
      <4>2. TierFollows(t, q)' /\ node'[t].pc = "undo"
        BY <3>0, <3>1, <4>1, TierBegins
      <4> QED
        BY <4>2
    <3> QED
      BY <3>2, <3>4, <3>5
  <2> QED
    BY <2>1, <2>2
<1>19. /\ seed' \in Seeds /\ ett' = [t \in Tier |-> ett'[t]]
       /\ sketch' = [t \in Tier |-> sketch'[t]] /\ node' = [t \in Tier |-> node'[t]]
       /\ \A r \in Rank : view2[r] = q
  BY <1>4, <1>5, <1>13
<1> QED
  BY <1>14, <1>16, <1>18, <1>19, TogetherKeeps

\* The empty forest.
LEMMA NoEdges ==
  Weighted([e \in {} |-> 0]) /\ DOMAIN [e \in {} |-> 0] = {} /\ Acyclic({})
<1>1. Acyclic({})
  BY DEF Acyclic
<1> QED
  BY <1>1 DEF Weighted

\* Nothing is isolated in the empty graph.
LEMMA NoneAtFirst ==
  ASSUME seed \in Seeds, NEW L
  PROVE  NoneIsolated(L, {})
<1>1. ASSUME NEW t \in 0 .. Top - 1, NEW F, NEW v
      PROVE  Sampled(t, {}, F, v) = {}
  <2>1. Boundary({}, Component(F, v)) = {}
    BY DEF Boundary
  <2>2. t \in 0 .. NumTiers - 2 /\ {} \in SUBSET Edge
    BY TopIs
  <2>3. Samples(seed, t, {}) \subseteq {}
    BY <2>2, SamplesAssumption
  <2> QED
    BY <2>1, <2>3 DEF Sampled
<1> QED
  BY <1>1 DEF NoneIsolated, IsolatedIn

\* At first nobody has anything to replay.
LEMMA InitInStep ==
  ASSUME Init
  PROVE  InStep
<1>1. PICK L, s : L = [e \in {} |-> 0] /\ s = Between(L, {})
  OBVIOUS
<1>2. Weighted(L) /\ DOMAIN L = {} /\ Acyclic(DOMAIN L)
  BY <1>1, NoEdges
<1>3. Good(s)
  BY <1>1, <1>2, BetweenGood
<1>4. s.phase = "idle" /\ s.b = <<>> /\ s.idx = 0 /\ s.L = L /\ s.G = {}
  BY <1>1, BetweenIs
<1>5. PICK view, at : view = [r \in Rank |-> s] /\ at = [r \in Rank |-> TRUE]
  OBVIOUS
<1>6. Log(view, s, at)
  <2>1. PICK log, plans, done : /\ log = <<>> /\ plans = [i \in 0 .. 0 |-> s]
                                /\ done = [r \in Rank |-> 0]
    OBVIOUS
  <2>2. LogIs(0, log, plans, done)
    <3>1. bcasts = [r \in Rank |-> Queue(log, done[r], 0)]
      <4>1. Queue(log, 0, 0) = <<>>
        <5>1. PICK n : n = 0
          OBVIOUS
        <5>2. n \in Nat /\ n \in 0 .. n
          BY <5>1
        <5>3. Queue(log, n, n) = <<>>
          BY <5>2, QueueHead
        <5> QED
          BY <5>1, <5>3
      <4>2. \A r \in Rank : done[r] = 0
        BY <2>1
      <4>3. bcasts = [r \in Rank |-> <<>>]
        BY DEF Init, MpiInit
      <4> QED
        BY <4>1, <4>2, <4>3
    <3>2. done \in [Rank -> 0 .. 0] /\ (\A r \in Rank : done[r] + 1 .. 0 = {}) /\ 1 .. 0 = {}
      BY <2>1
    <3>3. \A i \in 0 .. 0 : Good(plans[i])
      BY <1>3, <2>1
    <3>4. Ahead(plans[0])
      <4>1. NoneIsolated(s.L, s.G)
        BY <1>4, NoneAtFirst DEF Init, TierInit
      <4>2. Ahead(s)
        BY <1>4, <4>1 DEF Ahead
      <4>3. plans[0] = s
        BY <2>1
      <4> QED
        BY <4>2, <4>3
    <3> QED
      BY <3>1, <3>2, <3>3, <3>4 DEF LogIs
  <2>3. KeepUp(0, plans, done)
    <3>1. ~FirstTurn(s, 1)
      BY <1>4 DEF FirstTurn
    <3>2. \A t \in 1 .. Top : RankOf(t) \in Rank
      BY TopIs DEF RankOf
    <3>3. \A r \in Rank : \A d \in done[r] .. 0 : plans[d] = s
      BY <2>1
    <3> QED
      BY <3>1, <3>2, <3>3 DEF KeepUp
  <2>4. view = [r \in Rank |-> plans[done[r]]] /\ s = plans[0] /\ at = [r \in Rank |-> done[r] = 0]
    <3>1. \A r \in Rank : plans[done[r]] = s /\ done[r] = 0
      BY <2>1
    <3>2. \A r \in Rank : (done[r] = 0) = TRUE
      BY <3>1
    <3>3. view = [r \in Rank |-> plans[done[r]]]
      BY <1>5, <3>1, Zenon
    <3>4. at = [r \in Rank |-> done[r] = 0]
      BY <1>5, <3>2, Zenon
    <3>5. s = plans[0]
      BY <2>1
    <3> QED
      BY <3>3, <3>4, <3>5
  <2> QED
    BY <2>2, <2>3, <2>4 DEF Log
<1>7. InputFollows(s)
  <2>1. /\ graph = {} /\ lct = L /\ queryEtt = {}
        /\ inp = [pc |-> "fill", buffer |-> <<>>, undo |-> <<>>, idx |-> 0,
                  tier |-> 1, side |-> 1, edits |-> 0, call |-> NoCall]
    BY <1>1 DEF Init, InputInit
  <2>2. PICK x : x = inp
    OBVIOUS
  <2>3. /\ DOMAIN x = {"pc", "buffer", "undo", "idx", "tier", "side", "edits", "call"}
        /\ x.pc = "fill" /\ x.buffer = <<>> /\ x.undo = <<>> /\ x.idx = 0 /\ x.tier = 1
        /\ x.side = 1 /\ x.edits = 0 /\ x.call = NoCall
    BY <2>1, <2>2
  <2>4. graph = SketchAfter(s.G, x.buffer, s.idx + 1 .. Len(x.buffer))
    <3>1. SketchAfter({}, x.buffer, {}) = {}
      BY SketchEmpty
    <3>2. s.idx + 1 .. Len(x.buffer) = {}
      BY <1>4, <2>3
    <3> QED
      BY <1>4, <2>1, <3>1, <3>2
  <2>5. StreamLegal(s.G, x.buffer, 1)
    BY <2>3 DEF StreamLegal
  <2>6. x.undo \in Seq(0 .. Top) /\ x.tier \in 1 .. Top /\ x.buffer \in Seq(UpdateMessage)
        /\ Len(x.buffer) <= BatchSize /\ Len(x.buffer) # BatchSize
    BY <2>3, TopIs, BatchSizeAssumption
  <2> QED
    BY <1>2, <1>4, <2>1, <2>2, <2>3, <2>4, <2>5, <2>6 DEF InputFollows, InputShape
<1>8. \A t \in Tier : TierFollows(t, s) /\ node[t] = TierIdle
  <2>1. ASSUME NEW t \in Tier
        PROVE  node[t] = TierIdle /\ ett[t] = {} /\ sketch[t] = {}
    BY DEF Init, TierInit
  <2>2. \A t : Below(L, t) = {}
    BY <1>2 DEF Below
  <2> QED
    BY <1>4, <2>1, <2>2 DEF TierFollows, NodeShape
<1>9. \A t \in Tier : node[t].pc = "batch"
  BY <1>8 DEF TierIdle
<1>10. inp.pc = "fill"
  BY DEF Init, InputInit
<1>11. /\ p2p = [r \in Rank |-> [q \in Rank |-> p2p[r][q]]]
       /\ \A r, q \in Rank : p2p[r][q] = <<>>
  BY DEF Init, MpiInit
<1>12. MessagesFit(s, at)
  <2>1. ASSUME NEW t \in 0 .. Top - 1
        PROVE  SizesSent(t, s)
    <3>1. t \in Tier /\ t + 1 \in Tier /\ RankOf(t + 1) \in Rank /\ RankOf(t) \in Rank
      BY TopIs DEF RankOf
    <3>2. ~GotSizes(t) /\ ~SentSizes(t + 1)
      BY <1>9, <3>1 DEF GotSizes, SentSizes
    <3> QED
      BY <1>11, <3>1, <3>2 DEF SizesSent
  <2>2. ASSUME NEW T \in Tier
        PROVE  RefreshSent(T, s, at)
    <3>1. T \in Rank /\ RankOf(T) \in Rank
      BY TopIs DEF RankOf
    <3>2. ~SentRefresh(T, s, at) /\ ~GotRefresh(T, s, at)
      BY <1>4 DEF SentRefresh, GotRefresh, FirstTurn
    <3> QED
      BY <1>11, <3>1, <3>2 DEF RefreshSent
  <2>3. ASSUME NEW T \in 1 .. Top
        PROVE  AnswerSent(T, s, at)
    <3>1. T \in Tier /\ RankOf(T) \in Rank /\ 0 \in Rank
      BY TopIs DEF RankOf
    <3> QED
      BY <1>4, <1>9, <1>11, <3>1 DEF AnswerSent
  <2>4. OthersSilent
    BY <1>11 DEF OthersSilent
  <2> QED
    BY <1>11, <2>1, <2>2, <2>3, <2>4 DEF MessagesFit
<1>13. StartersAt(at)
  <2>1. 0 \in Tier
    BY TopIs
  <2> QED
    BY <1>9, <1>10, <2>1 DEF StartersAt
<1>14. /\ seed \in Seeds /\ ett = [t \in Tier |-> ett[t]] /\ sketch = [t \in Tier |-> sketch[t]]
       /\ node = [t \in Tier |-> node[t]]
  BY DEF Init, TierInit
<1>15. view[0] = s /\ \A t \in Tier : view[RankOf(t)] = s
  BY <1>5, TopIs DEF RankOf
<1>16. Related(view, s, at)
  BY <1>7, <1>8, <1>12, <1>13, <1>14, <1>15 DEF Related
<1> QED
  BY <1>6, <1>16 DEF InStep

\* A step that changes nothing keeps the nodes in step.
LEMMA StutterKeeps ==
  ASSUME InStep, UNCHANGED vars
  PROVE  InStep'
<1>1. PICK view, front, at : Log(view, front, at) /\ Related(view, front, at)
  BY DEF InStep
<1>2. /\ graph' = graph /\ lct' = lct /\ queryEtt' = queryEtt /\ inp' = inp
      /\ seed' = seed /\ ett' = ett /\ sketch' = sketch /\ node' = node
      /\ p2p' = p2p /\ bcasts' = bcasts
  BY DEF vars, inputVars, tierVars, mpi
<1>3. Log(view, front, at)'
  BY <1>1, <1>2, LogSame
<1>4. /\ InputFollows(view[0]) /\ \A t \in Tier : TierFollows(t, view[RankOf(t)])
      /\ MessagesFit(front, at) /\ StartersAt(at)
  BY <1>1 DEF Related
<1>5. InputFollows(view[0])'
  BY <1>2, <1>4, InputFrame
<1>6. ASSUME NEW t \in Tier
      PROVE  TierFollows(t, view[RankOf(t)])'
  BY <1>2, <1>4, TierFrame
<1>7. MessagesFit(front, at)'
  <2>1. \A t \in 0 .. Top - 1 : SizesSent(t, front)'
    <3>1. \A u \in 0 .. Top - 1 : SizesSent(u, front)
      BY <1>4 DEF MessagesFit
    <3> QED
      BY <1>2, <3>1, SizesKept
  <2>2. \A T \in Tier : RefreshSent(T, front, at)'
    <3>1. \A T \in Tier : RefreshSent(T, front, at)
      BY <1>4 DEF MessagesFit
    <3>2. \A T \in Tier : /\ SentRefresh(T, front, at)' <=> SentRefresh(T, front, at)
                          /\ GotRefresh(T, front, at)' <=> GotRefresh(T, front, at)
      BY <1>2 DEF SentRefresh, GotRefresh
    <3> QED
      BY <1>2, <3>1, <3>2, RefreshKept
  <2>3. \A T \in 1 .. Top : AnswerSent(T, front, at)'
    BY <1>2, <1>4 DEF MessagesFit, AnswerSent
  <2> QED
    BY <1>2, <1>4, <2>1, <2>2, <2>3 DEF MessagesFit, OthersSilent
<1>8. StartersAt(at)'
  BY <1>2, <1>4 DEF StartersAt
<1>9. Related(view, front, at)'
  BY <1>1, <1>2, <1>5, <1>6, <1>7, <1>8 DEF Related
<1> QED
  BY <1>3, <1>9 DEF InStep

\* The driver's calls keep the nodes in step.
LEMMA CallerKeeps ==
  ASSUME InStep, Caller
  PROVE  InStep'
<1>1. UNCHANGED tierVars
  BY DEF Caller
<1>2. ASSUME NEW p \in StreamPairs, Update(p[1], p[2])
      PROVE  InStep'
  <2>1. p[1] \in Vertex /\ p[2] \in Vertex
    BY StreamAssumption
  <2>2. PICK a, c : a = p[1] /\ c = p[2]
    OBVIOUS
  <2>3. a \in Vertex /\ c \in Vertex /\ Update(a, c)
    BY <1>2, <2>1, <2>2
  <2> QED
    BY <1>1, <2>3, UpdateKeeps
<1>3. ASSUME NEW call \in Calls, Call(call)
      PROVE  InStep'
  BY <1>1, <1>3, CallKeeps
<1>4. End \in Calls /\ Query(Vertex) \in Calls /\ \A a, c \in Vertex : Query({a, c}) \in Calls
  BY DEF Calls
<1>5. \/ \E p \in StreamPairs : Update(p[1], p[2])
      \/ \E a, c \in Vertex : Call(Query({a, c}))
      \/ Call(Query(Vertex))
      \/ Call(End)
  BY DEF Caller
<1>6. CASE \E a, c \in Vertex : Call(Query({a, c}))
  <2>1. PICK a, c \in Vertex : Call(Query({a, c}))
    BY <1>6
  <2>2. PICK call : call = Query({a, c})
    OBVIOUS
  <2> QED
    BY <1>3, <1>4, <2>1, <2>2
<1> QED
  BY <1>2, <1>3, <1>4, <1>5, <1>6

\* Every step keeps the nodes in step.
LEMMA NextInStep ==
  ASSUME InStep, [Next]_vars
  PROVE  InStep'
<1>1. CASE Caller
  BY <1>1, CallerKeeps
<1>2. CASE InputNext
  <2>1. UNCHANGED tierVars
    BY <1>2 DEF InputNext
  <2>2. CASE Answer
    BY <2>1, <2>2, AnswerKeeps
  <2>3. CASE EndStream
    BY <2>1, <2>3, EndStreamKeeps
  <2>4. CASE StartBatch
    BY <2>1, <2>4, StartBatchKeeps
  <2>5. CASE Undo
    BY <2>1, <2>5, UndoKeeps
  <2>6. CASE StartUpdate
    BY <2>1, <2>6, StartUpdateKeeps
  <2>7. CASE InputNotIsolated
    BY <2>1, <2>7, InputNotIsolatedKeeps
  <2>8. CASE AnswerLctQuery
    BY <2>1, <2>8, AnswerLctQueryKeeps
  <2>9. CASE ReceiveEdit
    BY <2>1, <2>9, ReceiveEditKeeps
  <2> QED
    BY <1>2, <2>2, <2>3, <2>4, <2>5, <2>6, <2>7, <2>8, <2>9 DEF InputNext, InputStep
<1>3. CASE Allreduce
  BY <1>3, AllreduceKeeps
<1>4. ASSUME NEW t \in Tier, TierNext(t)
      PROVE  InStep'
  <2>1. UNCHANGED inputVars
    BY <1>4 DEF TierNext
  <2>2. CASE ReceiveBatch(t)
    BY <2>1, <2>2, ReceiveBatchKeeps
  <2>3. CASE ReceiveEnd(t)
    BY <2>1, <2>3, ReceiveEndKeeps
  <2>4. CASE SendSizes(t)
    BY <2>1, <2>4, SendSizesKeeps
  <2>5. CASE ReceiveSizes(t)
    BY <2>1, <2>5, ReceiveSizesKeeps
  <2>6. CASE TierUndo(t)
    BY <2>1, <2>6, TierUndoKeeps
  <2>7. CASE TierStartUpdate(t)
    BY <2>1, <2>7, TierStartUpdateKeeps
  <2>8. CASE ReceiveRefresh(t)
    BY <2>1, <2>8, ReceiveRefreshKeeps
  <2>9. CASE Announce(t)
    BY <2>1, <2>9, AnnounceKeeps
  <2>10. CASE ReceiveCycle(t)
    BY <2>1, <2>10, ReceiveCycleKeeps
  <2>11. CASE LinkFound(t)
    BY <2>1, <2>11, LinkFoundKeeps
  <2>12. CASE Forward(t)
    BY <2>1, <2>12, ForwardKeeps
  <2>13. CASE Listen(t)
    BY <2>1, <2>13, ListenKeeps
  <2>14. CASE ReceiveTierEdit(t)
    BY <2>1, <2>14, ReceiveTierEditKeeps
  <2> QED
    BY <1>4, <2>2, <2>3, <2>4, <2>5, <2>6, <2>7, <2>8, <2>9, <2>10, <2>11, <2>12, <2>13, <2>14
    DEF TierNext, TierStep
<1>5. CASE Done
  BY <1>5, StutterKeeps DEF Done
<1>6. CASE UNCHANGED vars
  BY <1>6, StutterKeeps
<1> QED
  BY <1>1, <1>2, <1>3, <1>4, <1>5, <1>6 DEF Next

\* The nodes keep in step, whatever the delays and the sketches do.
THEOREM KeepsInStep == Spec => []InStep
<1>1. Init => InStep
  BY InitInStep
<1>2. InStep /\ [Next]_vars => InStep'
  BY NextInStep
<1> QED
  BY <1>1, <1>2, PTL DEF Spec

-----------------------------------------------------------------------------
(* What follows from it.                                                   *)

\* A node waits for the broadcast that its plan says comes next.
LEMMA NextRootIs ==
  ASSUME NEW view, NEW front, NEW at, Related(view, front, at), NEW r \in Rank,
         NEW root, root = Owner(view[r]), root \in Rank \ {r}, NumTiers + 1 \notin Rank
  PROVE  NextRoot(r) = root
<1>1. CASE r = 0
  <2>1. PICK s : s = view[0]
    OBVIOUS
  <2>2. InputFollows(s)
    BY <2>1 DEF Related
  <2>3. root = Owner(s) /\ root # 0
    BY <1>1, <2>1
  <2>4. s.phase \in {"turn", "edit1", "edit2"} /\ root = RankOf(s.tier)
    BY <2>3 DEF Owner
  <2>5. inp.pc \in {"undo", "start", "round", "edits"}
    BY <2>2, <2>4, InputPlace
  <2>6. CASE inp.pc \in {"undo", "start"}
    <3>1. s.tier = 1
      BY <2>2, <2>6, InputPlace DEF FirstTurn
    <3> QED
      BY <1>1, <2>4, <2>6, <3>1 DEF NextRoot
  <2>7. CASE inp.pc \in {"round", "edits"}
    <3>1. inp.tier = s.tier
      BY <2>2, <2>7 DEF InputFollows
    <3> QED
      BY <1>1, <2>4, <2>7, <3>1 DEF NextRoot
  <2> QED
    BY <2>5, <2>6, <2>7
<1>2. CASE r # 0
  <2>1. PICK t \in Tier : r = RankOf(t)
    BY <1>2, TopIs DEF RankOf
  <2>2. PICK s, x : s = view[r] /\ x = node[t]
    OBVIOUS
  <2>3. r - 1 = t
    BY <2>1, TopIs DEF RankOf
  <2>4. TierFollows(t, s) /\ root = Owner(s) /\ root # r
    BY <2>1, <2>2 DEF Related
  <2>5. /\ x.pc = "batch" => s.phase = "idle"
        /\ x.pc \in {"sizes", "sizes2", "allreduce"} => TierReduces(t, s)
        /\ x.pc \in {"undo", "start"} => TierStarts(t, s)
        /\ x.pc \in {"refresh", "forward", "announce", "lct", "link", "listen", "edits"} =>
             TierRefreshes(t, s)
        /\ x.pc = "done" => s.phase = "end"
        /\ x.pc \in {"batch", "sizes", "sizes2", "allreduce", "undo", "start", "refresh",
                     "forward", "announce", "lct", "link", "listen", "edits", "done"}
    BY <2>2, <2>4, PlaceOf
  <2>6. r = t + 1 /\ t \in Nat
    BY <2>1, TopIs DEF RankOf
  <2>7. CASE x.pc = "batch"
    <3>1. root = 0
      BY <2>4, <2>5, <2>7 DEF Owner
    <3> QED
      BY <1>2, <2>2, <2>3, <2>7, <3>1 DEF NextRoot
  <2>8. CASE x.pc \in {"sizes", "sizes2", "allreduce", "done"}
    <3>1. s.phase \in {"reduce", "end"}
      BY <2>5, <2>8 DEF TierReduces
    <3>2. root = NumTiers + 1
      BY <2>4, <3>1 DEF Owner
    <3> QED
      BY <3>2
  <2>9. CASE x.pc \in {"undo", "start"}
    <3>1. s.phase = "turn" /\ s.tier = 1
      BY <2>5, <2>9 DEF TierStarts, FirstTurn
    <3>2. root = RankOf(1)
      BY <2>4, <3>1 DEF Owner
    <3> QED
      BY <1>2, <2>2, <2>3, <2>9, <3>2 DEF NextRoot
  <2>10. CASE x.pc = "refresh"
    <3>1. FirstTurn(s, IF t = 0 THEN 1 ELSE t)
      BY <2>2, <2>5, <2>10 DEF TierRefreshes
    <3>2. s.phase = "turn" /\ s.tier = IF t = 0 THEN 1 ELSE t
      BY <3>1 DEF FirstTurn
    <3>3. root = RankOf(s.tier)
      BY <2>4, <3>2 DEF Owner
    <3>4. t = 0 /\ root = r + 1 /\ r = RankOf(0)
      BY <2>1, <2>4, <2>6, <3>2, <3>3 DEF RankOf
    <3> QED
      BY <1>2, <2>2, <2>3, <2>10, <3>4 DEF NextRoot
  <2>11. CASE x.pc = "forward"
    <3>1. FirstTurn(s, t + 1)
      BY <2>2, <2>5, <2>11 DEF TierRefreshes
    <3>2. root = RankOf(t + 1)
      BY <2>4, <3>1 DEF Owner, FirstTurn
    <3>3. root = r + 1
      BY <2>6, <3>2 DEF RankOf
    <3> QED
      BY <1>2, <2>2, <2>3, <2>11, <3>3 DEF NextRoot
  <2>12. CASE x.pc \in {"announce", "lct", "link"}
    <3>1. s.tier = t /\ s.phase \in {"turn", "edit1", "edit2"}
      BY <2>2, <2>5, <2>12 DEF TierRefreshes
    <3>2. root = r
      BY <2>1, <2>4, <3>1 DEF Owner
    <3> QED
      BY <2>4, <3>2
  <2>13. CASE x.pc \in {"listen", "edits"}
    <3>1. x.tier = s.tier /\ s.phase \in {"turn", "edit1", "edit2"}
      BY <2>2, <2>5, <2>13 DEF TierRefreshes
    <3>2. root = RankOf(x.tier)
      BY <2>4, <3>1 DEF Owner
    <3> QED
      BY <1>2, <2>2, <2>3, <2>13, <3>2 DEF NextRoot
  <2> QED
    BY <2>5, <2>7, <2>8, <2>9, <2>10, <2>11, <2>12, <2>13
<1> QED
  BY <1>1, <1>2

\* Nodes in step agree on the next broadcast.
LEMMA InStepMatches ==
  ASSUME InStep
  PROVE  CollectivesMatch
<1>1. PICK view, front, at : Log(view, front, at) /\ Related(view, front, at)
  BY DEF InStep
<1>2. SUFFICES ASSUME NEW r \in Rank, bcasts[r] # <<>>
               PROVE  Head(bcasts[r]).root = NextRoot(r)
  BY DEF CollectivesMatch
<1>3. ~at[r] /\ Legal(view[r], Head(bcasts[r])) /\ Head(bcasts[r]).root \in Rank \ {r}
  BY <1>1, <1>2, LogView
<1>4. PICK root : root = Owner(view[r])
  OBVIOUS
<1>5. root = Head(bcasts[r]).root /\ root \in Rank \ {r}
  BY <1>3, <1>4 DEF Legal
<1>6. NumTiers + 1 \notin Rank
  BY TopIs
<1> QED
  BY <1>1, <1>4, <1>5, <1>6, NextRootIs

\* Between two batches all ranks have replayed the whole log.
LEMMA AllAtQuiet ==
  ASSUME NEW view, NEW front, NEW at, Log(view, front, at), Related(view, front, at), Quiet
  PROVE  /\ Good(front) /\ front.phase = "idle" /\ InputFollows(front)
         /\ \A r \in Rank : at[r] /\ bcasts[r] = <<>>
         /\ \A t \in Tier : ett[t] = Below(front.L, t) /\ sketch[t] = front.G
         /\ lct = front.L /\ queryEtt = DOMAIN lct /\ graph = front.G
<1>1. /\ inp.pc = "fill" /\ inp.buffer = <<>> /\ \A t \in Tier : node[t].pc = "batch"
  BY DEF Quiet
<1>2. InputFollows(view[0]) /\ \A t \in Tier : TierFollows(t, view[RankOf(t)])
  BY DEF Related
<1>3. view[0].phase = "idle"
  BY <1>1, <1>2, InputPlace
<1>4. \A t \in Tier : view[RankOf(t)].phase = "idle"
  BY <1>1, <1>2, PlaceOf
<1>5. ASSUME NEW r \in Rank
      PROVE  at[r] /\ view[r] = front /\ bcasts[r] = <<>>
  <2>1. r = 0 \/ (r - 1 \in Tier /\ RankOf(r - 1) = r)
    BY TopIs DEF RankOf
  <2>2. view[r].phase = "idle"
    BY <1>3, <1>4, <2>1
  <2>3. at[r] /\ view[r] = front
    BY <1>3, <2>2, LogQuiet
  <2> QED
    BY <2>3, LogView
<1>6. 0 \in Rank /\ \A t \in Tier : RankOf(t) \in Rank
  BY TopIs DEF RankOf
<1>7. Good(front) /\ front.phase = "idle" /\ InputFollows(front)
  BY <1>2, <1>3, <1>5, <1>6, LogView
<1>8. \A t \in Tier : ett[t] = Below(front.L, t) /\ sketch[t] = front.G
  BY <1>1, <1>2, <1>5, <1>6, PlaceOf
<1>9. PICK s, x : s = front /\ x = inp
  OBVIOUS
<1>10. /\ queryEtt = DOMAIN lct /\ s.G \in SUBSET Edge /\ lct = s.L
       /\ graph = SketchAfter(s.G, x.buffer, 1 .. Len(x.buffer))
  BY <1>1, <1>7, <1>9, IdleIs
<1>11. graph = s.G
  <2>1. SketchAfter(s.G, x.buffer, {}) = s.G
    BY <1>10, SketchEmpty
  <2>2. 1 .. Len(x.buffer) = {}
    BY <1>1, <1>9
  <2> QED
    BY <1>10, <2>1, <2>2
<1> QED
  BY <1>5, <1>7, <1>8, <1>9, <1>10, <1>11

\* The queues between two ranks are empty between two batches.
LEMMA SilentAtQuiet ==
  ASSUME NEW front, NEW at, MessagesFit(front, at), front.phase = "idle",
         \A t \in Tier : node[t].pc = "batch"
  PROVE  \A r, s \in Rank : p2p[r][s] = <<>>
<1>1. ASSUME NEW t \in 0 .. Top - 1
      PROVE  p2p[RankOf(t + 1)][RankOf(t)] = <<>>
  <2>1. t + 1 \in Tier
    BY TopIs
  <2>2. ~SentSizes(t + 1)
    BY <2>1 DEF SentSizes
  <2>3. SizesSent(t, front)
    BY DEF MessagesFit
  <2> QED
    BY <2>2, <2>3 DEF SizesSent
<1>2. ASSUME NEW T \in Tier
      PROVE  p2p[T][RankOf(T)] = <<>>
  <2>1. ~SentRefresh(T, front, at)
    BY DEF SentRefresh, FirstTurn
  <2>2. RefreshSent(T, front, at)
    BY DEF MessagesFit
  <2> QED
    BY <2>1, <2>2 DEF RefreshSent
<1>3. ASSUME NEW T \in 1 .. Top
      PROVE  p2p[0][RankOf(T)] = <<>>
  <2>1. AnswerSent(T, front, at)
    BY DEF MessagesFit
  <2> QED
    BY <2>1 DEF AnswerSent
<1>4. ASSUME NEW r \in Rank, NEW s \in Rank
      PROVE  p2p[r][s] = <<>>
  <2>1. CASE s = r + 1
    <3>1. r \in Tier /\ RankOf(r) = s
      BY <2>1, TopIs DEF RankOf
    <3> QED
      BY <1>2, <3>1
  <2>2. CASE r = s + 1 /\ s # 0
    <3>1. s - 1 \in 0 .. Top - 1 /\ RankOf((s - 1) + 1) = r /\ RankOf(s - 1) = s
      BY <2>2, TopIs DEF RankOf
    <3> QED
      BY <1>1, <3>1
  <2>3. CASE r = 0 /\ s > 1
    <3>1. s - 1 \in 1 .. Top /\ RankOf(s - 1) = s
      BY <2>3, TopIs DEF RankOf
    <3> QED
      BY <1>3, <2>3, <3>1
  <2>4. CASE ~(s = r + 1) /\ ~(r = s + 1 /\ s # 0) /\ ~(r = 0 /\ s > 1)
    BY <2>4 DEF MessagesFit, OthersSilent
  <2> QED
    BY <2>1, <2>2, <2>3, <2>4
<1> QED
  BY <1>4

\* Nodes in step leave no message over.
LEMMA InStepLeavesNothing ==
  ASSUME InStep
  PROVE  NothingLeftOver
<1>1. PICK view, front, at : Log(view, front, at) /\ Related(view, front, at)
  BY DEF InStep
<1>2. SUFFICES ASSUME Quiet
               PROVE  Silent
  BY DEF NothingLeftOver
<1>3. front.phase = "idle" /\ \A r \in Rank : bcasts[r] = <<>>
  BY <1>1, <1>2, AllAtQuiet
<1>4. \A r, s \in Rank : p2p[r][s] = <<>>
  <2>1. MessagesFit(front, at) /\ \A t \in Tier : node[t].pc = "batch"
    BY <1>1, <1>2 DEF Related, Quiet
  <2> QED
    BY <1>3, <2>1, SilentAtQuiet
<1> QED
  BY <1>3, <1>4 DEF Silent

\* So they have when all are about to apply the same update.
LEMMA AllAtAligned ==
  ASSUME NEW view, NEW front, NEW at, Log(view, front, at), Related(view, front, at), Aligned
  PROVE  /\ Good(front) /\ FirstTurn(front, 1) /\ InputFollows(front) /\ inp.pc = "start"
         /\ \A t \in Tier : TierStarts(t, front) /\ node[t].pc = "start"
<1>1. inp.pc = "start" /\ \A t \in Tier : node[t].pc = "start"
  BY DEF Aligned
<1>2. InputFollows(view[0]) /\ (\A t \in Tier : TierFollows(t, view[RankOf(t)])) /\ StartersAt(at)
  BY DEF Related
<1>3. 0 \in Rank /\ 0 \in Tier /\ \A t \in Tier : RankOf(t) \in Rank
  BY TopIs DEF RankOf
<1>4. at[0] /\ at[RankOf(0)]
  BY <1>1, <1>2, <1>3 DEF StartersAt
<1>5. view[0] = front /\ view[RankOf(0)] = front /\ Good(front)
  BY <1>3, <1>4, LogView
<1>6. FirstTurn(front, 1)
  BY <1>1, <1>2, <1>5, InputPlace
<1>7. \A t \in Tier : TierStarts(t, view[RankOf(t)])
  BY <1>1, <1>2, PlaceOf
<1>8. ASSUME NEW t \in Tier
      PROVE  view[RankOf(t)] = front
  <2>1. CASE t = 0
    BY <1>5, <2>1
  <2>2. CASE t # 0
    <3>1. t \in 1 .. Top
      BY <2>2, TopIs
    <3>2. FirstTurn(view[RankOf(t)], 1)
      BY <1>7 DEF TierStarts
    <3> QED
      BY <1>6, <3>1, <3>2, LogAligned
  <2> QED
    BY <2>1, <2>2
<1> QED
  BY <1>1, <1>2, <1>5, <1>6, <1>7, <1>8

\* Nodes in step have forests that agree.
LEMMA InStepForests ==
  ASSUME InStep
  PROVE  ForestsAgree
<1>1. PICK view, front, at : Log(view, front, at) /\ Related(view, front, at)
  BY DEF InStep
<1>2. queryEtt = DOMAIN lct
  BY <1>1 DEF Related, InputFollows
<1>3. ASSUME Quiet, NEW t \in Tier
      PROVE  ett[t] = {e \in DOMAIN lct : lct[e] <= t}
  <2>1. ett[t] = Below(front.L, t) /\ lct = front.L
    BY <1>1, <1>3, AllAtQuiet
  <2> QED
    BY <2>1 DEF Below
<1>4. ASSUME Aligned, NEW t \in Tier
      PROVE  ett[t] = {e \in DOMAIN lct : lct[e] <= t}
  <2>1. /\ InputFollows(front) /\ inp.pc = "start" /\ TierStarts(t, front)
        /\ node[t].pc = "start"
    BY <1>1, <1>4, AllAtAligned
  <2>2. lct = front.prev
    BY <2>1 DEF InputFollows
  <2>3. ett[t] = Below(front.prev, t)
    BY <2>1 DEF TierStarts
  <2> QED
    BY <2>2, <2>3 DEF Below
<1> QED
  BY <1>2, <1>3, <1>4 DEF ForestsAgree

\* Nodes in step have sketches that agree.
LEMMA InStepSketches ==
  ASSUME InStep
  PROVE  SketchesAgree
<1>1. PICK view, front, at : Log(view, front, at) /\ Related(view, front, at)
  BY DEF InStep
<1>2. ASSUME Quiet, NEW t \in Tier
      PROVE  SketchAfter(sketch[t], inp.buffer, Remaining) = graph
  <2>1. sketch[t] = front.G /\ graph = front.G /\ Good(front)
    BY <1>1, <1>2, AllAtQuiet
  <2>2. ~Aligned
    BY <1>2 DEF Quiet, Aligned
  <2>3. front.G \in SUBSET Edge
    BY <2>1 DEF Good
  <2>4. SketchAfter(front.G, inp.buffer, {}) = front.G
    BY <2>3, SketchEmpty
  <2> QED
    BY <2>1, <2>2, <2>4 DEF Remaining
<1>3. ASSUME Aligned, NEW t \in Tier
      PROVE  SketchAfter(sketch[t], inp.buffer, Remaining) = graph
  <2>1. /\ Good(front) /\ InputFollows(front) /\ inp.pc = "start" /\ TierStarts(t, front)
        /\ node[t].pc = "start" /\ FirstTurn(front, 1)
    BY <1>1, <1>3, AllAtAligned
  <2>2. PICK G, b, k, n, H : /\ G = front.G /\ b = front.b /\ k = front.idx /\ n = Len(b)
                             /\ H = Toggle(G, EdgeOf(b[k]))
    OBVIOUS
  <2>3. /\ b \in Seq(UpdateMessage) /\ G \in SUBSET Edge /\ k \in 1 .. n /\ n \in Nat /\ k \in Int
        /\ EdgeOf(b[k]) \in Edge
    BY <2>1, <2>2 DEF Good, FirstTurn
  <2>4. sketch[t] = H
    BY <2>1, <2>2 DEF TierStarts
  <2>5. inp.buffer = b /\ inp.idx = k /\ graph = SketchAfter(G, b, k + 1 .. n)
    BY <2>1, <2>2 DEF InputFollows
  <2>6. Remaining = k .. n
    BY <1>3, <2>2, <2>5 DEF Remaining
  <2>7. PICK S, T : S = {k} /\ T = k + 1 .. n
    OBVIOUS
  <2>8. IsFiniteSet(S) /\ IsFiniteSet(T) /\ S \cap T = {} /\ S \cup T = k .. n
    <3>1. k + 1 \in Int /\ n \in Int
      BY <2>3
    <3>2. IsFiniteSet(k .. k) /\ IsFiniteSet(k + 1 .. n)
      BY <2>3, <3>1, IntervalFinite
    <3>3. k .. k = {k}
      BY <2>3
    <3> QED
      BY <2>3, <2>7, <3>2, <3>3
  <2>9. H \in SUBSET Edge
    BY <2>2, <2>3 DEF Toggle
  <2>10. SketchAfter(H, b, S) = G
    <3>1. SketchAfter(H, b, {k}) = Toggle(H, EdgeOf(b[k]))
      BY <2>3, <2>9, SketchOne
    <3>2. Toggle(H, EdgeOf(b[k])) = G
      BY <2>2, ToggleTwice
    <3> QED
      BY <2>7, <3>1, <3>2
  <2>11. SketchAfter(SketchAfter(H, b, S), b, T) = SketchAfter(H, b, S \cup T)
    BY <2>8, SketchUnion
  <2> QED
    BY <2>4, <2>5, <2>6, <2>7, <2>8, <2>10, <2>11
<1> QED
  BY <1>2, <1>3 DEF SketchesAgree

\* The link-cut tree is a forest, with weights that are tiers, in every state.
LEMMA LinkCutTreeIs ==
  ASSUME NEW s, Good(s), InputFollows(s)
  PROVE  Weighted(lct) /\ Acyclic(DOMAIN lct)
<1>1. /\ Weighted(s.L) /\ Weighted(s.prev) /\ Acyclic(DOMAIN s.L) /\ Acyclic(DOMAIN s.prev)
  BY DEF Good
<1>2. CASE inp.pc = "allreduce"
  <2>1. lct = Kept(s, Len(s.b)) /\ s.phase = "reduce"
    BY <1>2 DEF InputFollows, Kept
  <2>2. Len(s.b) \in 0 .. Len(s.b)
    BY DEF Good
  <2> QED
    BY <2>1, <2>2, KeptIs
<1>3. CASE inp.pc = "undo"
  <2>1. Weighted(lct) /\ DOMAIN lct \in SUBSET DOMAIN s.prev
    BY <1>3 DEF InputFollows
  <2> QED
    BY <1>1, <2>1, AcyclicSubset
<1>4. CASE inp.pc \notin {"allreduce", "undo"}
  <2>1. lct = s.L \/ lct = s.prev
    BY <1>4 DEF InputFollows
  <2> QED
    BY <1>1, <2>1
<1> QED
  BY <1>2, <1>3, <1>4

\* Nodes in step have a spanning forest of the graph.
LEMMA InStepSpanning ==
  ASSUME InStep
  PROVE  SpanningForest
<1>1. PICK view, front, at : Log(view, front, at) /\ Related(view, front, at)
  BY DEF InStep
<1>2. Acyclic(DOMAIN lct)
  <2>1. Good(view[0]) /\ InputFollows(view[0])
    <3>1. 0 \in Rank
      BY TopIs
    <3> QED
      BY <1>1, <3>1, LogView DEF Related
  <2> QED
    BY <2>1, LinkCutTreeIs
<1>3. ASSUME Quiet
      PROVE  DOMAIN lct \subseteq graph
  <2>1. Good(front) /\ lct = front.L /\ graph = front.G
    BY <1>1, <1>3, AllAtQuiet
  <2> QED
    BY <2>1 DEF Good
<1> QED
  BY <1>2, <1>3 DEF SpanningForest

\* Nodes in step leave no tree isolated.
LEMMA InStepNotIsolated ==
  ASSUME InStep
  PROVE  NoIsolation
<1>1. PICK view, front, at : Log(view, front, at) /\ Related(view, front, at)
  BY DEF InStep
<1>2. SUFFICES ASSUME Quiet, NEW t \in 0 .. Top - 1, NEW v \in Vertex
               PROVE  \/ TreeSize(ett[t], v) # TreeSize(ett[t + 1], v)
                      \/ Sampled(t, sketch[t], ett[t], v) = {}
  BY DEF NoIsolation
<1>3. front.phase = "idle" /\ \A u \in Tier : ett[u] = Below(front.L, u) /\ sketch[u] = front.G
  BY <1>1, <1>2, AllAtQuiet
<1>4. Ahead(front)
  <2>1. 0 \in Rank
    BY TopIs
  <2> QED
    BY <1>1, <2>1, LogView
<1>5. ~IsolatedIn(front.L, front.G, t, v)
  BY <1>3, <1>4 DEF Ahead, NoneIsolated
<1>6. t \in Tier /\ t + 1 \in Tier
  BY TopIs
<1> QED
  BY <1>3, <1>5, <1>6 DEF IsolatedIn

\* The collective calls match in every state.
THEOREM CollectivesMatchAlways == Spec => []CollectivesMatch
BY KeepsInStep, InStepMatches, PTL

\* No message outlives its batch.
THEOREM NothingLeftOverAlways == Spec => []NothingLeftOver
BY KeepsInStep, InStepLeavesNothing, PTL

\* The forests agree between batches and before each update.
THEOREM ForestsAgreeAlways == Spec => []ForestsAgree
BY KeepsInStep, InStepForests, PTL

\* The sketches agree with the stream's graph.
THEOREM SketchesAgreeAlways == Spec => []SketchesAgree
BY KeepsInStep, InStepSketches, PTL

\* The link-cut tree never gets a cycle.
THEOREM SpanningForestAlways == Spec => []SpanningForest
BY KeepsInStep, InStepSpanning, PTL

\* Between batches no tree of any tier is isolated.
THEOREM NoIsolationAlways == Spec => []NoIsolation
BY KeepsInStep, InStepNotIsolated, PTL

\* What a query reads off a part of the graph is true of the graph.
LEMMA BlocksSound ==
  ASSUME NEW G \in SUBSET Edge, NEW F \in SUBSET G, NEW Q \in SUBSET Vertex, NEW B \in Blocks(F, Q),
         NEW u \in B, NEW v \in B
  PROVE  Connected(G, u, v) /\ B \in SUBSET Vertex
<1>1. PICK w \in Q : B = Component(F, w) \cap Q
  BY DEF Blocks
<1>2. u \in Component(F, w) /\ v \in Component(F, w) /\ u \in Vertex /\ v \in Vertex /\ w \in Vertex
  BY <1>1
<1>3. F \in SUBSET Edge
  OBVIOUS
<1>4. Component(F, u) = Component(F, w)
  BY <1>2, <1>3, ComponentEqual
<1>5. v \in Component(F, u)
  BY <1>2, <1>4
<1>6. Component(F, u) \subseteq Component(G, u)
  BY ComponentMonotone
<1> QED
  BY <1>1, <1>5, <1>6 DEF Connected

\* An answer is a set of sets of vertices.
LEMMA BlocksIn ==
  ASSUME NEW F, NEW Q \in SUBSET Vertex
  PROVE  Blocks(F, Q) \in SUBSET (SUBSET Vertex)
BY DEF Blocks

\* The answer to the last query is true of the graph, which is the one it was
\* asked about.
AnswersHold == answer \in SUBSET (SUBSET Vertex) /\ SoundAnswers

\* The answer to a query is true.
LEMMA AnswerHolds ==
  ASSUME InStep, Answer
  PROVE  AnswersHold'
<1>1. PICK view, front, at : Log(view, front, at) /\ Related(view, front, at)
  BY DEF InStep
<1>2. PICK s, x : s = view[0] /\ x = inp
  OBVIOUS
<1>3. Good(s) /\ InputFollows(s)
  <2>1. 0 \in Rank
    BY TopIs
  <2> QED
    BY <1>1, <1>2, <2>1, LogView DEF Related
<1>4. x.pc = "return" /\ x.call # End /\ answer' = Blocks(queryEtt, x.call[2]) /\ graph' = graph
  BY <1>2 DEF Answer
<1>5. /\ x.call \in {NoCall, End} \cup {Query(Q) : Q \in SUBSET Vertex}
      /\ queryEtt = DOMAIN lct /\ s.G \in SUBSET Edge
      /\ graph = SketchAfter(s.G, x.buffer, 1 .. Len(x.buffer))
      /\ x.buffer = <<>> /\ x.call # NoCall /\ lct = s.L
  BY <1>2, <1>3, <1>4, IdleIs
<1>6. PICK Q \in SUBSET Vertex : x.call = Query(Q)
  BY <1>4, <1>5
<1>7. x.call[2] = Q
  BY <1>6 DEF Query
<1>8. graph = s.G
  <2>1. SketchAfter(s.G, x.buffer, {}) = s.G
    BY <1>5, SketchEmpty
  <2>2. 1 .. Len(x.buffer) = {}
    BY <1>5
  <2> QED
    BY <1>5, <2>1, <2>2
<1>9. graph \in SUBSET Edge /\ queryEtt \in SUBSET graph
  BY <1>3, <1>5, <1>8 DEF Good
<1>10. answer' = Blocks(queryEtt, Q)
  BY <1>4, <1>7
<1>11. \A B \in answer' : \A u, v \in B : Connected(graph, u, v)
  BY <1>9, <1>10, BlocksSound
<1>12. answer' \in SUBSET (SUBSET Vertex)
  BY <1>10, BlocksIn
<1> QED
  BY <1>4, <1>11, <1>12 DEF AnswersHold, SoundAnswers

\* An answer stays true until an update takes it back.
LEMMA NextAnswersHold ==
  ASSUME InStep, AnswersHold, [Next]_vars
  PROVE  AnswersHold'
<1>1. CASE graph' = graph /\ answer' = answer
  BY <1>1 DEF AnswersHold, SoundAnswers
<1>2. CASE answer' = {}
  BY <1>2 DEF AnswersHold, SoundAnswers
<1>3. CASE Answer
  BY <1>3, AnswerHolds
<1>4. CASE Caller
  BY <1>1, <1>2, <1>4 DEF Caller, Update, Call
<1>5. CASE InputNext
  BY <1>1, <1>3, <1>5 DEF InputNext, InputStep, EndStream, StartBatch, Undo, StartUpdate,
                          InputNotIsolated, AnswerLctQuery, ReceiveEdit
<1>6. CASE Allreduce
  BY <1>1, <1>6 DEF Allreduce
<1>7. CASE \E t \in Tier : TierNext(t)
  BY <1>1, <1>7 DEF TierNext, inputVars
<1>8. CASE UNCHANGED vars
  BY <1>1, <1>8 DEF vars, inputVars
<1> QED
  BY <1>4, <1>5, <1>6, <1>7, <1>8 DEF Next, Done

\* Answers are true in every state.
LEMMA AnswersHoldAlways == Spec => []AnswersHold
<1>1. Init => AnswersHold
  BY DEF Init, InputInit, AnswersHold, SoundAnswers
<1>2. InStep /\ AnswersHold /\ [Next]_vars => AnswersHold'
  BY NextAnswersHold
<1> QED
  BY <1>1, <1>2, KeepsInStep, PTL DEF Spec

\* Answers report no connection that the graph does not have.
THEOREM SoundAnswersAlways == Spec => []SoundAnswers
<1>1. AnswersHold => SoundAnswers
  BY DEF AnswersHold
<1> QED
  BY <1>1, AnswersHoldAlways, PTL

-----------------------------------------------------------------------------
(* Types.                                                                  *)

\* The input node's state has its type.
LEMMA InputTyped ==
  ASSUME NEW s, Good(s), InputFollows(s), answer \in SUBSET (SUBSET Vertex)
  PROVE  InputTypeOK
<1>1. PICK x : x = inp
  OBVIOUS
<1>2. /\ x.undo \in Seq(0 .. Top) /\ x.tier \in 1 .. Top /\ x.side \in {1, 2}
      /\ x.edits \in {0, 1} /\ queryEtt = DOMAIN lct
      /\ graph = SketchAfter(s.G, x.buffer, s.idx + 1 .. Len(x.buffer))
      /\ x.pc \in {"fill", "batch", "return", "allreduce", "undo", "start", "round", "edits", "done"}
      /\ \/ x.buffer \in Seq(UpdateMessage) /\ Len(x.buffer) <= BatchSize /\ x.idx = 0
         \/ x.buffer = s.b /\ x.idx = 0
         \/ x.buffer = s.b /\ x.idx = s.idx
         \/ x.buffer = <<>> /\ x.idx = 0
  BY <1>1 DEF InputFollows
<1>3. /\ s.b \in Seq(UpdateMessage) /\ Len(s.b) <= BatchSize /\ s.idx \in 0 .. Len(s.b)
      /\ Len(s.b) \in Nat /\ BatchSize \in Nat
  BY BatchSizeAssumption DEF Good
<1>4. x.buffer \in Seq(UpdateMessage) /\ Len(x.buffer) <= BatchSize /\ x.idx \in 0 .. NoUpdate
  <2>1. <<>> \in Seq(UpdateMessage) /\ Len(<<>>) = 0
    OBVIOUS
  <2>2. x.buffer \in Seq(UpdateMessage) /\ Len(x.buffer) <= BatchSize
    <3>1. \/ x.buffer \in Seq(UpdateMessage) /\ Len(x.buffer) <= BatchSize
          \/ x.buffer = s.b
          \/ x.buffer = <<>>
      BY <1>2
    <3>2. CASE x.buffer = <<>>
      BY <1>3, <2>1, <3>2
    <3>3. CASE x.buffer = s.b
      BY <1>3, <3>3
    <3> QED
      BY <3>1, <3>2, <3>3
  <2>3. NoUpdate = BatchSize + 1
    BY DEF NoUpdate
  <2>4. x.idx = 0 \/ x.idx = s.idx
    BY <1>2
  <2>5. x.idx \in 0 .. NoUpdate
    BY <1>3, <2>3, <2>4
  <2> QED
    BY <2>2, <2>5
<1>5. graph \subseteq Edge
  BY <1>2, SketchInEdge
<1>6. DOMAIN lct \subseteq Edge /\ lct \in [DOMAIN lct -> 1 .. Top]
  BY LinkCutTreeIs DEF Weighted
<1>7. NumTiers - 1 = Top /\ x.tier \in Tier /\ x.edits \in 0 .. 1
  BY <1>2, TopIs
<1> QED
  BY <1>1, <1>2, <1>4, <1>5, <1>6, <1>7 DEF InputTypeOK

\* A tier node's state has its type.
LEMMA TierTyped ==
  ASSUME NEW t \in Tier, NEW s, Good(s), TierFollows(t, s)
  PROVE  /\ ett[t] \in SUBSET Edge /\ sketch[t] \in SUBSET Edge
         /\ node[t].pc \in {"batch", "sizes", "sizes2", "allreduce", "undo",
                            "start", "refresh", "announce", "lct", "link",
                            "forward", "listen", "edits", "done"}
         /\ node[t].updates \in Seq(UpdateMessage)
         /\ node[t].tier \in Tier
         /\ node[t].side \in {1, 2}
         /\ node[t].edits \in 0 .. 1
         /\ node[t].idx \in 0 .. Len(node[t].updates)
         /\ Len(node[t].ends) \in {0, 2}
<1>1. PICK x : x = node[t]
  OBVIOUS
<1>2. /\ s.b \in Seq(UpdateMessage) /\ s.idx \in 0 .. Len(s.b) /\ Len(s.b) \in Nat
      /\ s.tier \in 1 .. Top /\ s.side \in {1, 2} /\ s.G \in SUBSET Edge
      /\ Weighted(s.L) /\ Weighted(s.prev)
  BY DEF Good
<1>3. \A u : Below(s.L, u) \in SUBSET Edge
  BY <1>2, BelowTop
<1>4. \A u : Below(s.prev, u) \in SUBSET Edge
  BY <1>2, BelowTop
<1>5. 0 \in Tier /\ t \in Nat /\ (\A u \in 1 .. Top : u \in Tier)
  BY TopIs
<1>6. CASE x = TierIdle \/ x = [TierIdle EXCEPT !.pc = "done"]
  <2>1. /\ x.pc \in {"batch", "done"} /\ x.updates = <<>> /\ x.tier = 0 /\ x.side = 1
        /\ x.edits = 0 /\ x.idx = 0 /\ x.ends = <<>>
    BY <1>6 DEF TierIdle
  <2>2. ett[t] = Below(s.L, t) /\ sketch[t] = s.G
    BY <1>1, <2>1, PlaceOf
  <2> QED
    BY <1>1, <1>2, <1>3, <1>5, <2>1, <2>2
<1>7. CASE TierReduces(t, s)
  <2>1. /\ x.pc \in {"sizes", "sizes2", "allreduce"} /\ x.updates = s.b /\ x.tier = 0 /\ x.side = 1
        /\ x.edits = 0 /\ x.idx = 0 /\ x.ends = <<>>
        /\ ett[t] = ForestAfter(Below(s.L, t), s.b, Len(s.b))
        /\ sketch[t] = SketchAfter(s.G, s.b, 1 .. Len(s.b))
    BY <1>1, <1>7 DEF TierReduces
  <2>2. ett[t] \in SUBSET Edge
    BY <1>3, <2>1, ForestAfterIn
  <2>3. sketch[t] \in SUBSET Edge
    BY <2>1, SketchInEdge
  <2> QED
    BY <1>1, <1>2, <1>5, <2>1, <2>2, <2>3
<1>8. CASE TierStarts(t, s)
  <2>1. /\ x.pc \in {"undo", "start"} /\ x.updates = s.b /\ x.tier = 0 /\ x.side = 1
        /\ x.edits = 0 /\ x.idx = s.idx /\ x.ends = <<>> /\ s.phase = "turn"
    BY <1>1, <1>8 DEF TierStarts, FirstTurn
  <2>2. EdgeOf(s.b[s.idx]) \in Edge
    BY <2>1 DEF Good
  <2>3. Toggle(s.G, EdgeOf(s.b[s.idx])) \in SUBSET Edge
    BY <1>2, <2>2 DEF Toggle
  <2>4. ett[t] \in SUBSET Edge /\ sketch[t] \in SUBSET Edge
    BY <1>4, <1>8, <2>3 DEF TierStarts
  <2> QED
    BY <1>1, <1>2, <1>5, <2>1, <2>4
<1>9. CASE TierRefreshes(t, s)
  <2>1. /\ x.pc \in {"refresh", "forward", "announce", "lct", "link", "listen", "edits"}
        /\ x.updates = s.b /\ x.idx = s.idx /\ x.edits \in {0, 1}
        /\ ett[t] = Below(s.L, t) /\ sketch[t] = s.G
        /\ x.tier = t \/ x.tier = s.tier
        /\ x.side \in {1, 2}
        /\ x.ends = <<>> \/ x.ends = <<x.ends[1], x.ends[2]>>
    BY <1>1, <1>2, <1>9 DEF TierRefreshes, ToldEnds, ToldSizes
  <2>2. Len(x.ends) \in {0, 2}
    <3>1. ASSUME NEW a, NEW c
          PROVE  Len(<<a, c>>) = 2
      OBVIOUS
    <3>2. Len(<<>>) = 0
      OBVIOUS
    <3>3. CASE x.ends = <<>>
      BY <3>2, <3>3
    <3>4. CASE x.ends = <<x.ends[1], x.ends[2]>>
      <4>1. PICK a, c : a = x.ends[1] /\ c = x.ends[2]
        OBVIOUS
      <4>2. x.ends = <<a, c>>
        BY <3>4, <4>1, Zenon
      <4> QED
        BY <3>1, <4>2
    <3> QED
      BY <2>1, <3>3, <3>4
  <2> QED
    BY <1>1, <1>2, <1>3, <1>5, <2>1, <2>2
<1> QED
  BY <1>1, <1>6, <1>7, <1>8, <1>9 DEF TierFollows

\* A message between two ranks is of one of the three kinds.
LEMMA MessagesTyped ==
  ASSUME NEW front, NEW at, MessagesFit(front, at), NEW r \in Rank, NEW s \in Rank,
         NEW i \in DOMAIN p2p[r][s]
  PROVE  p2p[r][s][i].kind \in {"sizes", "refresh", "lct"}
<1>1. ASSUME NEW t \in 0 .. Top - 1, NEW q, q = p2p[RankOf(t + 1)][RankOf(t)], q # <<>>
      PROVE  \E m : q = <<m>> /\ m.kind \in {"sizes", "refresh", "lct"}
  <2>1. SizesSent(t, front)
    BY DEF MessagesFit
  <2> QED
    BY <1>1, <2>1 DEF SizesSent
<1>2. ASSUME NEW T \in Tier, NEW q, q = p2p[T][RankOf(T)], q # <<>>
      PROVE  \E m : q = <<m>> /\ m.kind \in {"sizes", "refresh", "lct"}
  <2>1. RefreshSent(T, front, at)
    BY DEF MessagesFit
  <2> QED
    BY <1>2, <2>1 DEF RefreshSent
<1>3. ASSUME NEW T \in 1 .. Top, NEW q, q = p2p[0][RankOf(T)], q # <<>>
      PROVE  \E m : q = <<m>> /\ m.kind \in {"sizes", "refresh", "lct"}
  <2>1. AnswerSent(T, front, at)
    BY DEF MessagesFit
  <2>2. PICK m : q = <<m>> /\ CycleAnswer(front.L, front.edge, m)
    BY <1>3, <2>1 DEF AnswerSent
  <2>3. m.kind = "lct"
    BY <2>2 DEF CycleAnswer
  <2> QED
    BY <2>2, <2>3
<1>4. PICK q : q = p2p[r][s]
  OBVIOUS
<1>5. q # <<>>
  BY <1>4
<1>6. \E m : q = <<m>> /\ m.kind \in {"sizes", "refresh", "lct"}
  <2>1. CASE s = r + 1
    <3>1. r \in Tier /\ RankOf(r) = s
      BY <2>1, TopIs DEF RankOf
    <3> QED
      BY <1>2, <1>4, <1>5, <3>1
  <2>2. CASE r = s + 1 /\ s # 0
    <3>1. s - 1 \in 0 .. Top - 1 /\ RankOf((s - 1) + 1) = r /\ RankOf(s - 1) = s
      BY <2>2, TopIs DEF RankOf
    <3> QED
      BY <1>1, <1>4, <1>5, <3>1
  <2>3. CASE r = 0 /\ s > 1
    <3>1. s - 1 \in 1 .. Top /\ RankOf(s - 1) = s
      BY <2>3, TopIs DEF RankOf
    <3> QED
      BY <1>3, <1>4, <1>5, <2>3, <3>1
  <2>4. CASE ~(s = r + 1) /\ ~(r = s + 1 /\ s # 0) /\ ~(r = 0 /\ s > 1)
    BY <1>4, <1>5, <2>4 DEF MessagesFit, OthersSilent
  <2> QED
    BY <2>1, <2>2, <2>3, <2>4
<1>7. PICK m : q = <<m>> /\ m.kind \in {"sizes", "refresh", "lct"}
  BY <1>6
<1>8. i = 1 /\ q[i] = m
  BY <1>4, <1>7
<1> QED
  BY <1>4, <1>7, <1>8

\* Nodes in step have states of their types.
LEMMA InStepTyped ==
  ASSUME InStep, AnswersHold
  PROVE  TypeOK
<1>1. PICK view, front, at : Log(view, front, at) /\ Related(view, front, at)
  BY DEF InStep
<1>2. 0 \in Rank /\ \A t \in Tier : RankOf(t) \in Rank
  BY TopIs DEF RankOf
<1>3. InputTypeOK
  <2>1. Good(view[0]) /\ InputFollows(view[0]) /\ answer \in SUBSET (SUBSET Vertex)
    BY <1>1, <1>2, LogView DEF Related, AnswersHold
  <2> QED
    BY <2>1, InputTyped
<1>4. ASSUME NEW t \in Tier
      PROVE  Good(view[RankOf(t)]) /\ TierFollows(t, view[RankOf(t)])
  BY <1>1, <1>2, LogView DEF Related
<1>5. TierTypeOK
  <2>1. /\ seed \in Seeds /\ ett = [t \in Tier |-> ett[t]] /\ sketch = [t \in Tier |-> sketch[t]]
    BY <1>1 DEF Related
  <2>2. \A t \in Tier : ett[t] \in SUBSET Edge /\ sketch[t] \in SUBSET Edge
    BY <1>4, TierTyped
  <2>3. ett \in [Tier -> SUBSET Edge]
    BY <2>1, <2>2
  <2>4. sketch \in [Tier -> SUBSET Edge]
    BY <2>1, <2>2
  <2>5. ASSUME NEW t \in Tier
        PROVE  /\ node[t].pc \in {"batch", "sizes", "sizes2", "allreduce", "undo",
                            "start", "refresh", "announce", "lct", "link",
                            "forward", "listen", "edits", "done"}
               /\ node[t].updates \in Seq(UpdateMessage)
               /\ node[t].tier \in Tier
               /\ node[t].side \in {1, 2}
               /\ node[t].edits \in 0 .. 1
               /\ node[t].idx \in 0 .. Len(node[t].updates)
               /\ Len(node[t].ends) \in {0, 2}
    BY <1>4, TierTyped
  <2> QED
    BY <2>1, <2>3, <2>4, <2>5 DEF TierTypeOK
<1>6. \A r, s \in Rank : \A i \in DOMAIN p2p[r][s] :
        p2p[r][s][i].kind \in {"sizes", "refresh", "lct"}
  BY <1>1, MessagesTyped DEF Related
<1>7. \A r \in Rank : \A i \in DOMAIN bcasts[r] : bcasts[r][i].root \in Rank \ {r}
  BY <1>1, LogView
<1> QED
  BY <1>3, <1>5, <1>6, <1>7 DEF TypeOK

\* Types are right.
THEOREM TypeCorrect == Spec => []TypeOK
<1>1. InStep /\ AnswersHold => TypeOK
  BY InStepTyped
<1> QED
  BY <1>1, KeepsInStep, AnswersHoldAlways, PTL

-----------------------------------------------------------------------------
(* The refinement of Connectivity.                                         *)

\* Sketches that never fail.
PerfectSketches ==
  \A s \in Seeds, t \in 0 .. NumTiers - 2, cut \in SUBSET Edge :
    cut # {} => Samples(s, t, cut) # {}

\* Enough tiers: more than log2(n).
EnoughTiers == Cardinality(Vertex) < 2^NumTiers

\* In a plan that has no tree isolated, trees that an edge leaves grow from tier to tier.
LEMMA PlanGrows ==
  ASSUME NEW s, Good(s), NoneIsolated(s.L, s.G), PerfectSketches, seed \in Seeds,
         NEW f, f = [t \in 0 .. Top |-> Below(s.L, t)]
  PROVE  Growing(f, Top, s.G)
<1>1. PICK L, G : L = s.L /\ G = s.G
  OBVIOUS
<1>2. /\ Weighted(L) /\ DOMAIN L \subseteq G /\ G \in SUBSET Edge /\ NoneIsolated(L, G)
      /\ f = [t \in 0 .. Top |-> Below(L, t)]
  BY <1>1 DEF Good
<1>3. \A t : Below(L, t) \subseteq DOMAIN L
  BY <1>2, BelowTop
<1>4. \A t \in 0 .. Top : f[t] \subseteq G
  BY <1>2, <1>3
<1>5. ASSUME NEW t \in 0 .. Top - 1
      PROVE  /\ f[t] \subseteq f[t + 1]
             /\ \A v \in Vertex :
                  Incomplete(G, f[t], v) => Component(f[t], v) # Component(f[t + 1], v)
  <2>1. t \in 0 .. Top /\ t + 1 \in 0 .. Top /\ t \in 0 .. NumTiers - 2
    BY TopIs
  <2>2. f[t] = Below(L, t) /\ f[t + 1] = Below(L, t + 1)
    BY <1>2, <2>1
  <2>3. Below(L, t) \subseteq Below(L, t + 1)
    <3>1. \A e \in DOMAIN L : L[e] \in 1 .. Top
      BY <1>2 DEF Weighted
    <3>2. \A e \in DOMAIN L : L[e] <= t => L[e] <= t + 1
      BY <3>1, TopIs
    <3> QED
      BY <3>2 DEF Below
  <2>4. ASSUME NEW v \in Vertex, Incomplete(G, Below(L, t), v),
               Component(Below(L, t), v) = Component(Below(L, t + 1), v)
        PROVE  FALSE
    <3>1. TreeSize(Below(L, t), v) = TreeSize(Below(L, t + 1), v)
      BY <2>4 DEF TreeSize
    <3>2. Sampled(t, G, Below(L, t), v) # {}
      <4>1. Boundary(G, Component(Below(L, t), v)) \in SUBSET Edge
        BY <1>2 DEF Boundary
      <4> QED
        BY <2>1, <2>4, <4>1 DEF PerfectSketches, Sampled, Incomplete
    <3> QED
      BY <1>2, <3>1, <3>2 DEF NoneIsolated, IsolatedIn
  <2> QED
    BY <2>2, <2>3, <2>4
<1> QED
  BY <1>1, <1>4, <1>5 DEF Growing

\* Its top forest connects what its graph connects.
LEMMA PlanConnects ==
  ASSUME NEW s, Good(s), NoneIsolated(s.L, s.G), PerfectSketches, EnoughTiers, seed \in Seeds,
         NEW v \in Vertex
  PROVE  Component(DOMAIN s.L, v) = Component(s.G, v)
<1>1. PICK f : f = [t \in 0 .. Top |-> Below(s.L, t)]
  OBVIOUS
<1>2. PICK G, top : G = s.G /\ top = Top
  OBVIOUS
<1>3. top \in Nat /\ NumTiers = top + 1
  BY <1>2, TopIs
<1>4. Growing(f, top, G)
  BY <1>1, <1>2, PlanGrows, Zenon
<1>5. Cardinality(Vertex) < 2^(top + 1)
  BY <1>3, Zenon DEF EnoughTiers
<1>6. G \in SUBSET Edge
  BY <1>2 DEF Good
<1>7. Component(f[top], v) = Component(G, v)
  BY <1>3, <1>4, <1>5, <1>6, GrownConnect, Zenon
<1>8. f[top] = DOMAIN s.L
  <2>1. Below(s.L, Top) = DOMAIN s.L
    BY BelowTop DEF Good
  <2>2. top \in 0 .. Top
    BY <1>3, <1>2
  <2> QED
    BY <1>1, <1>2, <2>1, <2>2
<1> QED
  BY <1>2, <1>7, <1>8

\* When a query is answered the buffer is empty, and the input node knows all of the log.
LEMMA AtAnswer ==
  ASSUME InStep, inp.pc = "return"
  PROVE  \E s : /\ Good(s) /\ NoneIsolated(s.L, s.G)
                /\ queryEtt = DOMAIN s.L /\ graph = s.G
<1>1. PICK view, front, at : Log(view, front, at) /\ Related(view, front, at)
  BY DEF InStep
<1>2. PICK s, x : s = view[0] /\ x = inp
  OBVIOUS
<1>3. 0 \in Rank /\ Good(s) /\ InputFollows(s)
  <2>1. 0 \in Rank
    BY TopIs
  <2> QED
    BY <1>1, <1>2, <2>1, LogView DEF Related
<1>4. /\ queryEtt = DOMAIN lct /\ s.G \in SUBSET Edge /\ s.phase = "idle"
      /\ graph = SketchAfter(s.G, x.buffer, 1 .. Len(x.buffer))
      /\ x.buffer = <<>> /\ lct = s.L
  BY <1>2, <1>3, IdleIs
<1>5. graph = s.G
  <2>1. SketchAfter(s.G, x.buffer, {}) = s.G
    BY <1>4, SketchEmpty
  <2>2. 1 .. Len(x.buffer) = {}
    BY <1>4
  <2> QED
    BY <1>4, <2>1, <2>2
<1>6. s = front
  <2>1. Owner(view[0]) \notin Rank \ {0}
    BY <1>2, <1>4 DEF Owner
  <2> QED
    BY <1>1, <1>2, <1>3, <2>1, LogOwner
<1>7. Ahead(s)
  BY <1>1, <1>3, <1>6, LogView
<1> QED
  BY <1>3, <1>4, <1>5, <1>7 DEF Ahead

\* A query asks about some vertex.
AsksSomething == \A Q \in SUBSET Vertex : inp.call = Query(Q) => Q # {}

\* The rounds of a refresh and the end of a batch leave the call as it is.
LEMMA CallStays ==
  ASSUME NEW x, DOMAIN x = {"pc", "buffer", "undo", "idx", "tier", "side", "edits", "call"}
  PROVE  /\ Finished(x).call = x.call
         /\ NextInputRound(x).call = x.call
BY DEF Finished, NextInputRound

\* Only the caller and the answer change the call.
LEMMA CallKept ==
  ASSUME InStep, [Next]_vars, ~Caller, ~Answer
  PROVE  inp'.call = inp.call
<1>1. DOMAIN inp = {"pc", "buffer", "undo", "idx", "tier", "side", "edits", "call"}
  BY DEF InStep, Related, InputFollows, InputShape
<1>2. CASE InputNotIsolated \/ ReceiveEdit
  BY <1>1, <1>2, CallStays DEF InputNotIsolated, ReceiveEdit
<1>3. CASE EndStream \/ StartBatch \/ Undo \/ StartUpdate \/ AnswerLctQuery
  BY <1>1, <1>3 DEF EndStream, StartBatch, Undo, StartUpdate, AnswerLctQuery
<1>4. CASE Allreduce
  BY <1>1, <1>4, CallStays DEF Allreduce, InputReduced
<1>5. CASE (\E t \in Tier : TierNext(t)) \/ UNCHANGED vars
  BY <1>5 DEF TierNext, vars, inputVars
<1> QED
  BY <1>2, <1>3, <1>4, <1>5 DEF Next, InputNext, InputStep, Done

\* So every query does.
LEMMA NextAsksSomething ==
  ASSUME Vertex # {}, InStep, AsksSomething, [Next]_vars
  PROVE  AsksSomething'
<1>1. DOMAIN inp = {"pc", "buffer", "undo", "idx", "tier", "side", "edits", "call"}
  BY DEF InStep, Related, InputFollows, InputShape
<1>2. CASE Answer
  <2>1. inp'.call = NoCall
    BY <1>1, <1>2 DEF Answer
  <2>2. \A Q : NoCall # Query(Q)
    BY DEF NoCall, Query
  <2> QED
    BY <2>1, <2>2 DEF AsksSomething
<1>3. CASE Caller
  <2>1. CASE \E p \in StreamPairs : Update(p[1], p[2])
    <3>1. inp'.call = inp.call
      BY <1>1, <2>1 DEF Update
    <3> QED
      BY <3>1 DEF AsksSomething
  <2>2. ASSUME NEW call, Call(call)
        PROVE  inp'.call = call
    BY <1>1, <2>2 DEF Call
  <2>3. \A P, Q : Query(P) = Query(Q) => P = Q
    BY DEF Query
  <2>4. \A Q : Query(Q) # End
    BY DEF Query, End
  <2>5. CASE \E a, b \in Vertex : a # b /\ Call(Query({a, b}))
    <3>1. PICK a \in Vertex, b \in Vertex : Call(Query({a, b}))
      BY <2>5
    <3>2. inp'.call = Query({a, b})
      BY <2>2, <3>1
    <3> QED
      BY <2>3, <3>2 DEF AsksSomething
  <2>6. CASE Call(Query(Vertex))
    <3>1. inp'.call = Query(Vertex)
      BY <2>2, <2>6
    <3> QED
      BY <2>3, <3>1 DEF AsksSomething
  <2>7. CASE Call(End)
    <3>1. inp'.call = End
      BY <2>2, <2>7
    <3> QED
      BY <2>4, <3>1 DEF AsksSomething
  <2> QED
    BY <1>3, <2>1, <2>5, <2>6, <2>7 DEF Caller
<1>4. CASE ~Caller /\ ~Answer
  BY <1>4, CallKept DEF AsksSomething
<1> QED
  BY <1>2, <1>3, <1>4

\* Connectivity has the definitions of Forests for its own.
LEMMA SameForests ==
  /\ Promise!Edge = Edge
  /\ \A F, Q : Promise!Blocks(F, Q) = Blocks(F, Q)
  /\ \A F, e : Promise!Toggle(F, e) = Toggle(F, e)
<1>1. \A F, v : Promise!Component(F, v) = Component(F, v)
  BY DEF Promise!Component, Component, Promise!Closed, Closed
<1>2. \A F, Q : Promise!Blocks(F, Q) = Blocks(F, Q)
  BY <1>1 DEF Promise!Blocks, Blocks
<1> QED
  BY <1>2 DEF Promise!Edge, Edge, Promise!Toggle, Toggle

\* The answer to a query is the graph's.
LEMMA AnswerMaps ==
  ASSUME InStep, AsksSomething, PerfectSketches, EnoughTiers, seed \in Seeds, Answer
  PROVE  Promise!Next
<1>1. /\ inp.pc = "return" /\ inp.call # End /\ graph' = graph
      /\ answer' = Blocks(queryEtt, inp.call[2])
  BY DEF Answer
<1>2. PICK s : /\ Good(s) /\ NoneIsolated(s.L, s.G)
               /\ queryEtt = DOMAIN s.L /\ graph = s.G
  BY <1>1, AtAnswer
<1>3. PICK Q \in SUBSET Vertex : inp.call = Query(Q)
  BY <1>1 DEF InStep, Related, InputFollows
<1>4. Q # {} /\ inp.call[2] = Q
  BY <1>3 DEF AsksSomething, Query
<1>5. \A v \in Vertex : Component(queryEtt, v) = Component(graph, v)
  BY <1>2, PlanConnects
<1>6. Blocks(queryEtt, Q) = Blocks(graph, Q)
  BY <1>5, BlocksSame
<1>7. answer' = Blocks(graph, Q) /\ UNION answer' = Q
  BY <1>1, <1>4, <1>6, BlocksCover
<1>8. answer' = Promise!Blocks(graph, Q)
  BY <1>7, SameForests
<1>9. Promise!Query(Q)
  BY <1>1, <1>4, <1>8 DEF Promise!Query
<1> QED
  BY <1>7, <1>9 DEF Promise!Next

\* An update is one when the caller makes it, whenever its batch is processed.
LEMMA UpdateMaps ==
  ASSUME NEW p \in StreamPairs, Update(p[1], p[2])
  PROVE  Promise!Next
<1>1. PICK e : e = {p[1], p[2]}
  OBVIOUS
<1>2. e \in Edge /\ graph' = Toggle(graph, e) /\ answer' = {}
  BY <1>1, StreamAssumption DEF Update, Edge
<1>3. Promise!Update(e) /\ e \in Promise!Edge
  BY <1>2, SameForests DEF Promise!Update
<1> QED
  BY <1>3 DEF Promise!Next

\* Every step is one of Connectivity, or does not change the graph and the answer.
LEMMA StepMaps ==
  ASSUME InStep, AsksSomething, TypeOK, PerfectSketches, EnoughTiers, [Next]_vars
  PROVE  [Promise!Next]_(Promise!vars)
<1>1. CASE graph' = graph /\ answer' = answer
  BY <1>1 DEF Promise!vars
<1>2. CASE Answer
  <2>1. seed \in Seeds
    BY DEF TypeOK, TierTypeOK
  <2> QED
    BY <1>2, <2>1, AnswerMaps
<1>3. CASE Caller
  BY <1>1, <1>3, UpdateMaps DEF Caller, Call
<1>4. CASE InputNext
  BY <1>1, <1>2, <1>4 DEF InputNext, InputStep, EndStream, StartBatch, Undo, StartUpdate,
                          InputNotIsolated, AnswerLctQuery, ReceiveEdit
<1>5. CASE Allreduce
  BY <1>1, <1>5 DEF Allreduce
<1>6. CASE \E t \in Tier : TierNext(t)
  BY <1>1, <1>6 DEF TierNext, inputVars
<1>7. CASE UNCHANGED vars
  BY <1>1, <1>7 DEF vars, inputVars
<1> QED
  BY <1>3, <1>4, <1>5, <1>6, <1>7 DEF Next, Done

\* Every answer of the distributed program is the graph's at the time of the
\* query, however updates are buffered and batches greedily applied and undone,
\* when the sketches do not fail and there are more than log2(n) tiers.
THEOREM KeepsPromiseAlways ==
  ASSUME Vertex # {}, PerfectSketches, EnoughTiers
  PROVE  Spec => KeepsPromise
<1>1. Init => Promise!Init /\ AsksSomething
  <2>1. \A Q : NoCall # Query(Q)
    BY DEF NoCall, Query
  <2> QED
    BY <2>1 DEF Init, InputInit, Promise!Init, AsksSomething
<1>2. InStep /\ AsksSomething /\ [Next]_vars => AsksSomething'
  BY NextAsksSomething
<1>3. InStep /\ AsksSomething /\ TypeOK /\ [Next]_vars => [Promise!Next]_(Promise!vars)
  BY StepMaps
<1> QED
  BY <1>1, <1>2, <1>3, KeepsInStep, TypeCorrect, PTL DEF Spec, KeepsPromise, Promise!Spec

=============================================================================
