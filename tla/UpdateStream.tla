---------------------------- MODULE UpdateStream ----------------------------
(***************************************************************************)
(* What the readers of a stream file (include/binary_graph_stream.h)       *)
(* promise to who applies the updates: each update of the file is handed   *)
(* out once, and a query finds a prefix of the stream applied, up to the   *)
(* registered index when there is one.                                     *)
(***************************************************************************)
EXTENDS Integers

CONSTANTS
  NumEdges,   \* the updates of the file
  NoQuery     \* the limit when no query is registered

VARIABLES
  applied,    \* how often each update was handed out in this pass
  phase,      \* the client: "paused", "running" or in a "query"
  limit,      \* where the registered query is to be
  asked       \* an on-demand query was asked for

vars == <<applied, phase, limit, asked>>

Update == 0 .. NumEdges - 1

Least(m, n) == IF m < n THEN m ELSE n

IsPrefix(n) == \A i \in Update : applied[i] = IF i < n THEN 1 ELSE 0

Fresh == [i \in Update |-> 0]

Init ==
  /\ applied = Fresh
  /\ phase = "paused"
  /\ limit = NoQuery
  /\ asked = FALSE

Hand(i) ==
  /\ phase = "running"
  /\ i < limit
  /\ applied[i] = 0
  /\ applied' = [applied EXCEPT ![i] = 1]
  /\ UNCHANGED <<phase, limit, asked>>

Query ==
  /\ phase = "running"
  /\ phase' = "query"
  /\ \/ IsPrefix(Least(limit, NumEdges))
     \/ asked /\ \E n \in 0 .. Least(limit, NumEdges) : IsPrefix(n)
  /\ UNCHANGED <<applied, limit, asked>>

\* Resuming forgets the registered query too, the one that was not reached
\* included.
Resume ==
  /\ phase = "query"
  /\ phase' = "paused"
  /\ limit' = NoQuery
  /\ asked' = FALSE
  /\ UNCHANGED applied

\* A query is registered only where nothing behind it was handed out.
Register(n) ==
  /\ phase = "paused"
  /\ \A i \in Update : i >= n => applied[i] = 0
  /\ limit' = n
  /\ UNCHANGED <<applied, phase, asked>>

Start == phase = "paused" /\ phase' = "running" /\ UNCHANGED <<applied, limit, asked>>

OnDemand == phase = "running" /\ asked' = TRUE /\ UNCHANGED <<applied, phase, limit>>

Reset == phase # "running" /\ applied' = Fresh /\ UNCHANGED <<phase, limit, asked>>

Next ==
  \/ \E i \in Update : Hand(i)
  \/ \E n \in 0 .. NoQuery : Register(n)
  \/ Query \/ Resume \/ Start \/ OnDemand \/ Reset

Spec == Init /\ [][Next]_vars
=============================================================================
