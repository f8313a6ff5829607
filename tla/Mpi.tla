-------------------------------- MODULE Mpi --------------------------------
(***************************************************************************)
(* The MPI calls the nodes make (include/mpi_functions.h, MPI_Send and     *)
(* MPI_Recv): one communicator, rank 0 the input node and rank t + 1 the   *)
(* node of tier t.                                                         *)
(*                                                                         *)
(* MPI_Send and MPI_Recv: messages of one pair of ranks arrive in order.   *)
(* MPI_Bcast: the n-th collective call of one rank meets the n-th of every *)
(* other, so each rank has one queue of the broadcasts it has yet to take  *)
(* part in, whatever their root.  A call that names another root than the  *)
(* broadcast next in its queue is an error of the program: it never        *)
(* completes here.                                                         *)
(*                                                                         *)
(* MPI lets a sending call return when its message is buffered or only     *)
(* when it is received.  Both are modelled: with Buffered a sender goes on *)
(* at once, without it a sender waits until all it sent has been received. *)
(***************************************************************************)
EXTENDS Integers, Sequences

CONSTANTS
  NumTiers,    \* number of tiers, so NumTiers + 1 ranks
  Buffered     \* whether sending calls return before the message is received

\* With one tier, tier 0 would exchange sizes with a rank that does not exist.
ASSUME MpiAssumption ==
  /\ NumTiers \in Nat \ {0, 1}
  /\ Buffered \in BOOLEAN

Tier == 0 .. NumTiers - 1
Rank == 0 .. NumTiers
RankOf(t) == t + 1

VARIABLES
  p2p,      \* p2p[r][s]: messages sent by r to s and not received
  bcasts    \* bcasts[r]: broadcasts rank r has not taken part in

mpi == <<p2p, bcasts>>

MpiInit ==
  /\ p2p = [r \in Rank |-> [s \in Rank |-> <<>>]]
  /\ bcasts = [r \in Rank |-> <<>>]

\* No call of rank r is waiting for a receiver.
Returned(r) ==
  \/ Buffered
  \/ /\ \A s \in Rank : p2p[r][s] = <<>>
     /\ \A s \in Rank : \A i \in DOMAIN bcasts[s] : bcasts[s][i].root # r

Incoming(r, s) == p2p[s][r] # <<>>

IncomingFrom(r, root) == bcasts[r] # <<>> /\ Head(bcasts[r]).root = root

Received(r, s) == Head(p2p[s][r])

BcastReceived(r) == Head(bcasts[r]).msg

WithSent(c, r, s, msg) == [c EXCEPT ![r][s] = Append(@, msg)]

WithReceived(c, r, s) == [c EXCEPT ![s][r] = Tail(@)]

WithBcast(b, root, msg) ==
  [r \in Rank |->
     IF r = root THEN b[r] ELSE Append(b[r], [root |-> root, msg |-> msg])]

WithBcastReceived(b, r) == [b EXCEPT ![r] = Tail(@)]

Send(r, s, msg) == p2p' = WithSent(p2p, r, s, msg)

Receive(r, s) == p2p' = WithReceived(p2p, r, s)

Bcast(root, msg) == bcasts' = WithBcast(bcasts, root, msg)

ReceiveBcast(r) == bcasts' = WithBcastReceived(bcasts, r)

Silent == \A r \in Rank : bcasts[r] = <<>> /\ \A s \in Rank : p2p[r][s] = <<>>
=============================================================================
