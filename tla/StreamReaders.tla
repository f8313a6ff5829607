---------------------------- MODULE StreamReaders ----------------------------
(***************************************************************************)
(* BinaryGraphStream_MT and its MT_StreamReader threads                    *)
(* (include/binary_graph_stream.h).  The readers claim blocks of the file  *)
(* by fetch_add on one atomic offset, with no lock; a client stops them    *)
(* for a query at a registered index or at once, waits until each of them  *)
(* has returned BREAKPOINT, and resumes them.                              *)
(*                                                                         *)
(* Offsets count updates: header_size is 0, edge_size is 1.  An update is  *)
(* its position in the file.  Each access to an atomic another thread may  *)
(* change in the meantime is a step; query_index is stored only while the  *)
(* readers stand still, so that its loads join the step that follows.      *)
(***************************************************************************)
EXTENDS Integers, Sequences, FiniteSets

CONSTANTS
  Reader,        \* the MT_StreamReader threads
  NumEdges,      \* num_edges: the updates of the file
  BufSize,       \* buf_size: the updates of a block
  ShortReads,    \* whether pread may return less than it was asked for
  MaxRequests    \* bound: queries the client asks for, and stream resets

ASSUME StreamAssumption ==
  /\ IsFiniteSet(Reader) /\ Reader # {}
  /\ NumEdges \in Nat /\ BufSize \in Nat \ {0} /\ MaxRequests \in Nat
  /\ ShortReads \in BOOLEAN

VARIABLES
  stream,    \* its atomics: stream_off, query_index and query_block
  reader,    \* each reader's place in the code and its locals
  client,    \* what the client is doing and the requests it has made
  applied    \* how often each update was handed out

vars == <<stream, reader, client, applied>>

Update == 0 .. NumEdges - 1

\* query_index = -1: no offset gets as far.
NoQuery == NumEdges + (Cardinality(Reader) + 1) * BufSize

\* What get_edge returns from a part of the buffer that this read did not fill.
Garbage == NumEdges

Least(m, n) == IF m < n THEN m ELSE n

Idle(at) ==
  [at |-> at, off |-> 0, want |-> 0, buf |-> <<>>, next |-> 0, inBuf |-> 0]

Init ==
  /\ stream = [off |-> 0, index |-> NoQuery, block |-> FALSE]
  /\ reader = [r \in Reader |-> Idle("stopped")]
  /\ client = [phase |-> "paused", requests |-> 0]
  /\ applied = [i \in Update |-> 0]

-----------------------------------------------------------------------------
(* MT_StreamReader::get_edge and read_data.                                *)

At(r, place) == client.phase = "running" /\ reader[r].at = place

Goto(r, place) == reader' = [reader EXCEPT ![r].at = place]

\* Slip: get_edge tries again until there is data.
Slip_Breakpoint(r) == reader' = [reader EXCEPT ![r] = Idle("block?")]

\* read_data returned 0: the reader returns BREAKPOINT to the client.
Breakpoint(r) == reader' = [reader EXCEPT ![r] = Idle("stopped")]

\* get_edge: the next update of the buffer.
Hand(r) ==
  LET me == reader[r]
      i == IF me.next < Len(me.buf) THEN me.buf[me.next + 1] ELSE Garbage
  IN  /\ At(r, "get")
      /\ me.next < me.inBuf
      /\ reader' = [reader EXCEPT ![r].next = @ + 1]
      /\ applied' = IF i = Garbage THEN applied ELSE [applied EXCEPT ![i] = @ + 1]
      /\ UNCHANGED <<stream, client>>

Refill(r) ==
  /\ At(r, "get")
  /\ reader[r].next >= reader[r].inBuf
  /\ reader' = [reader EXCEPT ![r] = Idle("block?")]
  /\ UNCHANGED <<stream, client, applied>>

\* The three conditions of the first check, in the order they are evaluated.
Check(r, place, stop, next) ==
  /\ At(r, place)
  /\ IF stop THEN Breakpoint(r) ELSE Goto(r, next)
  /\ UNCHANGED <<stream, client, applied>>

CheckBlock(r) == Check(r, "block?", stream.block, "end?")
\* Slip: the end of the file is found only by the check behind the fetch_add.
Slip_CheckEnd(r) == Check(r, "end?", FALSE, "query?")

CheckEnd(r) == Check(r, "end?", stream.off >= NumEdges, "query?")
CheckQuery(r) == Check(r, "query?", stream.off >= stream.index, "claim")

\* fetch_add
Claim(r) ==
  /\ At(r, "claim")
  /\ reader' = [reader EXCEPT ![r].at = "compare", ![r].off = stream.off]
  /\ stream' = [stream EXCEPT !.off = @ + BufSize]
  /\ UNCHANGED <<client, applied>>

\* How much of the block at off is read: up to the query, up to the end.
Wanted(off, end) == Least(off + BufSize, Least(end, NumEdges)) - off

Compare(r) ==
  LET off == reader[r].off IN
  /\ At(r, "compare")
  /\ IF off >= stream.index THEN Goto(r, "restore")
     ELSE IF off >= NumEdges THEN Breakpoint(r)
     ELSE IF stream.index < off + BufSize THEN Goto(r, "truncate")
     ELSE reader' = [reader EXCEPT ![r].at = "read", ![r].want = Wanted(off, NoQuery)]
  /\ UNCHANGED <<stream, client, applied>>

\* Slip: the offset stays behind the query.
Slip_Restore(r) ==
  /\ At(r, "restore")
  /\ Breakpoint(r)
  /\ UNCHANGED <<stream, client, applied>>

\* The block is behind the query: the offset goes back to it.
Restore(r) ==
  /\ At(r, "restore")
  /\ stream' = [stream EXCEPT !.off = stream.index]
  /\ Breakpoint(r)
  /\ UNCHANGED <<client, applied>>

\* Slip: the whole block is read although the query is in it.
Slip_Truncate(r) ==
  /\ At(r, "truncate")
  /\ stream' = [stream EXCEPT !.off = stream.index]
  /\ reader' = [reader EXCEPT ![r].at = "read",
                              ![r].want = Wanted(reader[r].off, NoQuery)]
  /\ UNCHANGED <<client, applied>>

\* The query is in the block.
Truncate(r) ==
  /\ At(r, "truncate")
  /\ stream' = [stream EXCEPT !.off = stream.index]
  /\ reader' = [reader EXCEPT ![r].at = "read",
                              ![r].want = Wanted(reader[r].off, stream.index)]
  /\ UNCHANGED <<client, applied>>

\* Once round the pread loop; inBuf is data_read.  Every pread asks for the
\* whole of data_to_read and stores what it gets at the start of the buffer.
Pread(r) ==
  LET me == reader[r]
      left == Least(me.want, NumEdges - (me.off + me.inBuf))
  IN  /\ At(r, "read")
      /\ \E n \in IF ShortReads THEN 1 .. left ELSE {left} :
           LET got == [j \in 1 .. n |-> me.off + me.inBuf + j - 1] IN
           reader' = [reader EXCEPT
             ![r].buf = got \o SubSeq(me.buf, n + 1, Len(me.buf)),
             ![r].inBuf = @ + n,
             ![r].at = IF me.inBuf + n < me.want THEN "read" ELSE "get"]
      /\ UNCHANGED <<stream, client, applied>>

Step(r) ==
  \/ Hand(r) \/ Refill(r) \/ CheckBlock(r) \/ CheckEnd(r) \/ CheckQuery(r)
  \/ Claim(r) \/ Compare(r) \/ Restore(r) \/ Truncate(r) \/ Pread(r)

-----------------------------------------------------------------------------
(* The client, as the comments of the class ask it to behave.              *)

Request == client.requests < MaxRequests

Start ==
  /\ client.phase = "paused"
  /\ client' = [client EXCEPT !.phase = "running"]
  /\ reader' = [r \in Reader |-> Idle("get")]
  /\ UNCHANGED <<stream, applied>>

\* register_query: before any reader runs, or before it runs again.
Register(n) ==
  /\ Request
  /\ client.phase = "paused"
  /\ n > stream.off
  /\ stream' = [stream EXCEPT !.index = n]
  /\ client' = [client EXCEPT !.requests = @ + 1]
  /\ UNCHANGED <<reader, applied>>

OnDemand ==
  /\ Request
  /\ client.phase = "running"
  /\ stream' = [stream EXCEPT !.block = TRUE]
  /\ client' = [client EXCEPT !.requests = @ + 1]
  /\ UNCHANGED <<reader, applied>>

\* The client queries when every reader has returned BREAKPOINT.
Query ==
  /\ client.phase = "running"
  /\ \A r \in Reader : reader[r].at = "stopped"
  /\ client' = [client EXCEPT !.phase = "query"]
  /\ UNCHANGED <<stream, reader, applied>>

\* Slip: the registered query is kept.
Slip_Resume ==
  /\ client.phase = "query"
  /\ stream' = [stream EXCEPT !.block = FALSE]
  /\ client' = [client EXCEPT !.phase = "paused"]
  /\ UNCHANGED <<reader, applied>>

\* post_query_resume
Resume ==
  /\ client.phase = "query"
  /\ stream' = [stream EXCEPT !.block = FALSE, !.index = NoQuery]
  /\ client' = [client EXCEPT !.phase = "paused"]
  /\ UNCHANGED <<reader, applied>>

\* stream_reset: the next pass over the file.
Reset ==
  /\ Request
  /\ client.phase # "running"
  /\ stream' = [stream EXCEPT !.off = 0]
  /\ applied' = [i \in Update |-> 0]
  /\ client' = [client EXCEPT !.requests = @ + 1]
  /\ UNCHANGED reader

Next ==
  \/ \E r \in Reader : Step(r)
  \/ \E n \in 0 .. NumEdges + 1 : Register(n)
  \/ Start \/ OnDemand \/ Query \/ Resume \/ Reset

Spec == Init /\ [][Next]_vars

\* Every thread gets to run, and the client goes on with what it has begun.
\* It need not ask for queries.
Fairness ==
  /\ \A r \in Reader : WF_vars(Step(r))
  /\ WF_vars(Start) /\ WF_vars(Query) /\ WF_vars(Resume)

FairSpec == Spec /\ Fairness

-----------------------------------------------------------------------------
(* Properties.                                                             *)

\* Types, for every state.
TypeOK ==
  /\ stream \in [off : 0 .. NoQuery, index : 1 .. NoQuery, block : BOOLEAN]
  /\ reader \in [Reader ->
       [at : {"stopped", "get", "block?", "end?", "query?", "claim", "compare",
              "restore", "truncate", "read"},
        off : 0 .. NoQuery, want : 0 .. BufSize, buf : Seq(Update),
        next : 0 .. 2 * BufSize, inBuf : 0 .. 2 * BufSize]]
  /\ client \in [phase : {"paused", "running", "query"},
                 requests : 0 .. MaxRequests]
  /\ applied \in [Update -> Nat]

\* What a reader has claimed and not yet handed out.
Holds(r) ==
  LET me == reader[r]
      below(n) == {i \in Update : me.off <= i /\ i < n /\ i < stream.index}
  IN  CASE me.at \in {"compare", "truncate"} -> below(me.off + BufSize)
        [] me.at = "read" -> below(me.off + me.want)
        [] me.at = "get" -> {me.buf[j] : j \in me.next + 1 .. Len(me.buf)}
        [] OTHER -> {}

\* However the readers interleave at the atomics, an update the offset has
\* passed was handed out or is in the hands of one reader, and no other update
\* is: no block is read twice, skipped, or read behind a registered query.
OneHolder ==
  \A i \in Update :
    LET holders == Cardinality({r \in Reader : i \in Holds(r)}) IN
    applied[i] + holders = IF i < Least(stream.off, stream.index) THEN 1 ELSE 0

\* What the readers promise, seen from the client: each update at most once
\* and none behind the registered query, and at each query a prefix of the
\* stream, all of it up to the query or to the end unless it was asked for at
\* once.
Promise == INSTANCE UpdateStream WITH
  phase <- client.phase, limit <- stream.index, asked <- stream.block

KeepsPromise == Promise!Spec

\* Whatever the client asked for, the readers come to a halt and it can query:
\* none of them waits for ever in get_edge.
ReadersStop == (client.phase = "running") ~> (client.phase = "query")

\* Every update of the file is handed out in the end: the offset that the
\* overshooting readers write back loses nothing.
StreamArrives == <>[](\A i \in Update : applied[i] = 1)

\* "ensure amount of data read is of appropriate size"
\* (binary_graph_stream.h:169): what a reader hands out is the block it claimed.
ReadsItsBlock ==
  \A r \in Reader :
    LET me == reader[r] IN
    me.at = "get" /\ me.inBuf > 0 => me.buf = [j \in 1 .. me.want |-> me.off + j - 1]
=============================================================================
