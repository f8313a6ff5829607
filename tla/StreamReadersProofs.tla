------------------------ MODULE StreamReadersProofs -------------------------
(***************************************************************************)
(* Theorems about the readers of a stream, for every number of threads,    *)
(* every file and every length of a block: the types, and, when pread      *)
(* returns what it was asked for, that each update is handed out once.     *)
(***************************************************************************)
EXTENDS StreamReaders, FiniteSetTheorems, TLAPS

-----------------------------------------------------------------------------
(* The inductive invariant.  What a reader holds is an interval of the     *)
(* file, and the intervals, with what was handed out, divide up what the   *)
(* offset has passed.                                                      *)

Place == {"stopped", "get", "block?", "end?", "query?", "claim", "compare",
          "restore", "truncate", "read"}
ReaderState == [at : Place, off : Nat, want : Nat, buf : Seq(Int), next : Nat, inBuf : Nat]

Shape ==
  /\ stream \in [off : Nat, index : Nat, block : BOOLEAN]
  /\ reader \in [Reader -> ReaderState]
  /\ client \in [phase : {"paused", "running", "query"}, requests : Nat]
  /\ applied \in [Update -> Nat]

Hi(m, index) ==
  CASE m.at \in {"compare", "truncate"} -> Least(m.off + BufSize, index)
    [] m.at = "read" -> m.off + m.want
    [] m.at = "get" -> m.off + Len(m.buf)
    [] OTHER -> 0

Own(m, index) == {i \in Update : m.off + m.next <= i /\ i < Hi(m, index)}
Owned(r) == Own(reader[r], stream.index)

Passed(i) == i < stream.off /\ i < stream.index

Distributed ==
  /\ \A r \in Reader : \A i \in Owned(r) : Passed(i) /\ applied[i] = 0
  /\ \A r, s \in Reader : \A i \in Update : i \in Owned(r) /\ i \in Owned(s) => r = s
  /\ \A i \in Update : Passed(i) => applied[i] = 1 \/ \E r \in Reader : i \in Owned(r)
  /\ \A i \in Update : applied[i] = 0 \/ (applied[i] = 1 /\ Passed(i))

\* What a reader's place says of its locals and of the stream.
Sound(m, off, index) ==
  /\ m.at # "get" => m.next = 0 /\ m.inBuf = 0 /\ m.buf = <<>>
  /\ m.at = "get" =>
       /\ m.inBuf = Len(m.buf) /\ m.next <= Len(m.buf)
       /\ m.off + Len(m.buf) <= NumEdges
       /\ \A j \in 1 .. Len(m.buf) : m.buf[j] = m.off + j - 1
  /\ m.at = "compare" => off >= m.off + BufSize \/ off >= index
  /\ m.at = "restore" => off >= index
  /\ m.at = "truncate" =>
       off >= index /\ m.off < index /\ m.off < NumEdges /\ index < m.off + BufSize
  /\ m.at = "read" => m.want >= 1 /\ m.off + m.want <= NumEdges

AllSound == \A r \in Reader : Sound(reader[r], stream.off, stream.index)

\* A reader that is still to write the offset back.
Restores(m, index) ==
  m.at \in {"restore", "truncate"} \/ (m.at = "compare" /\ m.off + BufSize > index)

\* The offset is behind the query only until such a reader has done so.
Ahead ==
  stream.off > stream.index =>
    stream.index >= NumEdges \/ \E r \in Reader : Restores(reader[r], stream.index)

Reached == stream.block \/ stream.off >= stream.index \/ stream.off >= NumEdges

Halted ==
  /\ client.phase # "running" => \A r \in Reader : reader[r].at = "stopped"
  /\ client.phase = "running" => \A r \in Reader : reader[r].at = "stopped" => Reached

IInv == Shape /\ Distributed /\ AllSound /\ Ahead /\ Halted

-----------------------------------------------------------------------------
\* What the assumptions say of the constants.
LEMMA Constants ==
  /\ NumEdges \in Nat /\ BufSize \in Nat /\ BufSize >= 1
  /\ NoQuery \in Nat /\ NoQuery > NumEdges
<1> DEFINE c == Cardinality(Reader)
<1>1. c \in Nat
  BY StreamAssumption, FS_CardinalityType
<1>2. NumEdges \in Nat /\ BufSize \in Nat /\ BufSize >= 1
  BY StreamAssumption
<1>3. \A b \in Nat : \A k \in Nat : b >= 1 => (k + 1) * b \in Nat /\ (k + 1) * b >= b
  OBVIOUS
<1>4. (c + 1) * BufSize \in Nat /\ (c + 1) * BufSize >= 1
  BY <1>1, <1>2, <1>3
<1> QED
  BY <1>2, <1>4 DEF NoQuery

\* An idle reader holds nothing.
LEMMA IdleOwnsNothing ==
  ASSUME NEW at \in Place \ {"compare", "truncate", "read"}, NEW index \in Nat
  PROVE  /\ Idle(at) \in ReaderState
         /\ Own(Idle(at), index) = {}
         /\ Idle(at).at = at
         /\ \A off \in Nat : at # "restore" => Sound(Idle(at), off, index)
BY Constants DEF Idle, Own, Hi, Sound, ReaderState, Update, Place

-----------------------------------------------------------------------------
\* A step of one reader that holds the same before and after, and at most
\* writes back the offset to the query.
LEMMA QuietStep ==
  ASSUME IInv, client.phase = "running",
         NEW r \in Reader, NEW m \in ReaderState,
         reader' = [reader EXCEPT ![r] = m],
         client' = client, applied' = applied,
         \/ stream' = stream
         \/ stream.off >= stream.index /\ stream' = [stream EXCEPT !.off = stream.index],
         Sound(m, stream'.off, stream.index),
         Own(m, stream.index) = Owned(r),
         m.at = "stopped" => Reached',
         stream' = stream /\ stream.off > stream.index /\ Restores(reader[r], stream.index) =>
           stream.index >= NumEdges \/ Restores(m, stream.index)
  PROVE  IInv'
<1>1. /\ stream \in [off : Nat, index : Nat, block : BOOLEAN]
      /\ reader \in [Reader -> ReaderState]
      /\ stream.off \in Nat /\ stream.index \in Nat
  BY DEF IInv, Shape
<1>2. /\ reader' \in [Reader -> ReaderState]
      /\ reader'[r] = m
      /\ \A s \in Reader : s # r => reader'[s] = reader[s]
  BY <1>1
<1>3. /\ stream' \in [off : Nat, index : Nat, block : BOOLEAN]
      /\ stream'.index = stream.index /\ stream'.block = stream.block
      /\ stream'.off = stream.off \/ (stream.off >= stream.index /\ stream'.off = stream.index)
  BY <1>1
<1>4. Shape'
  BY <1>2, <1>3 DEF IInv, Shape
<1>5. \A s \in Reader : Owned(s)' = Owned(s)
  BY <1>2, <1>3 DEF Owned
<1>6. \A i \in Update : Passed(i)' <=> Passed(i)
  BY <1>1, <1>3, Constants DEF Passed, Update
<1>7. Distributed'
  <2>1. Distributed
    BY DEF IInv
  <2>2. \A s \in Reader : Owned(s) \subseteq Update
    BY DEF Owned, Own
  <2> QED
    BY ONLY <1>5, <1>6, <2>1, <2>2, applied' = applied DEF Distributed
<1>8. AllSound'
  <2>1. SUFFICES ASSUME NEW s \in Reader, s # r
                 PROVE  Sound(reader[s], stream'.off, stream.index)
    BY <1>2, <1>3 DEF AllSound
  <2>2. Sound(reader[s], stream.off, stream.index)
    BY DEF IInv, AllSound
  <2> QED
    BY <1>1, <1>3, <2>2 DEF Sound
<1>9. Ahead'
  <2>1. CASE stream' = stream
    BY <1>2, <2>1 DEF IInv, Ahead
  <2>2. CASE stream'.off = stream.index
    BY <1>1, <1>3, <2>2 DEF Ahead
  <2> QED
    BY <1>3, <2>1, <2>2
<1>10. Halted'
  <2>1. Reached => Reached'
    BY <1>1, <1>3, Constants DEF Reached
  <2> QED
    BY <1>2, <2>1 DEF IInv, Halted
<1> QED
  BY <1>4, <1>7, <1>8, <1>9, <1>10 DEF IInv

\* What IInv says of one reader.
LEMMA OneReader ==
  ASSUME IInv, NEW r \in Reader
  PROVE  /\ reader[r] \in ReaderState
         /\ Sound(reader[r], stream.off, stream.index)
         /\ reader \in [Reader -> ReaderState]
         /\ stream \in [off : Nat, index : Nat, block : BOOLEAN]
         /\ \A m : [reader EXCEPT ![r] = m][r] = m
BY DEF IInv, Shape, AllSound

\* The reader's buffer is empty: it starts on the next block.
LEMMA RefillStep ==
  ASSUME IInv, NEW r \in Reader, Refill(r)
  PROVE  IInv'
<1>1. /\ reader[r] \in ReaderState /\ reader[r].at = "get"
      /\ Sound(reader[r], stream.off, stream.index)
      /\ stream.off \in Nat /\ stream.index \in Nat
  BY OneReader DEF Refill, At
<1> DEFINE m == Idle("block?")
<1>2. /\ m \in ReaderState /\ Own(m, stream.index) = {}
      /\ m.at = "block?" /\ Sound(m, stream.off, stream.index)
  BY <1>1, IdleOwnsNothing DEF Place
<1>3. Owned(r) = {}
  BY <1>1 DEF Refill, Owned, Own, Hi, Sound, ReaderState, Update
<1>4. ~Restores(reader[r], stream.index)
  BY <1>1 DEF Restores
<1> QED
  BY <1>2, <1>3, <1>4, QuietStep DEF Refill, At

\* One of the three checks before the claim, when it stops only where Reached
\* allows it.
LEMMA CheckStep ==
  ASSUME IInv, NEW r \in Reader, NEW stop \in BOOLEAN, stop => Reached,
         NEW place \in {"block?", "end?", "query?"},
         NEW next \in {"end?", "query?", "claim"},
         Check(r, place, stop, next)
  PROVE  IInv'
<1>1. /\ reader[r] \in ReaderState /\ reader[r].at = place
      /\ Sound(reader[r], stream.off, stream.index)
      /\ stream.off \in Nat /\ stream.index \in Nat
  BY OneReader DEF Check, At
<1>2. Owned(r) = {} /\ ~Restores(reader[r], stream.index)
  BY <1>1 DEF Owned, Own, Hi, ReaderState, Update, Restores
<1>3. /\ client.phase = "running" /\ client' = client /\ applied' = applied
      /\ stream' = stream
  BY DEF Check, At
<1>4. CASE stop
  <2> DEFINE m == Idle("stopped")
  <2>1. /\ m \in ReaderState /\ Own(m, stream.index) = {}
        /\ m.at = "stopped" /\ Sound(m, stream.off, stream.index)
    BY <1>1, IdleOwnsNothing DEF Place
  <2>2. reader' = [reader EXCEPT ![r] = m]
    BY <1>4 DEF Check, Breakpoint
  <2>3. Reached'
    BY <1>3, <1>4 DEF Reached
  <2> QED
    BY <1>2, <1>3, <2>1, <2>2, <2>3, QuietStep
<1>5. CASE ~stop
  <2> DEFINE m == [reader[r] EXCEPT !.at = next]
  <2>1. /\ m \in ReaderState /\ m.at = next
        /\ m.next = 0 /\ m.inBuf = 0 /\ m.buf = <<>>
    BY <1>1 DEF ReaderState, Place, Sound
  <2>2. Sound(m, stream.off, stream.index)
    BY <2>1 DEF Sound
  <2>3. Own(m, stream.index) = {}
    BY <2>1 DEF Own, Hi, ReaderState, Update
  <2>4. reader' = [reader EXCEPT ![r] = m]
    BY <1>5, OneReader DEF Check, Goto
  <2> QED
    BY <1>2, <1>3, <2>1, <2>2, <2>3, <2>4, QuietStep
<1> QED
  BY <1>4, <1>5

LEMMA ChecksStep ==
  ASSUME IInv, NEW r \in Reader, CheckBlock(r) \/ CheckEnd(r) \/ CheckQuery(r)
  PROVE  IInv'
<1>1. stream \in [off : Nat, index : Nat, block : BOOLEAN]
  BY DEF IInv, Shape
<1>2. CASE CheckBlock(r)
  BY <1>1, <1>2, CheckStep DEF CheckBlock, Reached
<1>3. CASE CheckEnd(r)
  <2> DEFINE stop == stream.off >= NumEdges
  <2>1. stop \in BOOLEAN /\ (stop => Reached)
    BY DEF Reached
  <2>2. Check(r, "end?", stop, "query?")
    BY <1>3 DEF CheckEnd
  <2> HIDE DEF stop
  <2> QED
    BY <2>1, <2>2, CheckStep
<1>4. CASE CheckQuery(r)
  <2> DEFINE stop == stream.off >= stream.index
  <2>1. stop \in BOOLEAN /\ (stop => Reached)
    BY DEF Reached
  <2>2. Check(r, "query?", stop, "claim")
    BY <1>4 DEF CheckQuery
  <2> HIDE DEF stop
  <2> QED
    BY <2>1, <2>2, CheckStep
<1> QED
  BY <1>2, <1>3, <1>4

\* What the claimed block comes to when it is compared with the query and the
\* end: nothing is lost that the reader had claimed.
LEMMA CompareStep ==
  ASSUME IInv, NEW r \in Reader, Compare(r)
  PROVE  IInv'
<1> DEFINE off == reader[r].off
           index == stream.index
<1>1. /\ reader[r] \in ReaderState /\ reader[r].at = "compare"
      /\ Sound(reader[r], stream.off, index)
      /\ stream.off \in Nat /\ index \in Nat /\ off \in Nat /\ reader[r].next = 0
  BY OneReader DEF Compare, At, ReaderState, Sound
<1>2. /\ client.phase = "running" /\ client' = client /\ applied' = applied
      /\ stream' = stream
  BY DEF Compare, At
<1>3. stream.off >= off + BufSize \/ stream.off >= index
  BY <1>1 DEF Sound
<1>4. Owned(r) = {i \in Update : off <= i /\ i < Least(off + BufSize, index)}
  BY <1>1 DEF Owned, Own, Hi
<1>5. CASE off >= index
  <2> DEFINE m == [reader[r] EXCEPT !.at = "restore"]
  <2>1. m \in ReaderState /\ m.at = "restore"
    BY <1>1 DEF ReaderState, Place
  <2>2. Sound(m, stream.off, index)
    BY <1>1, <1>3, <1>5, <2>1, Constants DEF Sound
  <2>3. Own(m, index) = {}
    BY <1>1, <2>1 DEF Own, Hi, ReaderState, Update
  <2>4. Owned(r) = {}
    BY <1>1, <1>4, <1>5, Constants DEF Least, Update
  <2>5. reader' = [reader EXCEPT ![r] = m]
    BY <1>5, OneReader DEF Compare, Goto
  <2> QED
    BY <1>2, <2>1, <2>2, <2>3, <2>4, <2>5, QuietStep DEF Restores
<1>6. CASE off < index /\ off >= NumEdges
  <2> DEFINE m == Idle("stopped")
  <2>1. /\ m \in ReaderState /\ Own(m, index) = {}
        /\ m.at = "stopped" /\ Sound(m, stream.off, index)
    BY <1>1, IdleOwnsNothing DEF Place
  <2>2. Owned(r) = {}
    BY <1>1, <1>4, <1>6, Constants DEF Least, Update
  <2>3. reader' = [reader EXCEPT ![r] = m]
    BY <1>1, <1>6 DEF Compare, Breakpoint
  <2>4. Reached' /\ index >= NumEdges
    BY <1>1, <1>2, <1>3, <1>6, Constants DEF Reached
  <2> QED
    BY <1>2, <2>1, <2>2, <2>3, <2>4, QuietStep
<1>7. CASE off < index /\ off < NumEdges /\ index < off + BufSize
  <2> DEFINE m == [reader[r] EXCEPT !.at = "truncate"]
  <2>1. m \in ReaderState /\ m.at = "truncate" /\ m.off = off /\ m.next = 0
    BY <1>1 DEF ReaderState, Place
  <2>2. Sound(m, stream.off, index)
    BY <1>1, <1>3, <1>7, <2>1, Constants DEF Sound
  <2>3. Own(m, index) = Owned(r)
    BY <1>1, <2>1 DEF Own, Owned, Hi
  <2>4. reader' = [reader EXCEPT ![r] = m]
    <3>1. ~(off >= index) /\ ~(off >= NumEdges)
      BY <1>1, <1>7, Constants
    <3> QED
      BY <1>7, <3>1, OneReader DEF Compare, Goto
  <2> QED
    BY <1>2, <2>1, <2>2, <2>3, <2>4, QuietStep DEF Restores
<1>8. CASE off < index /\ off < NumEdges /\ index >= off + BufSize
  <2> DEFINE want == Wanted(off, NoQuery)
             m == [reader[r] EXCEPT !.at = "read", !.want = want]
  <2>1. want = Least(off + BufSize, NumEdges) - off
    BY <1>1, Constants DEF Wanted, Least
  <2>2. want \in Nat /\ want >= 1 /\ off + want = Least(off + BufSize, NumEdges)
    BY <1>1, <1>8, <2>1, Constants DEF Least
  <2>3. m \in ReaderState /\ m.at = "read" /\ m.off = off /\ m.next = 0 /\ m.want = want
    BY <1>1, <2>2 DEF ReaderState, Place
  <2>4. Sound(m, stream.off, index)
    BY <1>1, <2>2, <2>3, Constants DEF Sound, Least
  <2>5. Own(m, index) = Owned(r)
    BY <1>1, <1>4, <1>8, <2>2, <2>3, Constants DEF Own, Hi, Least, Update
  <2>6. reader' = [reader EXCEPT ![r] = m]
    <3>1. ~(off >= index) /\ ~(off >= NumEdges) /\ ~(index < off + BufSize)
      BY <1>1, <1>8, Constants
    <3>2. reader' = [reader EXCEPT ![r].at = "read", ![r].want = want]
      BY <3>1 DEF Compare
    <3> HIDE DEF want
    <3> QED
      BY <3>2, OneReader
  <2>7. ~Restores(reader[r], index)
    BY <1>1, <1>8, Constants DEF Restores
  <2> QED
    BY <1>2, <2>3, <2>4, <2>5, <2>6, <2>7, QuietStep
<1> QED
  BY <1>1, <1>5, <1>6, <1>7, <1>8, Constants

LEMMA RestoreStep ==
  ASSUME IInv, NEW r \in Reader, Restore(r)
  PROVE  IInv'
<1>1. /\ reader[r] \in ReaderState /\ reader[r].at = "restore"
      /\ stream.off >= stream.index
      /\ stream \in [off : Nat, index : Nat, block : BOOLEAN]
  BY OneReader DEF Restore, At, Sound
<1> DEFINE m == Idle("stopped")
<1>2. /\ m \in ReaderState /\ Own(m, stream.index) = {}
      /\ m.at = "stopped" /\ Sound(m, stream.index, stream.index)
  BY <1>1, IdleOwnsNothing DEF Place
<1>3. Owned(r) = {}
  BY <1>1 DEF Owned, Own, Hi, ReaderState, Update
<1>4. /\ reader' = [reader EXCEPT ![r] = m]
      /\ client.phase = "running" /\ client' = client /\ applied' = applied
      /\ stream' = [stream EXCEPT !.off = stream.index]
  BY DEF Restore, At, Breakpoint
<1>5. stream'.off = stream.index /\ stream'.index = stream.index
  BY <1>1, <1>4
<1>6. Reached'
  BY <1>1, <1>5 DEF Reached
<1>7. stream' = stream => ~(stream.off > stream.index)
  BY <1>1, <1>5
<1> HIDE DEF m
<1> QED
  BY <1>1, <1>2, <1>3, <1>4, <1>5, <1>6, <1>7, QuietStep

LEMMA TruncateStep ==
  ASSUME IInv, NEW r \in Reader, Truncate(r)
  PROVE  IInv'
<1> DEFINE off == reader[r].off
           index == stream.index
           want == Wanted(off, index)
           m == [reader[r] EXCEPT !.at = "read", !.want = want]
<1>1. /\ reader[r] \in ReaderState /\ reader[r].at = "truncate"
      /\ Sound(reader[r], stream.off, index)
      /\ stream \in [off : Nat, index : Nat, block : BOOLEAN]
      /\ index \in Nat /\ off \in Nat
  BY OneReader DEF Truncate, At, ReaderState
<1>2. /\ stream.off >= index /\ off < index /\ off < NumEdges
      /\ index < off + BufSize /\ reader[r].next = 0
  BY <1>1 DEF Sound
<1>3. want = Least(index, NumEdges) - off
  BY <1>1, <1>2, Constants DEF Wanted, Least
<1>4. want \in Nat /\ want >= 1 /\ off + want = Least(index, NumEdges)
  BY <1>1, <1>2, <1>3, Constants DEF Least
<1>5. /\ reader' = [reader EXCEPT ![r].at = "read", ![r].want = want]
      /\ client.phase = "running" /\ client' = client /\ applied' = applied
      /\ stream' = [stream EXCEPT !.off = stream.index]
  BY DEF Truncate, At
<1>6. stream'.off = index /\ stream'.index = index
  BY <1>1, <1>5
<1>7. stream' = stream => ~(stream.off > stream.index)
  BY <1>1, <1>6
<1> HIDE DEF want
<1>8. reader' = [reader EXCEPT ![r] = m]
  BY <1>5, OneReader
<1>9. m \in ReaderState /\ m.at = "read" /\ m.off = off /\ m.next = 0 /\ m.want = want
  BY <1>1, <1>2, <1>4 DEF ReaderState, Place
<1>10. Sound(m, index, index)
  BY <1>1, <1>4, <1>9, Constants DEF Sound, Least
<1>11. Own(m, index) = Owned(r)
  BY <1>1, <1>2, <1>4, <1>9, Constants DEF Own, Owned, Hi, Least, Update
<1> HIDE DEF m
<1> QED
  BY <1>1, <1>2, <1>5, <1>6, <1>7, <1>8, <1>9, <1>10, <1>11, QuietStep

\* A pread that returns what it was asked for fills the buffer with the block.
LEMMA PreadIs ==
  ASSUME ~ShortReads, IInv, NEW r \in Reader, Pread(r)
  PROVE  reader' = [reader EXCEPT ![r] = [reader[r] EXCEPT
           !.buf = [j \in 1 .. reader[r].want |-> reader[r].off + j - 1],
           !.inBuf = reader[r].want, !.at = "get"]]
<1> DEFINE off == reader[r].off
           want == reader[r].want
           got == [j \in 1 .. want |-> off + j - 1]
           m == [reader[r] EXCEPT !.buf = got, !.inBuf = want, !.at = "get"]
<1>1. /\ reader[r] \in ReaderState /\ reader[r].at = "read"
      /\ Sound(reader[r], stream.off, stream.index)
      /\ off \in Nat /\ want \in Nat
  BY OneReader DEF Pread, At, ReaderState
<1>2. /\ want >= 1 /\ off + want <= NumEdges /\ reader[r].next = 0
      /\ reader[r].inBuf = 0 /\ reader[r].buf = <<>>
  BY <1>1 DEF Sound
<1>3. got \in Seq(Int) /\ Len(got) = want /\ \A j \in 1 .. want : got[j] = off + j - 1
  BY <1>1
<1>4. reader' = [reader EXCEPT ![r] = m]
  <2>1. Least(want, NumEdges - (off + 0)) = want
    BY <1>1, <1>2, Constants DEF Least
  <2>2. got \o SubSeq(<<>>, want + 1, Len(<<>>)) = got
    BY <1>1, <1>3
  <2>3. reader' = [reader EXCEPT
             ![r].buf = [j \in 1 .. want |-> off + 0 + j - 1]
                        \o SubSeq(<<>>, want + 1, Len(<<>>)),
             ![r].inBuf = 0 + want,
             ![r].at = IF 0 + want < want THEN "read" ELSE "get"]
    <3>1. PICK n \in {Least(want, NumEdges - (off + reader[r].inBuf))} :
            reader' = [reader EXCEPT
              ![r].buf = [j \in 1 .. n |-> off + reader[r].inBuf + j - 1]
                         \o SubSeq(reader[r].buf, n + 1, Len(reader[r].buf)),
              ![r].inBuf = reader[r].inBuf + n,
              ![r].at = IF reader[r].inBuf + n < want THEN "read" ELSE "get"]
      BY OneReader DEF Pread
    <3>2. n = want
      BY <1>2, <2>1
    <3> QED
      BY <1>2, <3>1, <3>2
  <2>4. [j \in 1 .. want |-> off + 0 + j - 1] = got
    BY <1>1
  <2>5. 0 + want = want /\ ~(0 + want < want)
    BY <1>1
  <2>6. reader' = [reader EXCEPT ![r].buf = got, ![r].inBuf = want, ![r].at = "get"]
    BY <2>2, <2>3, <2>4, <2>5
  <2> HIDE DEF got, want
  <2> QED
    BY <2>6, OneReader
<1> QED
  BY <1>4

\* It is the block that was claimed.
LEMMA PreadStep ==
  ASSUME ~ShortReads, IInv, NEW r \in Reader, Pread(r)
  PROVE  IInv'
<1> DEFINE off == reader[r].off
           want == reader[r].want
           got == [j \in 1 .. want |-> off + j - 1]
           m == [reader[r] EXCEPT !.buf = got, !.inBuf = want, !.at = "get"]
<1>1. /\ reader[r] \in ReaderState /\ reader[r].at = "read"
      /\ Sound(reader[r], stream.off, stream.index)
      /\ off \in Nat /\ want \in Nat
  BY OneReader DEF Pread, At, ReaderState
<1>2. /\ want >= 1 /\ off + want <= NumEdges /\ reader[r].next = 0
      /\ reader[r].inBuf = 0 /\ reader[r].buf = <<>>
  BY <1>1 DEF Sound
<1>3. /\ client.phase = "running" /\ client' = client /\ applied' = applied
      /\ stream' = stream
  BY DEF Pread, At
<1>4. got \in Seq(Int) /\ Len(got) = want /\ \A j \in 1 .. want : got[j] = off + j - 1
  BY <1>1
<1>5. reader' = [reader EXCEPT ![r] = m]
  BY PreadIs
<1> HIDE DEF got
<1>6. /\ m \in ReaderState /\ m.at = "get" /\ m.off = off /\ m.next = 0
      /\ m.buf = got /\ m.inBuf = want
  BY <1>1, <1>2, <1>4 DEF ReaderState, Place
<1>7. Sound(m, stream.off, stream.index)
  BY <1>1, <1>2, <1>4, <1>6 DEF Sound
<1>8. Own(m, stream.index) = Owned(r)
  BY <1>1, <1>2, <1>4, <1>6 DEF Own, Owned, Hi
<1>9. ~Restores(reader[r], stream.index)
  BY <1>1 DEF Restores
<1> HIDE DEF m
<1> QED
  BY <1>3, <1>5, <1>6, <1>7, <1>8, <1>9, QuietStep

\* fetch_add gives the reader what lies between the old offset and the new.
LEMMA ClaimStep ==
  ASSUME IInv, NEW r \in Reader, Claim(r)
  PROVE  IInv'
<1> DEFINE off == stream.off
           index == stream.index
           m == [reader[r] EXCEPT !.at = "compare", !.off = off]
<1>1. /\ reader[r] \in ReaderState /\ reader[r].at = "claim"
      /\ Sound(reader[r], off, index)
      /\ stream \in [off : Nat, index : Nat, block : BOOLEAN]
      /\ reader \in [Reader -> ReaderState]
      /\ off \in Nat /\ index \in Nat
  BY OneReader DEF Claim, At
<1>2. /\ client.phase = "running" /\ client' = client /\ applied' = applied
      /\ stream' = [stream EXCEPT !.off = off + BufSize]
  BY DEF Claim, At
<1>3. /\ stream' \in [off : Nat, index : Nat, block : BOOLEAN]
      /\ stream'.off = off + BufSize /\ stream'.index = index /\ stream'.block = stream.block
  BY <1>1, <1>2, Constants
<1>4. reader' = [reader EXCEPT ![r] = m]
  BY OneReader DEF Claim
<1>5. /\ m \in ReaderState /\ m.at = "compare" /\ m.off = off
      /\ m.next = 0 /\ m.inBuf = 0 /\ m.buf = <<>>
  BY <1>1 DEF ReaderState, Place, Sound
<1> HIDE DEF m
<1>6. /\ reader' \in [Reader -> ReaderState] /\ reader'[r] = m
      /\ \A s \in Reader : s # r => reader'[s] = reader[s]
  BY <1>1, <1>4, <1>5
<1>7. \A s \in Reader : s # r => Owned(s)' = Owned(s)
  BY <1>3, <1>6 DEF Owned
<1>8. Owned(r) = {}
  BY <1>1 DEF Owned, Own, Hi, ReaderState, Update
<1>9. Owned(r)' = {i \in Update : off <= i /\ i < off + BufSize /\ i < index}
  BY <1>1, <1>3, <1>5, <1>6, Constants DEF Owned, Own, Hi, Least, Update
<1>10. \A i \in Update : Passed(i)' <=> i < off + BufSize /\ i < index
  BY <1>3 DEF Passed
<1>11. \A i \in Update : Passed(i) <=> i < off /\ i < index
  BY DEF Passed
<1>12. \A s \in Reader : Owned(s) \subseteq Update
  BY DEF Owned, Own
<1>13. Distributed
  BY DEF IInv
<1>14. \A i \in Update : Passed(i) => Passed(i)' /\ i < off
  BY <1>1, <1>10, <1>11, Constants DEF Update
<1>15. Distributed'
  <2>1. ASSUME NEW s \in Reader, NEW i \in Owned(s)'
        PROVE  Passed(i)' /\ applied'[i] = 0
    <3>1. CASE s = r
      <4>1. i \in Update /\ off <= i /\ i < off + BufSize /\ i < index
        BY <1>9, <2>1, <3>1
      <4>2. ~Passed(i)
        BY <1>1, <1>11, <4>1 DEF Update
      <4> QED
        BY <1>2, <1>10, <1>13, <4>1, <4>2 DEF Distributed
    <3>2. CASE s # r
      BY <1>2, <1>7, <1>12, <1>13, <1>14, <2>1, <3>2 DEF Distributed
    <3> QED
      BY <3>1, <3>2
  <2>2. ASSUME NEW s \in Reader, NEW t \in Reader, NEW i \in Update,
               i \in Owned(s)', i \in Owned(t)'
        PROVE  s = t
    <3>1. \A u \in Reader : u # r /\ i \in Owned(u)' => ~(i \in Owned(r)')
      <4> SUFFICES ASSUME NEW u \in Reader, u # r, i \in Owned(u)
                   PROVE  ~(i \in Owned(r)')
        BY <1>7
      <4>1. i < off
        BY <1>13, <1>14 DEF Distributed
      <4> QED
        BY <1>1, <1>9, <4>1 DEF Update
    <3>2. CASE s # r /\ t # r
      BY <1>7, <1>13, <2>2, <3>2 DEF Distributed
    <3> QED
      BY <2>2, <3>1, <3>2
  <2>3. ASSUME NEW i \in Update, Passed(i)'
        PROVE  applied'[i] = 1 \/ \E s \in Reader : i \in Owned(s)'
    <3>1. CASE i < off
      <4>1. Passed(i)
        BY <1>10, <1>11, <2>3, <3>1
      <4>2. applied[i] = 1 \/ \E s \in Reader : i \in Owned(s)
        BY <1>13, <4>1 DEF Distributed
      <4> QED
        BY <1>2, <1>7, <1>8, <4>2
    <3>2. CASE ~(i < off)
      <4>1. i \in Owned(r)'
        BY <1>1, <1>9, <1>10, <2>3, <3>2 DEF Update
      <4> QED
        BY <4>1
    <3> QED
      BY <3>1, <3>2
  <2>4. \A i \in Update : applied'[i] = 0 \/ (applied'[i] = 1 /\ Passed(i)')
    BY <1>2, <1>13, <1>14 DEF Distributed
  <2> QED
    BY <2>1, <2>2, <2>3, <2>4 DEF Distributed
<1>16. AllSound'
  <2>1. Sound(m, off + BufSize, index)
    BY <1>1, <1>5, Constants DEF Sound
  <2>2. ASSUME NEW s \in Reader, s # r
        PROVE  Sound(reader[s], off + BufSize, index)
    <3>1. Sound(reader[s], off, index) /\ reader[s] \in ReaderState
      BY OneReader
    <3> QED
      BY <1>1, <3>1, Constants DEF Sound, ReaderState
  <2> QED
    BY <1>3, <1>6, <2>1, <2>2 DEF AllSound
<1>17. Ahead'
  <2>1. SUFFICES ASSUME off + BufSize > index, ~(index >= NumEdges)
                 PROVE  \E s \in Reader : Restores(reader'[s], index)
    BY <1>3 DEF Ahead
  <2>2. CASE off > index
    <3>1. PICK s \in Reader : Restores(reader[s], index)
      BY <2>1, <2>2 DEF IInv, Ahead
    <3>2. s # r
      BY <1>1, <3>1 DEF Restores
    <3> QED
      BY <1>6, <3>1, <3>2
  <2>3. CASE ~(off > index)
    <3>1. Restores(m, index)
      BY <1>5, <2>1 DEF Restores
    <3> QED
      BY <1>6, <3>1
  <2> QED
    BY <2>2, <2>3
<1>18. Halted'
  <2>1. Reached => Reached'
    BY <1>1, <1>3, Constants DEF Reached
  <2> QED
    BY <1>2, <1>5, <1>6, <2>1 DEF IInv, Halted
<1>19. Shape'
  BY <1>2, <1>3, <1>6 DEF IInv, Shape
<1> QED
  BY <1>15, <1>16, <1>17, <1>18, <1>19 DEF IInv

\* A reader's state with one more update handed out of the buffer.
LEMMA OneFurther ==
  ASSUME NEW x \in ReaderState, NEW y, y = [x EXCEPT !.next = x.next + 1]
  PROVE  /\ y \in ReaderState /\ y.at = x.at /\ y.off = x.off /\ y.next = x.next + 1
         /\ y.buf = x.buf /\ y.inBuf = x.inBuf
<1>1. x.next + 1 \in Nat
  BY DEF ReaderState
<1> QED
  BY <1>1 DEF ReaderState

\* The update a reader hands out is the first of those it holds.
LEMMA HandStep ==
  ASSUME IInv, NEW r \in Reader, Hand(r)
  PROVE  /\ IInv'
         /\ \E i \in Update : /\ i < stream.index /\ applied[i] = 0
                              /\ applied' = [applied EXCEPT ![i] = 1]
<1> DEFINE me == reader[r]
           i == me.off + me.next
           m == [me EXCEPT !.next = me.next + 1]
<1>1. /\ me \in ReaderState /\ me.at = "get"
      /\ Sound(me, stream.off, stream.index)
      /\ reader \in [Reader -> ReaderState]
      /\ stream.off \in Nat /\ stream.index \in Nat
      /\ applied \in [Update -> Nat]
  BY OneReader DEF Hand, At, IInv, Shape
<1>2. /\ me.off \in Nat /\ me.next \in Nat /\ me.buf \in Seq(Int) /\ Len(me.buf) \in Nat
      /\ me.next < Len(me.buf) /\ me.inBuf = Len(me.buf)
      /\ me.off + Len(me.buf) <= NumEdges
  BY <1>1 DEF Hand, Sound, ReaderState
<1>3. me.buf[me.next + 1] = i
  <2>1. \A j \in 1 .. Len(me.buf) : me.buf[j] = me.off + j - 1
    BY <1>1 DEF Sound
  <2>2. me.next + 1 \in 1 .. Len(me.buf) /\ me.off + (me.next + 1) - 1 = i
    BY <1>2
  <2> QED
    BY <2>1, <2>2
<1>4. i \in Update /\ i # Garbage
  BY <1>2, Constants DEF Update, Garbage
<1>5. i \in Owned(r)
  BY <1>1, <1>2, <1>4 DEF Owned, Own, Hi
<1>6. Passed(i) /\ applied[i] = 0
  BY <1>5 DEF IInv, Distributed
<1>7. applied' = [applied EXCEPT ![i] = 1]
  <2>1. applied' = [applied EXCEPT ![i] = @ + 1]
    BY <1>2, <1>3, <1>4 DEF Hand
  <2> QED
    BY <1>1, <1>4, <1>6, <2>1
<1>8. reader' = [reader EXCEPT ![r] = m]
  BY OneReader DEF Hand
<1>9. /\ m \in ReaderState /\ m.at = "get" /\ m.off = me.off /\ m.next = me.next + 1
      /\ m.buf = me.buf /\ m.inBuf = me.inBuf
  BY <1>1, OneFurther
<1>10. client.phase = "running" /\ stream' = stream /\ client' = client
  BY DEF Hand, At
<1> HIDE DEF m, me
<1>11. /\ reader' \in [Reader -> ReaderState] /\ reader'[r] = m
       /\ \A s \in Reader : s # r => reader'[s] = reader[s]
  BY <1>1, <1>8, <1>9
<1>12. \A s \in Reader : s # r => Owned(s)' = Owned(s)
  BY <1>10, <1>11 DEF Owned
<1>13. Owned(r)' = Owned(r) \ {i}
  <2>1. Owned(r)' = {j \in Update : i + 1 <= j /\ j < me.off + Len(me.buf)}
    <3>1. Owned(r)' = {j \in Update : m.off + m.next <= j /\ j < m.off + Len(m.buf)}
      BY <1>9, <1>11 DEF Owned, Own, Hi
    <3>2. m.off + m.next = i + 1
      BY <1>2, <1>9
    <3> QED
      BY <1>9, <3>1, <3>2
  <2>2. Owned(r) = {j \in Update : i <= j /\ j < me.off + Len(me.buf)}
    BY <1>1 DEF Owned, Own, Hi, me
  <2>3. i \in Int /\ \A j \in Update : i + 1 <= j <=> i <= j /\ j # i
    BY <1>2, Constants DEF Update
  <2> HIDE DEF i
  <2> QED
    BY <2>1, <2>2, <2>3
<1>14. \A j : Passed(j)' <=> Passed(j)
  BY <1>10 DEF Passed
<1> HIDE DEF i
<1>15. Distributed'
  <2>1. Distributed
    BY DEF IInv
  <2>2. applied'[i] = 1 /\ \A j \in Update : j # i => applied'[j] = applied[j]
    BY <1>1, <1>4, <1>7
  <2>3. \A s \in Reader : Owned(s) \subseteq Update
    BY DEF Owned, Own
  <2>4. \A s \in Reader : Owned(s)' = Owned(s) \ {i}
    <3>1. \A s \in Reader : s # r => i \notin Owned(s)
      BY <1>4, <1>5, <2>1 DEF Distributed
    <3> QED
      BY <1>12, <1>13, <3>1
  <2> QED
    BY ONLY <1>4, <1>6, <1>14, <2>1, <2>2, <2>3, <2>4 DEF Distributed
<1>16. AllSound'
  <2>1. Sound(m, stream.off, stream.index)
    BY <1>1, <1>2, <1>9 DEF Sound
  <2> QED
    BY <1>10, <1>11, <2>1, OneReader DEF AllSound
<1>17. Ahead'
  <2>1. ~Restores(reader[r], stream.index)
    BY <1>1 DEF Restores, me
  <2> QED
    BY <1>10, <1>11, <2>1 DEF IInv, Ahead
<1>18. Halted'
  BY <1>9, <1>10, <1>11 DEF IInv, Halted, Reached
<1>19. Shape'
  BY <1>1, <1>4, <1>7, <1>10, <1>11 DEF IInv, Shape
<1> QED
  BY <1>4, <1>6, <1>7, <1>15, <1>16, <1>17, <1>18, <1>19 DEF IInv, Passed

-----------------------------------------------------------------------------
\* While no reader runs nothing is held: what was handed out is the part of
\* the file before the offset.
LEMMA Settled ==
  ASSUME IInv, \A r \in Reader : reader[r].at = "stopped"
  PROVE  /\ stream.off <= stream.index \/ stream.index >= NumEdges
         /\ \A i \in Update : applied[i] = IF i < stream.off THEN 1 ELSE 0
<1>1. /\ stream.off \in Nat /\ stream.index \in Nat
      /\ \A r \in Reader : reader[r] \in ReaderState
      /\ applied \in [Update -> Nat]
  BY DEF IInv, Shape
<1>2. \A r \in Reader : Owned(r) = {}
  BY <1>1 DEF Owned, Own, Hi, ReaderState, Update
<1>3. stream.off <= stream.index \/ stream.index >= NumEdges
  BY <1>1 DEF IInv, Ahead, Restores
<1>4. \A i \in Update : Passed(i) <=> i < stream.off
  BY <1>1, <1>3, Constants DEF Passed, Update
<1>5. \A i \in Update : applied[i] = IF i < stream.off THEN 1 ELSE 0
  BY <1>2, <1>4 DEF IInv, Distributed
<1> QED
  BY <1>3, <1>5

\* A step of the client while no reader runs.
LEMMA SettledStep ==
  ASSUME IInv, \A r \in Reader : reader[r].at = "stopped",
         reader' = reader \/ reader' = [r \in Reader |-> Idle("get")],
         Shape', Halted',
         stream'.off <= stream'.index \/ stream'.index >= NumEdges,
         \A i \in Update : applied'[i] = IF i < stream'.off THEN 1 ELSE 0
  PROVE  IInv'
<1>1. stream'.off \in Nat /\ stream'.index \in Nat
  BY DEF Shape
<1>2. \A r \in Reader :
        /\ reader'[r] \in ReaderState /\ reader'[r].at \in {"stopped", "get"}
        /\ Own(reader'[r], stream'.index) = {}
        /\ Sound(reader'[r], stream'.off, stream'.index)
  <2>1. CASE reader' = reader
    <3>1. ASSUME NEW r \in Reader
          PROVE  Own(reader[r], stream'.index) = {}
                 /\ Sound(reader[r], stream'.off, stream'.index)
      <4>1. reader[r] \in ReaderState /\ Sound(reader[r], stream.off, stream.index)
        BY OneReader
      <4> QED
        BY <4>1 DEF Sound, Own, Hi, ReaderState, Update
    <3> QED
      BY <2>1, <3>1, OneReader
  <2>2. CASE reader' = [r \in Reader |-> Idle("get")]
    BY <1>1, <2>2, IdleOwnsNothing DEF Place
  <2> QED
    BY <2>1, <2>2
<1>3. \A r \in Reader : Owned(r)' = {}
  BY <1>2 DEF Owned
<1>4. \A i \in Update : Passed(i)' <=> i < stream'.off
  BY <1>1, Constants DEF Passed, Update
<1>5. Distributed'
  BY <1>3, <1>4 DEF Distributed
<1>6. AllSound'
  BY <1>2 DEF AllSound
<1>7. Ahead'
  BY <1>1, Constants DEF Ahead
<1> QED
  BY <1>5, <1>6, <1>7 DEF IInv

LEMMA StartStep ==
  ASSUME IInv, Start
  PROVE  IInv'
<1>1. \A r \in Reader : reader[r].at = "stopped"
  BY DEF Start, IInv, Halted
<1>2. \A r \in Reader : reader'[r] = Idle("get") /\ reader'[r].at = "get"
  BY DEF Start, Idle
<1>3. client'.phase = "running"
  BY DEF Start, IInv, Shape
<1>4. Halted'
  BY <1>2, <1>3 DEF Halted
<1>5. Idle("get") \in ReaderState
  BY IdleOwnsNothing, Constants DEF Place
<1>6. Shape'
  BY <1>5 DEF Start, IInv, Shape
<1> QED
  BY <1>1, <1>4, <1>6, Settled, SettledStep DEF Start

\* What is registered lies behind the offset, so nothing behind it is out.
LEMMA RegisterStep ==
  ASSUME IInv, NEW n \in 0 .. NumEdges + 1, Register(n)
  PROVE  IInv'
<1>1. \A r \in Reader : reader[r].at = "stopped"
  BY DEF Register, IInv, Halted
<1>2. /\ stream \in [off : Nat, index : Nat, block : BOOLEAN]
      /\ client \in [phase : {"paused", "running", "query"}, requests : Nat]
      /\ n \in Nat
  BY Constants DEF IInv, Shape
<1>3. /\ stream' \in [off : Nat, index : Nat, block : BOOLEAN]
      /\ stream'.off = stream.off /\ stream'.index = n /\ n > stream.off
      /\ client' \in [phase : {"paused", "running", "query"}, requests : Nat]
      /\ client'.phase = client.phase /\ client.phase # "running"
  BY <1>2 DEF Register
<1>4. Halted'
  BY <1>1, <1>3 DEF Halted, Register
<1>5. Shape'
  BY <1>3 DEF Register, IInv, Shape
<1>6. stream'.off <= stream'.index
  BY <1>2, <1>3
<1> QED
  BY <1>1, <1>3, <1>4, <1>5, <1>6, Settled, SettledStep DEF Register

LEMMA OnDemandStep ==
  ASSUME IInv, OnDemand
  PROVE  IInv'
<1>1. /\ stream' \in [off : Nat, index : Nat, block : BOOLEAN]
      /\ stream'.off = stream.off /\ stream'.index = stream.index /\ stream'.block = TRUE
      /\ client' \in [phase : {"paused", "running", "query"}, requests : Nat]
      /\ client'.phase = client.phase /\ client.phase = "running"
      /\ reader' = reader /\ applied' = applied
  <2>1. /\ stream \in [off : Nat, index : Nat, block : BOOLEAN]
        /\ client \in [phase : {"paused", "running", "query"}, requests : Nat]
    BY DEF IInv, Shape
  <2>2. /\ stream' = [stream EXCEPT !.block = TRUE]
        /\ client' = [client EXCEPT !.requests = @ + 1]
        /\ client.phase = "running" /\ reader' = reader /\ applied' = applied
    BY DEF OnDemand
  <2>3. /\ stream' \in [off : Nat, index : Nat, block : BOOLEAN]
        /\ stream'.off = stream.off /\ stream'.index = stream.index
        /\ stream'.block = TRUE
    BY <2>1, <2>2, Zenon
  <2>4. /\ client' \in [phase : {"paused", "running", "query"}, requests : Nat]
        /\ client'.phase = client.phase
    BY <2>1, <2>2
  <2> QED
    BY <2>2, <2>3, <2>4
<1>2. Shape' /\ Distributed' /\ AllSound' /\ Ahead'
  <2>1. (\A r \in Reader : Owned(r)' = Owned(r)) /\ \A i : Passed(i)' <=> Passed(i)
    BY <1>1 DEF Owned, Passed
  <2>2. Shape'
    BY <1>1 DEF IInv, Shape
  <2>3. Distributed'
    BY <1>1, <2>1 DEF IInv, Distributed
  <2>4. AllSound' /\ Ahead'
    BY <1>1 DEF IInv, AllSound, Ahead
  <2> QED
    BY <2>2, <2>3, <2>4
<1>3. Halted'
  BY <1>1 DEF Halted, Reached
<1> QED
  BY <1>2, <1>3 DEF IInv

LEMMA QueryStep ==
  ASSUME IInv, Query
  PROVE  IInv'
<1>1. /\ client' \in [phase : {"paused", "running", "query"}, requests : Nat]
      /\ client'.phase = "query"
  BY DEF Query, IInv, Shape
<1>2. Shape' /\ Halted'
  BY <1>1 DEF Query, IInv, Shape, Halted
<1> QED
  BY <1>2, Settled, SettledStep DEF Query

LEMMA ResumeStep ==
  ASSUME IInv, Resume
  PROVE  IInv'
<1>1. \A r \in Reader : reader[r].at = "stopped"
  BY DEF Resume, IInv, Halted
<1>2. /\ stream' \in [off : Nat, index : Nat, block : BOOLEAN]
      /\ stream'.off = stream.off /\ stream'.index = NoQuery
      /\ client' \in [phase : {"paused", "running", "query"}, requests : Nat]
      /\ client'.phase = "paused"
  BY Constants DEF Resume, IInv, Shape
<1>3. Shape' /\ Halted'
  BY <1>1, <1>2 DEF Resume, IInv, Shape, Halted
<1>4. stream'.index >= NumEdges
  BY <1>2, Constants
<1> QED
  BY <1>1, <1>2, <1>3, <1>4, Settled, SettledStep DEF Resume

LEMMA ResetStep ==
  ASSUME IInv, Reset
  PROVE  IInv'
<1>1. \A r \in Reader : reader[r].at = "stopped"
  BY DEF Reset, IInv, Halted
<1>2. /\ stream' \in [off : Nat, index : Nat, block : BOOLEAN]
      /\ stream'.off = 0 /\ stream'.index = stream.index /\ stream.index \in Nat
      /\ client' \in [phase : {"paused", "running", "query"}, requests : Nat]
      /\ client'.phase = client.phase /\ client.phase # "running"
  BY DEF Reset, IInv, Shape
<1>3. Shape' /\ Halted'
  BY <1>1, <1>2 DEF Reset, IInv, Shape, Halted
<1>4. \A i \in Update : applied'[i] = IF i < stream'.off THEN 1 ELSE 0
  BY <1>2 DEF Reset, Update
<1>5. stream'.off <= stream'.index
  BY <1>2
<1> QED
  BY <1>1, <1>3, <1>4, <1>5, SettledStep DEF Reset

-----------------------------------------------------------------------------
\* The invariant holds at first and is kept by every step.
LEMMA InitHolds == Init => IInv
<1> SUFFICES ASSUME Init PROVE IInv
  OBVIOUS
<1>1. /\ stream = [off |-> 0, index |-> NoQuery, block |-> FALSE]
      /\ client = [phase |-> "paused", requests |-> 0]
      /\ \A r \in Reader : reader[r] = Idle("stopped")
      /\ \A i \in Update : applied[i] = 0
  BY DEF Init
<1>2. Idle("stopped") \in ReaderState /\ Own(Idle("stopped"), NoQuery) = {}
      /\ Idle("stopped").at = "stopped" /\ Sound(Idle("stopped"), 0, NoQuery)
  BY IdleOwnsNothing, Constants DEF Place
<1>3. Shape
  BY <1>1, <1>2, Constants DEF Init, Shape
<1>4. Distributed
  <2>1. \A r \in Reader : Owned(r) = {}
    BY <1>1, <1>2 DEF Owned
  <2>2. \A i \in Update : ~Passed(i)
    BY <1>1, Constants DEF Passed, Update
  <2> QED
    BY <1>1, <2>1, <2>2 DEF Distributed
<1>5. AllSound
  BY <1>1, <1>2 DEF AllSound
<1>6. Ahead /\ Halted
  BY <1>1, <1>2, Constants DEF Ahead, Halted
<1> QED
  BY <1>3, <1>4, <1>5, <1>6 DEF IInv

LEMMA StutterStep ==
  ASSUME IInv, UNCHANGED vars
  PROVE  IInv'
BY DEF vars, IInv, Shape, Distributed, Owned, Passed, AllSound, Ahead, Halted, Reached

LEMMA Inductive ==
  ASSUME ~ShortReads, IInv, [Next]_vars
  PROVE  IInv'
<1>1. ASSUME NEW r \in Reader, Step(r)
      PROVE  IInv'
  BY <1>1, RefillStep, ChecksStep, CompareStep, RestoreStep, TruncateStep, PreadStep,
     ClaimStep, HandStep DEF Step
<1>2. CASE \E n \in 0 .. NumEdges + 1 : Register(n)
  BY <1>2, RegisterStep
<1>3. CASE Start \/ OnDemand \/ Query \/ Resume \/ Reset
  BY <1>3, StartStep, OnDemandStep, QueryStep, ResumeStep, ResetStep
<1>4. CASE UNCHANGED vars
  BY <1>4, StutterStep
<1> QED
  BY <1>1, <1>2, <1>3, <1>4 DEF Next

LEMMA Invariance == ASSUME ~ShortReads PROVE Spec => []IInv
<1>1. IInv /\ [Next]_vars => IInv'
  BY Inductive
<1> QED
  BY <1>1, InitHolds, PTL DEF Spec

-----------------------------------------------------------------------------
\* A buffer filled from the file holds an interval of it.
Kept(buf, next) == {buf[j] : j \in next + 1 .. Len(buf)}
Interval(from, to) == {i \in Update : from <= i /\ i < to}

LEMMA Segment ==
  ASSUME NEW off \in Nat, NEW next \in Nat, NEW buf, Len(buf) \in Nat,
         \A j \in 1 .. Len(buf) : buf[j] = off + j - 1,
         off + Len(buf) <= NumEdges
  PROVE  Kept(buf, next) = Interval(off + next, off + Len(buf))
<1> DEFINE len == Len(buf)
           held == {buf[j] : j \in next + 1 .. len}
           owned == {i \in Update : off + next <= i /\ i < off + len}
<1>1. len \in Nat /\ off + len <= NumEdges /\ \A j \in 1 .. len : buf[j] = off + j - 1
  OBVIOUS
<1> HIDE DEF len
<1>2. ASSUME NEW j \in next + 1 .. len PROVE buf[j] \in owned
  <2>1. buf[j] = off + j - 1 /\ j \in Int /\ next + 1 <= j /\ j <= len
    BY <1>1
  <2>2. off + j - 1 \in owned
    BY <1>1, <2>1, Constants DEF Update
  <2> QED
    BY <2>1, <2>2
<1>3. ASSUME NEW i \in owned PROVE i \in held
  <2> DEFINE j == i - off + 1
  <2>1. i \in Int /\ off + next <= i /\ i < off + len
    BY <1>3, Constants DEF Update
  <2>2. j \in next + 1 .. len /\ j \in 1 .. len /\ off + j - 1 = i
    BY <1>1, <2>1
  <2> HIDE DEF j
  <2>3. buf[j] = i
    BY <1>1, <2>2
  <2> QED
    BY <2>2, <2>3
<1>4. held \subseteq owned
  BY <1>2
<1>5. held = owned
  BY <1>3, <1>4
<1> QED
  BY <1>5 DEF len, Kept, Interval

\* What a reader holds is its interval.
LEMMA HoldsOwned ==
  ASSUME IInv, NEW r \in Reader
  PROVE  Holds(r) = Owned(r)
<1> DEFINE me == reader[r]
           index == stream.index
<1>1. /\ me \in ReaderState /\ Sound(me, stream.off, index)
      /\ stream.off \in Nat /\ index \in Nat
      /\ me.off \in Nat /\ me.next \in Nat /\ me.want \in Nat
      /\ me.buf \in Seq(Int) /\ Len(me.buf) \in Nat /\ me.at \in Place
  BY OneReader DEF ReaderState
<1>2. CASE me.at \in {"compare", "truncate"}
  <2>1. Holds(r) = {i \in Update : me.off <= i /\ i < me.off + BufSize /\ i < index}
    BY <1>2 DEF Holds
  <2>2. Owned(r) = {i \in Update : me.off <= i /\ i < Least(me.off + BufSize, index)}
    BY <1>1, <1>2 DEF Owned, Own, Hi, Sound
  <2> QED
    BY <1>1, <2>1, <2>2, Constants DEF Least, Update
<1>3. CASE me.at = "read"
  <2>1. Holds(r) = {i \in Update : me.off <= i /\ i < me.off + me.want /\ i < index}
    BY <1>3 DEF Holds
  <2>2. Owned(r) = {i \in Update : me.off <= i /\ i < me.off + me.want}
    BY <1>1, <1>3 DEF Owned, Own, Hi, Sound
  <2>3. \A i \in Owned(r) : i < index
    BY DEF IInv, Distributed, Passed
  <2> QED
    BY <2>1, <2>2, <2>3
<1>4. CASE me.at = "get"
  <2>1. Holds(r) = Kept(me.buf, me.next)
    BY <1>4 DEF Holds, Kept
  <2>2. Owned(r) = Interval(me.off + me.next, me.off + Len(me.buf))
    BY <1>1, <1>4 DEF Owned, Own, Hi, Interval
  <2>3. /\ \A j \in 1 .. Len(me.buf) : me.buf[j] = me.off + j - 1
        /\ me.off + Len(me.buf) <= NumEdges
    BY <1>1, <1>4 DEF Sound
  <2>4. Kept(me.buf, me.next) = Interval(me.off + me.next, me.off + Len(me.buf))
    BY <1>1, <2>3, Segment
  <2> QED
    BY <2>1, <2>2, <2>4
<1>5. CASE me.at \in Place \ {"compare", "truncate", "read", "get"}
  <2>1. Holds(r) = {}
    BY <1>5 DEF Holds, Place
  <2>2. Owned(r) = {}
    BY <1>1, <1>5 DEF Owned, Own, Hi, Update, Place
  <2> QED
    BY <2>1, <2>2
<1> QED
  BY <1>1, <1>2, <1>3, <1>4, <1>5

LEMMA HeldOnce == IInv => OneHolder
<1> SUFFICES ASSUME IInv, NEW i \in Update
             PROVE  applied[i] + Cardinality({r \in Reader : i \in Holds(r)})
                      = IF i < Least(stream.off, stream.index) THEN 1 ELSE 0
  BY DEF OneHolder
<1> DEFINE holders == {r \in Reader : i \in Holds(r)}
<1>1. stream.off \in Nat /\ stream.index \in Nat /\ i \in Int
  BY Constants DEF IInv, Shape, Update
<1>2. i < Least(stream.off, stream.index) <=> Passed(i)
  BY <1>1 DEF Least, Passed
<1>3. \A r \in Reader : i \in Holds(r) <=> i \in Owned(r)
  BY HoldsOwned
<1>4. Distributed
  BY DEF IInv
<1>5. CASE holders = {}
  <2>1. Cardinality(holders) = 0
    BY <1>5, FS_EmptySet
  <2>2. applied[i] = IF Passed(i) THEN 1 ELSE 0
    BY <1>3, <1>4, <1>5 DEF Distributed
  <2> QED
    BY <1>2, <2>1, <2>2
<1>6. CASE holders # {}
  <2>1. PICK r \in Reader : i \in Owned(r)
    BY <1>3, <1>6
  <2>2. holders = {r}
    BY <1>3, <1>4, <2>1 DEF Distributed
  <2>3. Cardinality(holders) = 1
    BY <2>2, FS_Singleton
  <2>4. Passed(i) /\ applied[i] = 0
    BY <1>4, <2>1 DEF Distributed
  <2> QED
    BY <1>2, <2>3, <2>4
<1> QED
  BY <1>5, <1>6

\* However many threads read a file of any length in blocks of any length: an
\* update the offset has passed was handed out once or is in the hands of one
\* reader, and no other update is, when pread returns what it was asked for.
THEOREM OneHolderAlways == ASSUME ~ShortReads PROVE Spec => []OneHolder
BY Invariance, HeldOnce, PTL

-----------------------------------------------------------------------------
\* A reader that has data has all it wanted.
Filled ==
  \A r \in Reader :
    reader[r].at = "get" /\ reader[r].inBuf > 0 => reader[r].inBuf = reader[r].want

\* A step that does not read leaves a reader with the data it has or with none.
LEMMA FilledStep ==
  ASSUME ~ShortReads, IInv, Filled, [Next]_vars
  PROVE  Filled'
<1>1. /\ reader \in [Reader -> ReaderState] /\ stream \in [off : Nat, index : Nat, block : BOOLEAN]
      /\ \A r \in Reader : Sound(reader[r], stream.off, stream.index)
  BY DEF IInv, Shape, AllSound
<1>2. ASSUME reader' = reader PROVE Filled'
  BY <1>2 DEF Filled
<1>3. ASSUME NEW r \in Reader, NEW m, reader' = [reader EXCEPT ![r] = m],
             m.at = "get" /\ m.inBuf > 0 => m.inBuf = m.want
      PROVE  Filled'
  BY <1>1, <1>3 DEF Filled
<1>4. ASSUME NEW r \in Reader, Step(r) PROVE Filled'
  <2>1. reader[r] \in ReaderState
    BY <1>1
  <2>2. ASSUME NEW place, place # "get", Goto(r, place) PROVE Filled'
    <3>1. PICK m : m = [reader[r] EXCEPT !.at = place]
      OBVIOUS
    <3>2. m.at = place /\ reader' = [reader EXCEPT ![r] = m]
      BY <1>1, <2>1, <2>2, <3>1 DEF Goto, ReaderState
    <3> QED
      BY <1>3, <2>2, <3>2
  <2>3. CASE Breakpoint(r) \/ Refill(r)
    <3>1. PICK m : (m = Idle("stopped") \/ m = Idle("block?")) /\ reader' = [reader EXCEPT ![r] = m]
      BY <2>3 DEF Breakpoint, Refill
    <3>2. m.at # "get"
      BY <3>1 DEF Idle
    <3> QED
      BY <1>3, <3>1, <3>2
  <2>4. CASE Hand(r)
    <3>1. PICK m : m = [reader[r] EXCEPT !.next = reader[r].next + 1]
      OBVIOUS
    <3>2. reader' = [reader EXCEPT ![r] = m]
      BY <1>1, <2>4, <3>1 DEF Hand
    <3>3. m.at = reader[r].at /\ m.inBuf = reader[r].inBuf /\ m.want = reader[r].want
      BY <2>1, <3>1 DEF ReaderState
    <3> QED
      BY <1>3, <3>2, <3>3 DEF Filled
  <2>5. CASE Claim(r)
    <3>1. PICK m : m = [reader[r] EXCEPT !.at = "compare", !.off = stream.off]
      OBVIOUS
    <3>2. m.at # "get" /\ reader' = [reader EXCEPT ![r] = m]
      BY <1>1, <2>1, <2>5, <3>1 DEF Claim, ReaderState
    <3> QED
      BY <1>3, <3>2
  <2>6. ASSUME NEW want, reader' = [reader EXCEPT ![r].at = "read", ![r].want = want]
        PROVE  Filled'
    <3>1. PICK m : m = [reader[r] EXCEPT !.at = "read", !.want = want]
      OBVIOUS
    <3>2. m.at # "get" /\ reader' = [reader EXCEPT ![r] = m]
      BY <1>1, <2>1, <2>6, <3>1 DEF ReaderState
    <3> QED
      BY <1>3, <3>2
  <2>7. CASE Pread(r)
    <3>1. PICK got : reader' = [reader EXCEPT ![r] = [reader[r] EXCEPT
             !.buf = got, !.inBuf = reader[r].want, !.at = "get"]]
      BY <2>7, PreadIs
    <3>2. PICK m : m = [reader[r] EXCEPT !.buf = got, !.inBuf = reader[r].want, !.at = "get"]
      OBVIOUS
    <3>3. m.inBuf = m.want
      BY <2>1, <3>2 DEF ReaderState
    <3> QED
      BY <1>3, <3>1, <3>2, <3>3
  <2>8. CASE CheckBlock(r) \/ CheckEnd(r) \/ CheckQuery(r)
    BY <2>2, <2>3, <2>8 DEF CheckBlock, CheckEnd, CheckQuery, Check
  <2>9. CASE Compare(r)
    BY <2>2, <2>3, <2>6, <2>9 DEF Compare
  <2>10. CASE Restore(r)
    BY <2>3, <2>10 DEF Restore
  <2>11. CASE Truncate(r)
    BY <2>6, <2>11 DEF Truncate
  <2> QED
    BY <1>4, <2>3, <2>4, <2>5, <2>7, <2>8, <2>9, <2>10, <2>11 DEF Step
<1>5. CASE Start
  <2>1. \A r \in Reader : reader'[r] = Idle("get")
    BY <1>5 DEF Start
  <2>2. \A r \in Reader : reader'[r].inBuf = 0
    BY <2>1 DEF Idle
  <2> QED
    BY <2>2 DEF Filled
<1>6. CASE (\E n \in 0 .. NumEdges + 1 : Register(n)) \/ OnDemand \/ Query \/ Resume \/ Reset
  BY <1>2, <1>6 DEF Register, OnDemand, Query, Resume, Reset
<1>7. CASE UNCHANGED vars
  BY <1>2, <1>7 DEF vars
<1> QED
  BY <1>4, <1>5, <1>6, <1>7 DEF Next

\* A buffer that is filled, of a block that is read in order.
LEMMA BlockIs == IInv /\ Filled => ReadsItsBlock
<1> SUFFICES ASSUME IInv, Filled, NEW r \in Reader, reader[r].at = "get", reader[r].inBuf > 0
             PROVE  reader[r].buf = [j \in 1 .. reader[r].want |-> reader[r].off + j - 1]
  BY DEF ReadsItsBlock
<1>1. reader[r] \in ReaderState /\ Sound(reader[r], stream.off, stream.index)
  BY OneReader
<1>2. /\ reader[r].buf \in Seq(Int) /\ Len(reader[r].buf) = reader[r].want
      /\ \A j \in 1 .. Len(reader[r].buf) : reader[r].buf[j] = reader[r].off + j - 1
  BY <1>1 DEF Sound, ReaderState, Filled
<1> QED
  BY <1>2

\* Whatever the truncation at a query, at the end of the file and by another
\* reader's writing back: what a reader hands out is the block it is to read,
\* from its first update to its last, when pread returns what it is asked for.
THEOREM ReadsItsBlockAlways == ASSUME ~ShortReads PROVE Spec => []ReadsItsBlock
<1>1. Init => Filled
  BY DEF Init, Filled, Idle
<1>2. IInv /\ Filled /\ [Next]_vars => Filled'
  BY FilledStep
<1> QED
  BY <1>1, <1>2, Invariance, BlockIs, PTL DEF Spec

-----------------------------------------------------------------------------
\* Every step of the readers and of the client is one UpdateStream allows.
LEMMA InitMaps == Init => Promise!Init
BY DEF Init, Promise!Init, Promise!Fresh, Promise!Update, Update

LEMMA ReadersMap ==
  ASSUME IInv, NEW r \in Reader, Step(r)
  PROVE  [Promise!Next]_(Promise!vars)
<1>1. CASE Hand(r)
  <2>1. PICK i \in Update : /\ i < stream.index /\ applied[i] = 0
                            /\ applied' = [applied EXCEPT ![i] = 1]
    BY <1>1, HandStep
  <2>2. Promise!Hand(i)
    BY <1>1, <2>1 DEF Promise!Hand, Hand, At
  <2>3. i \in Promise!Update
    BY DEF Promise!Update, Update
  <2> QED
    BY <2>2, <2>3 DEF Promise!Next
<1>2. CASE ~Hand(r)
  <2>1. applied' = applied /\ client' = client
    BY <1>2 DEF Step, Refill, CheckBlock, CheckEnd, CheckQuery, Check, Claim, Compare,
                Restore, Truncate, Pread
  <2>2. \/ stream' = stream
        \/ \E off : stream' = [stream EXCEPT !.off = off]
    BY <1>2 DEF Step, Refill, CheckBlock, CheckEnd, CheckQuery, Check, Claim, Compare,
                Restore, Truncate, Pread
  <2>3. stream'.index = stream.index /\ stream'.block = stream.block
    BY <2>2, OneReader
  <2> QED
    BY <2>1, <2>3 DEF Promise!vars
<1> QED
  BY <1>1, <1>2

LEMMA RegisterMaps ==
  ASSUME IInv, NEW n \in 0 .. NumEdges + 1, Register(n)
  PROVE  Promise!Next
<1>1. \A i \in Update : applied[i] = IF i < stream.off THEN 1 ELSE 0
  BY Settled DEF Register, IInv, Halted
<1>2. /\ stream \in [off : Nat, index : Nat, block : BOOLEAN]
      /\ client \in [phase : {"paused", "running", "query"}, requests : Nat]
      /\ n > stream.off /\ client.phase = "paused"
      /\ stream' = [stream EXCEPT !.index = n]
      /\ client' = [client EXCEPT !.requests = @ + 1] /\ applied' = applied
  BY DEF Register, IInv, Shape
<1>3. \A i \in Update : i >= n => applied[i] = 0
  BY <1>1, <1>2, Constants DEF Update
<1>4. stream'.index = n /\ stream'.block = stream.block /\ client'.phase = client.phase
  BY <1>2
<1>5. Promise!Register(n)
  BY <1>2, <1>3, <1>4 DEF Promise!Register, Promise!Update, Update
<1>6. n \in 0 .. NoQuery
  BY Constants
<1> QED
  BY <1>5, <1>6 DEF Promise!Next

\* When all readers have returned they have come to the query, to the end of
\* the file, or to a query that was asked for at once.
LEMMA QueryMaps ==
  ASSUME IInv, Query
  PROVE  Promise!Next
<1> DEFINE off == stream.off
           index == stream.index
           stop == Promise!Least(index, NumEdges)
<1>1. /\ off <= index \/ index >= NumEdges
      /\ \A i \in Update : applied[i] = IF i < off THEN 1 ELSE 0
  BY Settled DEF Query
<1>2. off \in Nat /\ index \in Nat
  BY DEF IInv, Shape
<1>3. stream.block \/ off >= index \/ off >= NumEdges
  BY StreamAssumption DEF Query, IInv, Halted, Reached
<1>4. ASSUME off >= index \/ off >= NumEdges
      PROVE  Promise!IsPrefix(stop)
  <2>1. \A i \in Update : i < off <=> i < stop
    BY <1>1, <1>2, <1>4, Constants DEF Promise!Least, Update
  <2> QED
    BY <1>1, <2>1 DEF Promise!IsPrefix, Promise!Update, Update
<1>5. \E n \in 0 .. stop : Promise!IsPrefix(n)
  <2> DEFINE n == Promise!Least(off, stop)
  <2>1. stop \in Nat /\ n \in 0 .. stop
    BY <1>2, Constants DEF Promise!Least
  <2>2. \A i \in Update : i < off <=> i < n
    BY <1>1, <1>2, Constants DEF Promise!Least, Update
  <2>3. Promise!IsPrefix(n)
    BY <1>1, <2>2 DEF Promise!IsPrefix, Promise!Update, Update
  <2> QED
    BY <2>1, <2>3
<1>6. /\ client \in [phase : {"paused", "running", "query"}, requests : Nat]
      /\ client.phase = "running"
      /\ client' = [client EXCEPT !.phase = "query"]
      /\ stream' = stream /\ applied' = applied
  BY DEF Query, IInv, Shape
<1>7. client'.phase = "query"
  BY <1>6
<1>8. \/ Promise!IsPrefix(stop)
      \/ stream.block /\ \E n \in 0 .. stop : Promise!IsPrefix(n)
  BY <1>3, <1>4, <1>5
<1>9. Promise!Query
  BY <1>6, <1>7, <1>8 DEF Promise!Query
<1> QED
  BY <1>9 DEF Promise!Next

LEMMA ClientMaps ==
  ASSUME IInv, Start \/ OnDemand \/ Resume \/ Reset
  PROVE  Promise!Next
<1>1. /\ stream \in [off : Nat, index : Nat, block : BOOLEAN]
      /\ client \in [phase : {"paused", "running", "query"}, requests : Nat]
  BY DEF IInv, Shape
<1>2. CASE Start
  <2>1. client'.phase = "running"
    BY <1>1, <1>2 DEF Start
  <2>2. Promise!Start
    BY <1>2, <2>1 DEF Promise!Start, Start
  <2> QED
    BY <2>2 DEF Promise!Next
<1>3. CASE OnDemand
  <2>1. stream'.block = TRUE /\ stream'.index = stream.index
    BY <1>1, <1>3 DEF OnDemand
  <2>2. client'.phase = client.phase
    BY <1>1, <1>3 DEF OnDemand
  <2>3. Promise!OnDemand
    BY <1>3, <2>1, <2>2 DEF Promise!OnDemand, OnDemand
  <2> QED
    BY <2>3 DEF Promise!Next
<1>4. CASE Resume
  <2>1. stream'.block = FALSE /\ stream'.index = NoQuery
    BY <1>1, <1>4 DEF Resume
  <2>2. client'.phase = "paused"
    BY <1>1, <1>4 DEF Resume
  <2>3. Promise!Resume
    BY <1>4, <2>1, <2>2 DEF Promise!Resume, Resume
  <2> QED
    BY <2>3 DEF Promise!Next
<1>5. CASE Reset
  <2>1. stream'.block = stream.block /\ stream'.index = stream.index
    BY <1>1, <1>5 DEF Reset
  <2>2. client'.phase = client.phase
    BY <1>1, <1>5 DEF Reset
  <2>3. Promise!Reset
    BY <1>5, <2>1, <2>2 DEF Promise!Reset, Promise!Fresh, Promise!Update, Reset, Update
  <2> QED
    BY <2>3 DEF Promise!Next
<1> QED
  BY <1>2, <1>3, <1>4, <1>5

LEMMA StepMaps ==
  ASSUME ~ShortReads, IInv, [Next]_vars
  PROVE  [Promise!Next]_(Promise!vars)
<1>1. CASE \E r \in Reader : Step(r)
  BY <1>1, ReadersMap
<1>2. CASE \E n \in 0 .. NumEdges + 1 : Register(n)
  BY <1>2, RegisterMaps
<1>3. CASE Query
  BY <1>3, QueryMaps
<1>4. CASE Start \/ OnDemand \/ Resume \/ Reset
  BY <1>4, ClientMaps
<1>5. CASE UNCHANGED vars
  BY <1>5 DEF vars, Promise!vars
<1> QED
  BY <1>1, <1>2, <1>3, <1>4, <1>5 DEF Next

\* The readers and their client implement UpdateStream for every number of
\* threads, every file and every length of a block: each update at most once,
\* none behind the registered query, and a prefix of the stream at each query.
THEOREM KeepsPromiseAlways == ASSUME ~ShortReads PROVE Spec => KeepsPromise
<1>1. IInv /\ [Next]_vars => [Promise!Next]_(Promise!vars)
  BY StepMaps
<1> QED
  BY <1>1, InitMaps, Invariance, PTL DEF Spec, KeepsPromise, Promise!Spec

-----------------------------------------------------------------------------
(* Types, also when pread returns less than it was asked for.  The offset  *)
(* never passes NoQuery: each reader that has seen it before the end, and  *)
(* has not yet claimed, may still add one block to it.                     *)

ReaderType ==
  [at : Place, off : 0 .. NoQuery, want : 0 .. BufSize, buf : Seq(Update),
   next : 0 .. 2 * BufSize, inBuf : 0 .. 2 * BufSize]

\* A reader that is past the check for the end and still to claim its block.
Claims(m) == m.at \in {"query?", "claim"}

\* What those readers may yet add to the offset, and what all of them could.
Load(f) == BufSize * Cardinality({r \in Reader : Claims(f[r])})
Full == BufSize * Cardinality(Reader)

\* What a reader's place says of the block it reads and of the offset.
Fits(m, off, index) ==
  /\ m.at \notin {"get", "read"} => m.inBuf = 0
  /\ m.at = "read" => m.inBuf < m.want /\ m.off + m.want <= NumEdges
  /\ m.at = "compare" => off >= m.off + BufSize \/ off >= index
  /\ m.at = "restore" => off >= index
  /\ m.at = "truncate" => off >= index /\ m.off < index /\ m.off < NumEdges

Typed ==
  /\ stream \in [off : Nat, index : 1 .. NoQuery, block : BOOLEAN]
  /\ reader \in [Reader -> ReaderType]
  /\ client \in [phase : {"paused", "running", "query"}, requests : 0 .. MaxRequests]
  /\ applied \in [Update -> Nat]
  /\ \A r \in Reader : Fits(reader[r], stream.off, stream.index)
  /\ client.phase # "running" => \A r \in Reader : reader[r].at = "stopped"
  /\ stream.off + Load(reader) <= NumEdges + Full

\* NoQuery is a block more than all readers can add to the length of the file.
LEMMA NoQueryIs == Full \in Nat /\ NoQuery \in Nat /\ NoQuery = NumEdges + Full + BufSize
<1>1. PICK c \in Nat : c = Cardinality(Reader)
  BY StreamAssumption, FS_CardinalityType
<1>2. PICK b \in Nat : b = BufSize
  BY Constants
<1>3. b * c \in Nat /\ (c + 1) * b = b * c + b
  OBVIOUS
<1>4. Full = b * c /\ NoQuery = NumEdges + (c + 1) * b
  BY <1>1, <1>2 DEF Full, NoQuery
<1> QED
  BY <1>2, <1>3, <1>4, Constants

\* A reader that begins or ends to be one that claims changes the load by a block.
LEMMA LoadStep ==
  ASSUME NEW f, NEW r \in Reader, NEW m, NEW g, r \in DOMAIN f, g = [f EXCEPT ![r] = m]
  PROVE  /\ Load(f) \in Nat /\ Load(g) \in Nat /\ Load(g) <= Full
         /\ Claims(f[r]) /\ ~Claims(m) => Load(f) = Load(g) + BufSize
         /\ ~Claims(f[r]) /\ Claims(m) => Load(g) = Load(f) + BufSize
         /\ (Claims(f[r]) <=> Claims(m)) => Load(g) = Load(f)
<1>1. PICK C, D : C = {s \in Reader : Claims(f[s])} /\ D = {s \in Reader : Claims(g[s])}
  OBVIOUS
<1>2. g[r] = m /\ \A s \in Reader : s # r => g[s] = f[s]
  OBVIOUS
<1>3. /\ IsFiniteSet(Reader) /\ Cardinality(Reader) \in Nat
      /\ IsFiniteSet(C) /\ Cardinality(C) \in Nat
      /\ IsFiniteSet(D) /\ Cardinality(D) \in Nat /\ Cardinality(D) <= Cardinality(Reader)
  <2>1. C \in SUBSET Reader /\ D \in SUBSET Reader
    BY <1>1
  <2> QED
    BY <2>1, StreamAssumption, FS_Subset, FS_CardinalityType
<1>4. PICK b, c, d, n : /\ b = BufSize /\ c = Cardinality(C)
                        /\ d = Cardinality(D) /\ n = Cardinality(Reader)
  OBVIOUS
<1>5. b \in Nat /\ c \in Nat /\ d \in Nat /\ n \in Nat /\ d <= n
  BY <1>3, <1>4, Constants
<1>6. Load(f) = b * c /\ Load(g) = b * d /\ Full = b * n
  BY <1>1, <1>4 DEF Load, Full
<1>7. b * c \in Nat /\ b * d \in Nat /\ b * d <= b * n
  <2>0. n - d \in Nat /\ n = d + (n - d)
    BY <1>5
  <2>1. PICK k \in Nat : n = d + k
    BY <2>0
  <2>2. b * n = b * d + b * k /\ b * k \in Nat /\ b * d \in Nat /\ b * c \in Nat
    BY <1>5, <2>1
  <2> QED
    BY <2>2
<1>8. ASSUME Claims(f[r]), ~Claims(m)
      PROVE  b * c = b * d + b
  <2>1. D = C \ {r} /\ r \in C
    BY <1>1, <1>2, <1>8
  <2>2. d = c - 1
    BY <1>3, <1>4, <2>1, FS_RemoveElement
  <2>3. c = d + 1
    BY <1>5, <2>2
  <2> QED
    BY <1>5, <2>3
<1>9. ASSUME ~Claims(f[r]), Claims(m)
      PROVE  b * d = b * c + b
  <2>1. D = C \cup {r} /\ r \notin C
    BY <1>1, <1>2, <1>9
  <2>2. d = c + 1
    BY <1>3, <1>4, <2>1, FS_AddElement
  <2> QED
    BY <1>5, <2>2
<1>10. ASSUME Claims(f[r]) <=> Claims(m)
       PROVE  d = c
  <2>1. C = D
    BY <1>1, <1>2, <1>10
  <2> QED
    BY <1>4, <2>1
<1> QED
  BY <1>4, <1>6, <1>7, <1>8, <1>9, <1>10

\* A step of one reader keeps the types when what it becomes has its type.
LEMMA TypedStep ==
  ASSUME Typed, client.phase = "running", client' = client,
         NEW r \in Reader, NEW m \in ReaderType, reader' = [reader EXCEPT ![r] = m],
         applied' \in [Update -> Nat],
         NEW off \in Nat, stream' = [stream EXCEPT !.off = off],
         off >= stream.off \/ off >= stream.index,
         Fits(m, off, stream.index),
         \/ Claims(m) /\ ~Claims(reader[r]) /\ off <= NumEdges
         \/ (Claims(m) <=> Claims(reader[r])) /\ off <= stream.off
         \/ ~Claims(m) /\ Claims(reader[r]) /\ off <= stream.off + BufSize
  PROVE  Typed'
<1>1. /\ stream \in [off : Nat, index : 1 .. NoQuery, block : BOOLEAN]
      /\ reader \in [Reader -> ReaderType]
      /\ \A s \in Reader : Fits(reader[s], stream.off, stream.index)
      /\ stream.off + Load(reader) <= NumEdges + Full /\ stream.off \in Nat
  BY DEF Typed
<1>2. /\ stream' \in [off : Nat, index : 1 .. NoQuery, block : BOOLEAN]
      /\ stream'.off = off /\ stream'.index = stream.index
  BY <1>1
<1>3. reader' \in [Reader -> ReaderType]
  BY <1>1
<1>4. \A s \in Reader : Fits(reader'[s], stream'.off, stream'.index)
  <2>1. ASSUME NEW s \in Reader, s # r
        PROVE  Fits(reader'[s], off, stream.index)
    <3>1. reader'[s] = reader[s] /\ Fits(reader[s], stream.off, stream.index)
      BY <1>1, <2>1
    <3>2. PICK m2 : m2 = reader[s]
      OBVIOUS
    <3>3. m2.off \in Nat
      <4>1. m2 \in ReaderType
        BY <1>1, <3>2
      <4> QED
        BY <4>1 DEF ReaderType
    <3>4. PICK i \in Nat : i = stream.index
      <4>1. stream.index \in 1 .. NoQuery
        BY <1>1
      <4> QED
        BY <4>1, NoQueryIs
    <3>5. Fits(m2, stream.off, i) /\ (off >= stream.off \/ off >= i)
      BY <3>1, <3>2, <3>4
    <3>6. Fits(m2, off, i)
      BY <1>1, <3>3, <3>5, Constants DEF Fits
    <3> QED
      BY <3>1, <3>2, <3>4, <3>6
  <2>2. reader'[r] = m
    BY <1>1
  <2> QED
    BY <1>2, <2>1, <2>2
<1>5. off + Load(reader') <= NumEdges + Full
  <2>1. PICK f, g : f = reader /\ g = reader'
    OBVIOUS
  <2>2. r \in Reader /\ r \in DOMAIN f /\ g = [f EXCEPT ![r] = m]
    BY <1>1, <2>1
  <2>3. /\ Load(f) \in Nat /\ Load(g) \in Nat /\ Load(g) <= Full
        /\ Claims(f[r]) /\ ~Claims(m) => Load(f) = Load(g) + BufSize
        /\ ~Claims(f[r]) /\ Claims(m) => Load(g) = Load(f) + BufSize
        /\ (Claims(f[r]) <=> Claims(m)) => Load(g) = Load(f)
    BY ONLY <2>2, LoadStep
  <2>4. PICK x, y : x = Load(f) /\ y = Load(g)
    OBVIOUS
  <2>5. /\ x \in Nat /\ y \in Nat /\ y <= Full /\ stream.off + x <= NumEdges + Full
        /\ \/ off <= NumEdges
           \/ y = x /\ off <= stream.off
           \/ x = y + BufSize /\ off <= stream.off + BufSize
    BY <1>1, <2>1, <2>3, <2>4
  <2>6. off + y <= NumEdges + Full
    BY <1>1, <2>5, Constants, NoQueryIs
  <2> QED
    BY <2>1, <2>4, <2>6
<1> QED
  BY <1>2, <1>3, <1>4, <1>5 DEF Typed

\* What Typed says of one reader.
LEMMA OneTyped ==
  ASSUME Typed, NEW r \in Reader
  PROVE  /\ reader[r] \in ReaderType
         /\ Fits(reader[r], stream.off, stream.index)
         /\ reader \in [Reader -> ReaderType]
         /\ stream \in [off : Nat, index : 1 .. NoQuery, block : BOOLEAN]
         /\ stream = [stream EXCEPT !.off = stream.off]
         /\ stream.off \in Nat /\ stream.index \in Nat /\ stream.index <= NoQuery
         /\ applied \in [Update -> Nat]
         /\ stream.off <= NoQuery
<1>1. /\ stream \in [off : Nat, index : 1 .. NoQuery, block : BOOLEAN]
      /\ reader \in [Reader -> ReaderType] /\ applied \in [Update -> Nat]
      /\ \A s \in Reader : Fits(reader[s], stream.off, stream.index)
      /\ stream.off + Load(reader) <= NumEdges + Full /\ stream.off \in Nat
  BY DEF Typed
<1>2. Load(reader) \in Nat
  <2>1. r \in DOMAIN reader /\ reader = [reader EXCEPT ![r] = reader[r]]
    BY <1>1
  <2> QED
    BY <2>1, LoadStep
<1>3. stream.off <= NoQuery
  BY <1>1, <1>2, Constants, NoQueryIs
<1> QED
  BY <1>1, <1>3, NoQueryIs

\* An idle reader has its type.
LEMMA IdleTyped ==
  ASSUME NEW at \in Place \ {"compare", "restore", "truncate", "read"}, NEW off, NEW index
  PROVE  /\ Idle(at) \in ReaderType
         /\ Fits(Idle(at), off, index)
         /\ Idle(at).at = at
<1>1. 0 \in 0 .. NoQuery /\ 0 \in 0 .. BufSize /\ 0 \in 0 .. 2 * BufSize
  BY Constants
<1> QED
  BY <1>1 DEF Idle, ReaderType, Fits, Place

\* The steps before the claim keep the types.
LEMMA ChecksTyped ==
  ASSUME Typed, NEW r \in Reader, Refill(r) \/ CheckBlock(r) \/ CheckEnd(r) \/ CheckQuery(r)
  PROVE  Typed'
<1>1. /\ client.phase = "running" /\ client' = client /\ applied' = applied /\ stream' = stream
  BY DEF Refill, CheckBlock, CheckEnd, CheckQuery, Check, At
<1>2. PICK me : me = reader[r]
  OBVIOUS
<1>3. /\ me \in ReaderType /\ Fits(me, stream.off, stream.index)
      /\ stream' = [stream EXCEPT !.off = stream.off] /\ stream.off \in Nat
      /\ applied' \in [Update -> Nat] /\ reader \in [Reader -> ReaderType]
  BY <1>1, <1>2, OneTyped
<1>4. ASSUME NEW at \in {"stopped", "block?"}, reader' = [reader EXCEPT ![r] = Idle(at)]
      PROVE  Typed'
  <2>1. PICK m : m = Idle(at)
    OBVIOUS
  <2>2. m \in ReaderType /\ Fits(m, stream.off, stream.index) /\ m.at = at
    BY <2>1, IdleTyped DEF Place
  <2>3. ~Claims(m) /\ stream.off <= stream.off + BufSize /\ stream.off <= stream.off
    BY <1>3, <2>2, Constants DEF Claims
  <2>4. reader' = [reader EXCEPT ![r] = m]
    BY <1>4, <2>1
  <2> QED
    BY <1>1, <1>3, <2>2, <2>3, <2>4, TypedStep
<1>5. ASSUME NEW place \in {"block?", "end?", "query?"}, NEW next \in {"end?", "query?", "claim"},
             me.at = place, reader' = [reader EXCEPT ![r].at = next],
             \/ place = "block?" /\ next = "end?"
             \/ place = "end?" /\ next = "query?" /\ stream.off < NumEdges
             \/ place = "query?" /\ next = "claim"
      PROVE  Typed'
  <2>1. PICK m : m = [me EXCEPT !.at = next]
    OBVIOUS
  <2>2. m \in ReaderType /\ m.at = next /\ m.inBuf = me.inBuf
    BY <1>3, <2>1 DEF ReaderType, Place
  <2>3. Fits(m, stream.off, stream.index)
    BY <1>3, <1>5, <2>2 DEF Fits
  <2>4. reader' = [reader EXCEPT ![r] = m]
    BY <1>2, <1>3, <1>5, <2>1
  <2>5. \/ Claims(m) /\ ~Claims(reader[r]) /\ stream.off <= NumEdges
        \/ (Claims(m) <=> Claims(reader[r])) /\ stream.off <= stream.off
    BY <1>2, <1>3, <1>5, <2>2, Constants DEF Claims
  <2>6. stream.off >= stream.off
    BY <1>3
  <2> QED
    BY <1>1, <1>3, <2>2, <2>3, <2>4, <2>5, <2>6, TypedStep, Zenon
<1>6. CASE Refill(r)
  BY <1>4, <1>6 DEF Refill
<1>7. CASE CheckBlock(r)
  BY <1>2, <1>4, <1>5, <1>7 DEF CheckBlock, Check, Breakpoint, Goto, At
<1>8. CASE CheckEnd(r)
  BY <1>2, <1>3, <1>4, <1>5, <1>8, Constants DEF CheckEnd, Check, Breakpoint, Goto, At
<1>9. CASE CheckQuery(r)
  BY <1>2, <1>4, <1>5, <1>9 DEF CheckQuery, Check, Breakpoint, Goto, At
<1> QED
  BY <1>6, <1>7, <1>8, <1>9

\* What is wanted of a block that begins before the end.
LEMMA WantedIs ==
  ASSUME NEW off \in Nat, NEW end \in Nat, off < NumEdges, off < end
  PROVE  /\ Wanted(off, end) \in 1 .. BufSize
         /\ off + Wanted(off, end) <= NumEdges
BY Constants DEF Wanted, Least

\* So do the claim and what is made of it.
LEMMA ClaimTyped ==
  ASSUME Typed, NEW r \in Reader, Claim(r) \/ Compare(r) \/ Restore(r) \/ Truncate(r)
  PROVE  Typed'
<1>1. client.phase = "running" /\ client' = client /\ applied' = applied
  BY DEF Claim, Compare, Restore, Truncate, At
<1>2. PICK me, off, index : me = reader[r] /\ off = stream.off /\ index = stream.index
  OBVIOUS
<1>3. /\ me \in ReaderType /\ Fits(me, off, index) /\ me.off \in Nat
      /\ stream \in [off : Nat, index : 1 .. NoQuery, block : BOOLEAN]
      /\ stream = [stream EXCEPT !.off = off] /\ off \in Nat /\ index \in Nat
      /\ off <= NoQuery /\ index <= NoQuery
      /\ applied' \in [Update -> Nat] /\ reader \in [Reader -> ReaderType]
  BY <1>1, <1>2, OneTyped DEF ReaderType
<1>4. CASE Claim(r)
  <2>1. PICK m : m = [me EXCEPT !.at = "compare", !.off = off]
    OBVIOUS
  <2>2. m \in ReaderType /\ m.at = "compare" /\ m.inBuf = me.inBuf
    <3>1. off \in 0 .. NoQuery
      BY <1>3, NoQueryIs
    <3> QED
      BY <1>3, <2>1, <3>1 DEF ReaderType, Place
  <2>3. me.at = "claim"
    BY <1>2, <1>4 DEF Claim, At
  <2>6. PICK to : to = off + BufSize
    OBVIOUS
  <2>4. Fits(m, to, index) /\ to >= off
    <3>1. m.off = off
      BY <1>3, <2>1 DEF ReaderType
    <3> QED
      BY <1>3, <2>2, <2>3, <2>6, <3>1, Constants DEF Fits
  <2>5. reader' = [reader EXCEPT ![r] = m]
    BY <1>2, <1>3, <1>4, <2>1 DEF Claim
  <2>7. /\ to \in Nat /\ stream' = [stream EXCEPT !.off = to]
        /\ ~Claims(m) /\ Claims(reader[r]) /\ to <= stream.off + BufSize
    BY <1>2, <1>3, <1>4, <2>2, <2>3, <2>6, Constants DEF Claim, Claims
  <2> QED
    BY <1>1, <1>2, <1>3, <2>2, <2>4, <2>5, <2>7, TypedStep
<1>5. ASSUME NEW m \in ReaderType, NEW to \in {off, index}, to <= off, Fits(m, to, index),
             reader' = [reader EXCEPT ![r] = m], ~Claims(m), ~Claims(me),
             stream' = [stream EXCEPT !.off = to]
      PROVE  Typed'
  <2>1. /\ to \in Nat /\ to <= stream.off /\ (Claims(m) <=> Claims(reader[r]))
        /\ to >= stream.off \/ to >= stream.index
    BY <1>2, <1>3, <1>5
  <2> QED
    BY <1>1, <1>2, <1>3, <1>5, <2>1, TypedStep
<1>6. PICK m : m = Idle("stopped")
  OBVIOUS
<1>7. m \in ReaderType /\ (\A to : Fits(m, to, index)) /\ ~Claims(m)
  BY <1>6, IdleTyped DEF Claims, Place
<1>8. CASE Compare(r)
  <2>1. me.at = "compare" /\ ~Claims(me) /\ stream' = [stream EXCEPT !.off = off] /\ me.inBuf = 0
    BY <1>2, <1>3, <1>8 DEF Compare, At, Claims, Fits
  <2>0. off \in {off, index} /\ off <= off
    BY <1>3
  <2>2. CASE me.off >= index
    <3>1. PICK k : k = [me EXCEPT !.at = "restore"]
      OBVIOUS
    <3>2. k \in ReaderType /\ k.at = "restore" /\ k.inBuf = 0
      BY <1>3, <2>1, <3>1 DEF ReaderType, Place
    <3>3. Fits(k, off, index) /\ ~Claims(k)
      BY <1>3, <2>1, <2>2, <3>2, Constants DEF Fits, Claims
    <3>4. reader' = [reader EXCEPT ![r] = k]
      BY <1>2, <1>3, <1>8, <2>2, <3>1 DEF Compare, Goto
    <3> QED
      BY <1>5, <2>0, <2>1, <3>2, <3>3, <3>4, Zenon
  <2>3. CASE me.off < index /\ me.off >= NumEdges
    <3>1. reader' = [reader EXCEPT ![r] = m]
      BY <1>2, <1>3, <1>6, <1>8, <2>3 DEF Compare, Breakpoint
    <3> QED
      BY <1>5, <1>7, <2>0, <2>1, <3>1, Zenon
  <2>4. CASE me.off < index /\ me.off < NumEdges /\ index < me.off + BufSize
    <3>1. PICK k : k = [me EXCEPT !.at = "truncate"]
      OBVIOUS
    <3>2. k \in ReaderType /\ k.at = "truncate" /\ k.inBuf = 0 /\ k.off = me.off
      BY <1>3, <2>1, <3>1 DEF ReaderType, Place
    <3>3. Fits(k, off, index) /\ ~Claims(k)
      BY <1>3, <2>1, <2>4, <3>2, Constants DEF Fits, Claims
    <3>4. reader' = [reader EXCEPT ![r] = k]
      BY <1>2, <1>3, <1>8, <2>4, <3>1, Constants DEF Compare, Goto
    <3> QED
      BY <1>5, <2>0, <2>1, <3>2, <3>3, <3>4, Zenon
  <2>5. CASE me.off < index /\ me.off < NumEdges /\ ~(index < me.off + BufSize)
    <3>1. PICK w : w = Wanted(me.off, NoQuery)
      OBVIOUS
    <3>2. w \in 1 .. BufSize /\ w \in 0 .. BufSize /\ w > 0 /\ me.off + w <= NumEdges
      <4>1. w \in 1 .. BufSize /\ me.off + w <= NumEdges
        BY <1>3, <2>5, <3>1, WantedIs, Constants
      <4> QED
        BY <4>1, Constants
    <3>3. PICK k : k = [me EXCEPT !.at = "read", !.want = w]
      OBVIOUS
    <3>4. k \in ReaderType /\ k.at = "read" /\ k.inBuf = 0 /\ k.off = me.off /\ k.want = w
      BY <1>3, <2>1, <3>2, <3>3 DEF ReaderType, Place
    <3>5. Fits(k, off, index) /\ ~Claims(k)
      BY <3>2, <3>4 DEF Fits, Claims
    <3>6. reader' = [reader EXCEPT ![r] = k]
      <4>1. reader' = [reader EXCEPT ![r].at = "read", ![r].want = w]
        BY <1>2, <1>3, <1>8, <2>5, <3>1, Constants DEF Compare
      <4> QED
        BY <1>2, <1>3, <3>3, <4>1
    <3> QED
      BY <1>5, <2>0, <2>1, <3>4, <3>5, <3>6, Zenon
  <2> QED
    BY <1>3, <2>2, <2>3, <2>4, <2>5, Constants
<1>9. CASE Restore(r)
  <2>1. /\ me.at = "restore" /\ ~Claims(me) /\ stream' = [stream EXCEPT !.off = index]
        /\ reader' = [reader EXCEPT ![r] = m] /\ index <= off
    BY <1>2, <1>3, <1>6, <1>9 DEF Restore, Breakpoint, At, Claims, Fits
  <2> QED
    BY <1>5, <1>7, <2>1
<1>10. CASE Truncate(r)
  <2>1. /\ me.at = "truncate" /\ ~Claims(me) /\ stream' = [stream EXCEPT !.off = index]
        /\ me.inBuf = 0 /\ me.off < index /\ me.off < NumEdges /\ index <= off
    BY <1>2, <1>3, <1>10 DEF Truncate, At, Claims, Fits
  <2>2. PICK w : w = Wanted(me.off, index)
    OBVIOUS
  <2>3. w \in 1 .. BufSize /\ w \in 0 .. BufSize /\ w > 0 /\ me.off + w <= NumEdges
    <3>1. w \in 1 .. BufSize /\ me.off + w <= NumEdges
      BY <1>3, <2>1, <2>2, WantedIs
    <3> QED
      BY <3>1, Constants
  <2>4. PICK k : k = [me EXCEPT !.at = "read", !.want = w]
    OBVIOUS
  <2>5. k \in ReaderType /\ k.at = "read" /\ k.inBuf = 0 /\ k.off = me.off /\ k.want = w
    BY <1>3, <2>1, <2>3, <2>4 DEF ReaderType, Place
  <2>6. Fits(k, index, index) /\ ~Claims(k)
    BY <2>3, <2>5 DEF Fits, Claims
  <2>7. reader' = [reader EXCEPT ![r] = k]
    BY <1>2, <1>3, <1>10, <2>2, <2>4 DEF Truncate
  <2> QED
    BY <1>5, <2>1, <2>5, <2>6, <2>7
<1> QED
  BY <1>4, <1>8, <1>9, <1>10

\* Handing out an update counts it, unless it is none of the file's.
LEMMA HandTyped ==
  ASSUME Typed, NEW r \in Reader, Hand(r)
  PROVE  Typed'
<1>1. PICK me : me = reader[r]
  OBVIOUS
<1>2. /\ me \in ReaderType /\ Fits(me, stream.off, stream.index)
      /\ stream = [stream EXCEPT !.off = stream.off] /\ stream.off \in Nat
      /\ applied \in [Update -> Nat] /\ reader \in [Reader -> ReaderType]
  BY <1>1, OneTyped
<1>3. /\ client.phase = "running" /\ client' = client /\ stream' = stream
      /\ me.at = "get" /\ me.next < me.inBuf
      /\ reader' = [reader EXCEPT ![r].next = @ + 1]
  BY <1>1 DEF Hand, At
<1>4. applied' \in [Update -> Nat]
  <2>1. PICK i : /\ i = IF me.next < Len(me.buf) THEN me.buf[me.next + 1] ELSE Garbage
                 /\ applied' = IF i = Garbage THEN applied ELSE [applied EXCEPT ![i] = @ + 1]
    BY <1>1 DEF Hand
  <2>2. i = Garbage \/ i \in Update
    <3>1. PICK b, n : b = me.buf /\ n = me.next
      OBVIOUS
    <3>2. b \in Seq(Update) /\ n \in Nat
      BY <1>2, <3>1 DEF ReaderType
    <3>3. n < Len(b) => n + 1 \in 1 .. Len(b)
      BY <3>2
    <3>4. n < Len(b) => b[n + 1] \in Update
      BY <3>2, <3>3
    <3> QED
      BY <2>1, <3>1, <3>4
  <2> QED
    BY <1>2, <2>1, <2>2
<1>5. PICK m : m = [me EXCEPT !.next = @ + 1]
  OBVIOUS
<1>6. /\ m \in ReaderType /\ m.at = "get" /\ m.inBuf = me.inBuf
      /\ reader' = [reader EXCEPT ![r] = m]
  <2>1. me.next \in Nat /\ me.inBuf \in 0 .. 2 * BufSize
    BY <1>2, Constants DEF ReaderType
  <2>2. me.next + 1 \in 0 .. 2 * BufSize
    BY <1>3, <2>1, Constants
  <2>3. m \in ReaderType /\ m.at = "get" /\ m.inBuf = me.inBuf
    BY <1>2, <1>3, <1>5, <2>2 DEF ReaderType
  <2> QED
    BY <1>1, <1>2, <1>3, <1>5, <2>3
<1>7. Fits(m, stream.off, stream.index) /\ ~Claims(m) /\ ~Claims(reader[r])
  BY <1>1, <1>3, <1>6 DEF Fits, Claims
<1>8. stream' = [stream EXCEPT !.off = stream.off] /\ stream.off >= stream.off
  BY <1>2, <1>3
<1> QED
  BY <1>2, <1>3, <1>4, <1>6, <1>7, <1>8, TypedStep

\* Reading fills the buffer with updates of the file, however much pread returns.
LEMMA PreadTyped ==
  ASSUME Typed, NEW r \in Reader, Pread(r)
  PROVE  Typed'
<1>1. PICK me : me = reader[r]
  OBVIOUS
<1>2. /\ me \in ReaderType /\ Fits(me, stream.off, stream.index)
      /\ stream = [stream EXCEPT !.off = stream.off] /\ stream.off \in Nat
      /\ applied \in [Update -> Nat] /\ reader \in [Reader -> ReaderType]
  BY <1>1, OneTyped
<1>3. /\ client.phase = "running" /\ client' = client /\ stream' = stream /\ applied' = applied
      /\ me.at = "read"
  BY <1>1 DEF Pread, At
<1>4. PICK off, want, inBuf, buf : /\ off = me.off /\ want = me.want
                                   /\ inBuf = me.inBuf /\ buf = me.buf
  OBVIOUS
<1>5. /\ off \in Nat /\ want \in 0 .. BufSize /\ inBuf \in Nat /\ buf \in Seq(Update)
      /\ inBuf < want /\ off + want <= NumEdges
  BY <1>2, <1>3, <1>4 DEF ReaderType, Fits
<1>6. PICK left : left = Least(want, NumEdges - (off + inBuf))
  OBVIOUS
<1>7. left \in 1 .. want /\ off + inBuf + left <= NumEdges
  BY <1>5, <1>6, Constants DEF Least
<1>8. \E n \in IF ShortReads THEN 1 .. left ELSE {left} :
        reader' = [reader EXCEPT
             ![r].buf = [j \in 1 .. n |-> off + inBuf + j - 1] \o SubSeq(buf, n + 1, Len(buf)),
             ![r].inBuf = inBuf + n,
             ![r].at = IF inBuf + n < want THEN "read" ELSE "get"]
  <2>1. PICK n \in IF ShortReads
                   THEN 1 .. Least(reader[r].want, NumEdges - (reader[r].off + reader[r].inBuf))
                   ELSE {Least(reader[r].want, NumEdges - (reader[r].off + reader[r].inBuf))} :
          reader' = [reader EXCEPT
             ![r].buf = [j \in 1 .. n |-> reader[r].off + reader[r].inBuf + j - 1]
                        \o SubSeq(reader[r].buf, n + 1, Len(reader[r].buf)),
             ![r].inBuf = reader[r].inBuf + n,
             ![r].at = IF reader[r].inBuf + n < reader[r].want THEN "read" ELSE "get"]
    BY OneTyped DEF Pread
  <2>2. n \in IF ShortReads THEN 1 .. left ELSE {left}
    BY <1>1, <1>4, <1>6, <2>1, Zenon
  <2> QED
    BY <1>1, <1>4, <2>1, <2>2, Zenon
<1>9. PICK n \in 1 .. left :
        reader' = [reader EXCEPT
             ![r].buf = [j \in 1 .. n |-> off + inBuf + j - 1] \o SubSeq(buf, n + 1, Len(buf)),
             ![r].inBuf = inBuf + n,
             ![r].at = IF inBuf + n < want THEN "read" ELSE "get"]
  <2>1. (IF ShortReads THEN 1 .. left ELSE {left}) \subseteq 1 .. left
    BY <1>7
  <2> QED
    BY <1>8, <2>1, Zenon
<1>10. /\ n \in Nat /\ n >= 1 /\ n <= want /\ n + 1 \in Nat
       /\ off + inBuf + n <= NumEdges /\ inBuf + n \in 0 .. 2 * BufSize
  <2>0. left \in Int /\ n \in 1 .. left
    <3>1. n \in 1 .. left
      BY <1>9, Zenon
    <3> QED
      BY ONLY <1>5, <1>7, <3>1
  <2>1. n \in Int /\ n >= 1 /\ n <= left
    BY ONLY <2>0
  <2>2. left \in Int /\ left <= want
    BY ONLY <1>5, <1>7, Constants
  <2> QED
    BY ONLY <1>5, <1>7, <2>1, <2>2, Constants
<1>11. PICK got, rest : /\ got = [j \in 1 .. n |-> off + inBuf + j - 1]
                        /\ rest = SubSeq(buf, n + 1, Len(buf))
  OBVIOUS
<1>12. PICK all, m : /\ all = got \o rest
                     /\ m = [me EXCEPT !.buf = all, !.inBuf = inBuf + n,
                               !.at = IF inBuf + n < want THEN "read" ELSE "get"]
  OBVIOUS
<1>13. reader' = [reader EXCEPT ![r] = m]
  <2>1. PICK at : at = IF inBuf + n < want THEN "read" ELSE "get"
    OBVIOUS
  <2>2. reader' = [reader EXCEPT ![r].buf = all, ![r].inBuf = inBuf + n, ![r].at = at]
    BY <1>9, <1>11, <1>12, <2>1
  <2>3. m = [me EXCEPT !.buf = all, !.inBuf = inBuf + n, !.at = at]
    BY <1>12, <2>1
  <2> QED
    BY ONLY <1>1, <1>2, <2>2, <2>3
<1>14. all \in Seq(Update)
  <2>1. \A j \in 1 .. n : off + inBuf + j - 1 \in Update
    BY ONLY <1>5, <1>10, Constants DEF Update
  <2>2. got \in Seq(Update)
    BY ONLY <1>10, <1>11, <2>1
  <2>3. rest \in Seq(Update)
    BY ONLY <1>5, <1>10, <1>11
  <2> QED
    BY ONLY <1>12, <2>2, <2>3
<1>15. /\ m \in ReaderType /\ m.inBuf = inBuf + n /\ m.off = off /\ m.want = want
       /\ m.at = IF inBuf + n < want THEN "read" ELSE "get"
  BY <1>2, <1>4, <1>10, <1>12, <1>14 DEF ReaderType, Place
<1>16. Fits(m, stream.off, stream.index) /\ ~Claims(m) /\ ~Claims(reader[r])
  BY <1>1, <1>3, <1>5, <1>15 DEF Fits, Claims
<1>17. stream' = [stream EXCEPT !.off = stream.off] /\ stream.off >= stream.off
  BY <1>2, <1>3
<1> QED
  BY <1>2, <1>3, <1>13, <1>15, <1>16, <1>17, TypedStep

\* While the readers stand still none has a claim to make.
LEMMA StillTyped ==
  ASSUME NEW f, \A r \in Reader : ~Claims(f[r])
  PROVE  Load(f) = 0
<1>1. {r \in Reader : Claims(f[r])} = {}
  OBVIOUS
<1>2. Load(f) = BufSize * 0
  BY <1>1, FS_EmptySet, Zenon DEF Load
<1> QED
  BY <1>2, Constants

\* The client's steps keep the types.
LEMMA ClientTyped ==
  ASSUME Typed,
         \/ \E n \in 0 .. NumEdges + 1 : Register(n)
         \/ Start \/ OnDemand \/ Query \/ Resume \/ Reset
  PROVE  Typed'
<1>1. /\ stream \in [off : Nat, index : 1 .. NoQuery, block : BOOLEAN]
      /\ reader \in [Reader -> ReaderType]
      /\ client \in [phase : {"paused", "running", "query"}, requests : 0 .. MaxRequests]
      /\ applied \in [Update -> Nat]
      /\ \A r \in Reader : Fits(reader[r], stream.off, stream.index)
      /\ client.phase # "running" => \A r \in Reader : reader[r].at = "stopped"
      /\ stream.off + Load(reader) <= NumEdges + Full
      /\ stream.off \in Nat /\ client.requests \in 0 .. MaxRequests /\ MaxRequests \in Nat
  BY StreamAssumption DEF Typed
<1>2. CASE Start
  <2>1. PICK m : m = Idle("get")
    OBVIOUS
  <2>2. m \in ReaderType /\ Fits(m, stream.off, stream.index) /\ ~Claims(m)
    BY <2>1, IdleTyped DEF Place, Claims
  <2>3. reader' = [r \in Reader |-> m] /\ stream' = stream /\ applied' = applied
    BY <1>2, <2>1 DEF Start
  <2>4. Load(reader) = 0
    <3>1. \A r \in Reader : ~Claims(reader[r])
      BY <1>1, <1>2 DEF Start, Claims
    <3> QED
      BY <3>1, StillTyped
  <2>5. Load(reader') = 0
    <3>1. PICK g : g = reader'
      OBVIOUS
    <3>2. \A r \in Reader : ~Claims(g[r])
      BY <2>2, <2>3, <3>1
    <3> QED
      BY <3>1, <3>2, StillTyped
  <2>6. /\ client' \in [phase : {"paused", "running", "query"}, requests : 0 .. MaxRequests]
        /\ client'.phase = "running"
    BY <1>1, <1>2 DEF Start
  <2>7. reader' \in [Reader -> ReaderType] /\ \A r \in Reader : reader'[r] = m
    BY <2>2, <2>3
  <2> QED
    BY <1>1, <2>2, <2>3, <2>4, <2>5, <2>6, <2>7 DEF Typed
<1>3. ASSUME reader' = reader,
             client' \in [phase : {"paused", "running", "query"}, requests : 0 .. MaxRequests],
             client'.phase # "running" => \A r \in Reader : reader[r].at = "stopped",
             stream' \in [off : Nat, index : 1 .. NoQuery, block : BOOLEAN],
             \/ stream'.off = stream.off /\ stream'.index = stream.index
             \/ client.phase # "running" /\ stream'.off <= stream.off,
             applied' \in [Update -> Nat]
      PROVE  Typed'
  <2>1. \A r \in Reader : Fits(reader'[r], stream'.off, stream'.index)
    <3>1. CASE stream'.off = stream.off /\ stream'.index = stream.index
      BY <1>1, <1>3, <3>1
    <3>2. CASE client.phase # "running"
      BY <1>1, <1>3, <3>2 DEF Fits
    <3> QED
      BY <1>3, <3>1, <3>2
  <2>2. stream'.off + Load(reader') <= NumEdges + Full
    <3>1. PICK x : x = Load(reader)
      OBVIOUS
    <3>2. x \in Nat
      <4>1. PICK r \in Reader : TRUE
        BY StreamAssumption
      <4>2. r \in DOMAIN reader /\ reader = [reader EXCEPT ![r] = reader[r]]
        BY <1>1, <4>1
      <4> QED
        BY <3>1, <4>2, LoadStep
    <3>3. stream'.off <= stream.off /\ stream'.off \in Nat
      BY <1>1, <1>3
    <3>4. stream'.off + x <= NumEdges + Full
      BY <1>1, <3>1, <3>2, <3>3, Constants, NoQueryIs
    <3> QED
      BY <1>3, <3>1, <3>4
  <2> QED
    BY <1>1, <1>3, <2>1, <2>2 DEF Typed
<1>4. CASE \E n \in 0 .. NumEdges + 1 : Register(n)
  <2>1. PICK n \in 0 .. NumEdges + 1 : Register(n)
    BY <1>4
  <2>2. n \in 1 .. NoQuery
    BY <1>1, <2>1, Constants DEF Register
  <2>3. /\ stream' \in [off : Nat, index : 1 .. NoQuery, block : BOOLEAN]
        /\ stream'.off = stream.off
    BY <1>1, <2>1, <2>2 DEF Register
  <2>4. /\ client' \in [phase : {"paused", "running", "query"}, requests : 0 .. MaxRequests]
        /\ client'.phase = "paused" /\ client.phase = "paused"
    BY <1>1, <2>1 DEF Register, Request
  <2> QED
    BY <1>1, <1>3, <2>1, <2>3, <2>4 DEF Register
<1>5. CASE OnDemand
  <2>1. /\ stream' \in [off : Nat, index : 1 .. NoQuery, block : BOOLEAN]
        /\ stream'.off = stream.off /\ stream'.index = stream.index
    BY <1>1, <1>5 DEF OnDemand
  <2>2. /\ client' \in [phase : {"paused", "running", "query"}, requests : 0 .. MaxRequests]
        /\ client'.phase = "running"
    BY <1>1, <1>5 DEF OnDemand, Request
  <2> QED
    BY <1>1, <1>3, <1>5, <2>1, <2>2 DEF OnDemand
<1>6. CASE Query
  BY <1>1, <1>3, <1>6 DEF Query
<1>7. CASE Resume
  <2>1. NoQuery \in 1 .. NoQuery
    BY Constants
  <2>2. /\ stream' \in [off : Nat, index : 1 .. NoQuery, block : BOOLEAN]
        /\ stream'.off = stream.off
    BY <1>1, <1>7, <2>1 DEF Resume
  <2>3. /\ client' \in [phase : {"paused", "running", "query"}, requests : 0 .. MaxRequests]
        /\ client'.phase = "paused" /\ client.phase = "query"
    BY <1>1, <1>7 DEF Resume
  <2> QED
    BY <1>1, <1>3, <1>7, <2>2, <2>3 DEF Resume
<1>8. CASE Reset
  <2>1. /\ stream' \in [off : Nat, index : 1 .. NoQuery, block : BOOLEAN]
        /\ stream'.off = 0 /\ stream'.off <= stream.off
    BY <1>1, <1>8 DEF Reset
  <2>2. /\ client' \in [phase : {"paused", "running", "query"}, requests : 0 .. MaxRequests]
        /\ client'.phase = client.phase /\ client.phase # "running"
    BY <1>1, <1>8 DEF Reset, Request
  <2>3. applied' \in [Update -> Nat]
    BY <1>8 DEF Reset
  <2> QED
    BY <1>1, <1>3, <1>8, <2>1, <2>2, <2>3 DEF Reset
<1> QED
  BY <1>2, <1>4, <1>5, <1>6, <1>7, <1>8

\* The types hold at first, and after every step.
LEMMA TypedAlways == Spec => []Typed
<1>1. Init => Typed
  <2> SUFFICES ASSUME Init PROVE Typed
    OBVIOUS
  <2>1. PICK m : m = Idle("stopped")
    OBVIOUS
  <2>2. m \in ReaderType /\ (\A off, index : Fits(m, off, index)) /\ m.at = "stopped"
    BY <2>1, IdleTyped DEF Place
  <2>3. reader = [r \in Reader |-> m]
    BY <2>1 DEF Init
  <2>4. Load(reader) = 0
    BY <2>2, <2>3, StillTyped DEF Claims
  <2>5. 0 + 0 <= NumEdges + Full /\ NoQuery \in 1 .. NoQuery /\ 0 \in 0 .. MaxRequests
    BY Constants, NoQueryIs, StreamAssumption
  <2> QED
    BY <2>2, <2>3, <2>4, <2>5 DEF Init, Typed
<1>2. Typed /\ [Next]_vars => Typed'
  <2> SUFFICES ASSUME Typed, [Next]_vars PROVE Typed'
    OBVIOUS
  <2>1. ASSUME NEW r \in Reader, Step(r)
        PROVE  Typed'
    BY <2>1, ChecksTyped, ClaimTyped, HandTyped, PreadTyped DEF Step
  <2>2. CASE UNCHANGED vars
    BY <2>2 DEF vars, Typed
  <2> QED
    BY <2>1, <2>2, ClientTyped DEF Next
<1> QED
  BY <1>1, <1>2, PTL DEF Spec

\* The state keeps its types, short reads included; the offset, that every reader
\* adds a block to before it looks at what it got, has a bound.
THEOREM TypeCorrect == Spec => []TypeOK
<1>1. Typed => TypeOK
  <2> SUFFICES ASSUME Typed PROVE TypeOK
    OBVIOUS
  <2>1. PICK r \in Reader : TRUE
    BY StreamAssumption
  <2>2. /\ stream \in [off : Nat, index : 1 .. NoQuery, block : BOOLEAN]
        /\ stream.off \in Nat /\ stream.off <= NoQuery /\ NoQuery \in Nat
    BY <2>1, OneTyped, NoQueryIs
  <2>3. stream \in [off : 0 .. NoQuery, index : 1 .. NoQuery, block : BOOLEAN]
    BY <2>2
  <2> QED
    BY <2>3 DEF Typed, TypeOK, ReaderType, Place
<1> QED
  BY <1>1, TypedAlways, PTL

=============================================================================
