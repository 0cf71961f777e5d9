----------------------------- MODULE StreamPipe -----------------------------
(***************************************************************************)
(* io::BufferedInStream over input streams that may fail or give less than *)
(* they are asked (as ::read() behind UnixInStream does), and              *)
(* io::StreamPipe::proceed() from such a stream to a io::TeeOutStream,     *)
(* which writes to two streams one after the other.  The program may read  *)
(* the input stream itself between two copies.  A byte is its position in  *)
(* its stream.                                                             *)
(***************************************************************************)
EXTENDS Integers, Sequences, FiniteSets

CONSTANTS Streams,      \* the streams that may be read
          Length,       \* number of bytes of each stream
          BufSize,      \* buf_size
          Sizes,        \* sizes the program asks for
          MayFail,      \* a stream may return an error
          MayBeShort    \* a stream may give less than it could

\* What the constants are assumed to be.
InParameters ==
  /\ Length \in Nat
  /\ BufSize \in Nat \ {0}        \* ASSERTP(size > 0) of the constructors
  /\ Sizes \subseteq Nat \ {0}
  /\ MayFail \in BOOLEAN /\ MayBeShort \in BOOLEAN

VARIABLES in,       \* the stream that is read
          buf,      \* the bytes buf[0 .. top - 1]
          pos,      \* number of bytes of buf that were read
          dpos,     \* number of bytes taken from each stream
          seen,     \* the bytes the program has read from each stream
          block,    \* the bytes stored by the last call in the caller's block
          rc,       \* the result of the last call
          skipped   \* bytes dropped by reset() and setStream()

inVars == <<in, buf, pos, dpos, seen, block, rc, skipped>>

FAILED == -1
ENDED == -2

Lower(a, b) == IF a < b THEN a ELSE b

\* The results of in->read() for n bytes: the bytes that are read, or -1.
Outcome(n) ==
    LET left == Length - dpos[in]
        most == Lower(n, left)
    IN  {most} \union (IF MayBeShort /\ most > 0 THEN 1..most ELSE {})
               \union (IF MayFail THEN {-1} ELSE {})

InInit ==
    /\ in \in Streams
    /\ buf = <<>> /\ pos = 0 /\ block = <<>> /\ rc = 0
    /\ dpos = [s \in Streams |-> 0]
    /\ seen = [s \in Streams |-> <<>>]
    /\ skipped = [s \in Streams |-> {}]

\* refill() with the result r.
Refilled(r) == IF r > 0 THEN [i \in 1..r |-> dpos[in] + i] ELSE buf

\* The test that precedes refill(), for a program that asks for n bytes.
MustRefill(n) == pos >= Len(buf)

\* The transfer of at most n bytes of buffer b from position p.
Transfer(b, p, n) == SubSeq(b, p + 1, Lower(p + n, Len(b)))

\* The program is given the bytes of t, found at position p of buffer b.
Give(b, p, t, result) ==
    /\ buf' = b
    /\ pos' = p + Len(t)
    /\ block' = t
    /\ seen' = [seen EXCEPT ![in] = @ \o t]
    /\ rc' = result

\* read(buffer, size)
read(n) ==
    /\ \/ /\ ~MustRefill(n)
          /\ LET t == Transfer(buf, pos, n) IN Give(buf, pos, t, Len(t))
          /\ UNCHANGED dpos
       \/ /\ MustRefill(n)
          /\ \E r \in Outcome(BufSize) :
                \/ /\ r <= 0
                   /\ block' = <<>> /\ rc' = r
                   /\ UNCHANGED <<buf, pos, dpos, seen>>
                \/ /\ r > 0
                   /\ LET t == Transfer(Refilled(r), 0, n) IN Give(Refilled(r), 0, t, Len(t))
                   /\ dpos' = [dpos EXCEPT ![in] = @ + r]
    /\ UNCHANGED <<in, skipped>>

\* read(): the byte, ENDED or FAILED.
readChar ==
    /\ \/ /\ ~MustRefill(1)
          /\ Give(buf, pos, <<buf[pos + 1]>>, buf[pos + 1])
          /\ UNCHANGED dpos
       \/ /\ MustRefill(1)
          /\ \E r \in Outcome(BufSize) :
                \/ /\ r <= 0
                   /\ block' = <<>> /\ rc' = IF r = 0 THEN ENDED ELSE FAILED
                   /\ UNCHANGED <<buf, pos, dpos, seen>>
                \/ /\ r > 0
                   /\ Give(Refilled(r), 0, <<Refilled(r)[1]>>, Refilled(r)[1])
                   /\ dpos' = [dpos EXCEPT ![in] = @ + r]
    /\ UNCHANGED <<in, skipped>>

\* The bytes of the buffer that the program has not read.
Unread == {buf[i] : i \in pos + 1 .. Len(buf)}

\* reset(), the stream being s afterwards: setStream() resets, then attaches.
resetTo(s) ==
    /\ buf' = <<>> /\ pos' = 0
    /\ skipped' = [skipped EXCEPT ![in] = @ \union Unread]
    /\ in' = s
    /\ UNCHANGED <<dpos, seen, block, rc>>

reset == resetTo(in)

setStream(s) == resetTo(s)

InNext ==
    \/ \E n \in Sizes : read(n)
    \/ readChar \/ reset
    \/ \E s \in Streams : setStream(s)

-----------------------------------------------------------------------------
\* The bytes of a sequence.
BytesOf(s) == {s[i] : i \in 1..Len(s)}

\* The state of the buffer and of the streams.
InTypeOK ==
    /\ in \in Streams
    /\ buf \in Seq(Nat) /\ Len(buf) <= BufSize
    /\ pos \in 0..Len(buf)
    /\ dpos \in [Streams -> 0..Length]
    /\ seen \in [Streams -> Seq(Nat)]
    /\ block \in Seq(Nat) /\ rc \in Int
    /\ skipped \in [Streams -> SUBSET Nat]

\* Errors, short reads and calls of any size change neither the order nor the
\* number of the bytes: for each stream, the program has read increasing
\* positions, and every byte taken from the stream was read, is still to be
\* read in the buffer, or was dropped by reset() or setStream().
EveryByteOnce ==
    \A s \in Streams :
        LET rest == IF s = in THEN Unread ELSE {}
        IN  /\ \A i, j \in 1..Len(seen[s]) : i < j => seen[s][i] < seen[s][j]
            /\ BytesOf(seen[s]) \union skipped[s] \union rest = 1..dpos[s]
            /\ BytesOf(seen[s]) \intersect rest = {}

-----------------------------------------------------------------------------
(* The pipe and the tee.                                                    *)

CONSTANTS PipeSize,     \* bufs, the size of the block of the pipe
          SinksMayFail  \* the streams of the tee may return an error

\* What the constants are assumed to be.
PipeParameters ==
  /\ PipeSize \in Nat \ {0} /\ SinksMayFail \in BOOLEAN

VARIABLES pc,       \* "idle", or the step proceed() is at
          sink,     \* what the streams 1 and 2 of the tee have received
          size,     \* number of copied bytes (size in proceed())
          base,     \* length of the second stream when proceed() was called
          pres,     \* the result of the last proceed()
          pstate,   \* state of the pipe: "OK", "IN_ERROR", "OUT_ERROR"
          tstate    \* state of the tee: 0, or the stream of its last error

pipeVars == <<pc, sink, size, base, pres, pstate, tstate>>
vars == <<inVars, pipeVars>>

Init ==
    /\ InInit
    /\ pc = "idle" /\ sink = <<<<>>, <<>>>> /\ size = 0 /\ base = 0
    /\ pres = 0 /\ pstate = "OK" /\ tstate = 0

\* A call of the program to the input stream.
inCall == pc = "idle" /\ InNext /\ UNCHANGED pipeVars

proceed ==
    /\ pc = "idle"
    /\ pc' = "read" /\ size' = 0 /\ base' = Len(sink[2])
    /\ UNCHANGED <<inVars, sink, pres, pstate, tstate>>

\* The read of the loop. Its result is compared with FAILED and with ENDED.
pipeRead ==
    /\ pc = "read"
    /\ read(PipeSize)
    /\ pc' = IF rc' \in {FAILED, ENDED} THEN "idle" ELSE "out1"
    /\ pres' = CASE rc' = FAILED -> -1 [] rc' = ENDED -> size [] OTHER -> pres
    /\ pstate' = IF rc' = FAILED THEN "IN_ERROR" ELSE pstate
    /\ UNCHANGED <<sink, size, base, tstate>>

\* Mutation: an error of the first stream is not looked at.
teeWriteBlind(k) ==
    \/ /\ sink' = [sink EXCEPT ![k] = @ \o block]
       /\ pc' = IF k = 1 THEN "out2" ELSE "read"
       /\ size' = IF k = 1 THEN size ELSE size + Len(block)
       /\ UNCHANGED <<pres, pstate, tstate>>
    \/ /\ SinksMayFail
       /\ pc' = IF k = 1 THEN "out2" ELSE "idle"
       /\ UNCHANGED <<sink, size, pres, pstate, tstate>>

\* The write of the tee to its stream k, and what follows.
teeWrite(k) ==
    \/ /\ sink' = [sink EXCEPT ![k] = @ \o block]
       /\ pc' = IF k = 1 THEN "out2" ELSE "read"
       /\ size' = IF k = 1 THEN size ELSE size + Len(block)
       /\ UNCHANGED <<pres, pstate, tstate>>
    \/ /\ SinksMayFail
       /\ tstate' = k /\ pstate' = "OUT_ERROR" /\ pres' = -1 /\ pc' = "idle"
       /\ UNCHANGED <<sink, size>>

pipeWrite ==
    /\ \E k \in {1, 2} : pc = <<"out1", "out2">>[k] /\ teeWrite(k)
    /\ UNCHANGED <<inVars, base>>

\* flush() of the tee: the first stream that fails is remembered.
teeFlush ==
    /\ pc = "idle" /\ SinksMayFail
    /\ \E k \in {1, 2} : tstate' = k
    /\ UNCHANGED <<inVars, pc, sink, size, base, pres, pstate>>

Next == inCall \/ proceed \/ pipeRead \/ pipeWrite \/ teeFlush

Spec == Init /\ [][Next]_vars

\* proceed() is a loop of the calling thread: nothing but its own calls stops
\* it, and the streams answer.
FairSpec == Spec /\ WF_vars(pipeRead \/ pipeWrite)

-----------------------------------------------------------------------------
TypeOK ==
    /\ InTypeOK
    /\ pc \in {"idle", "read", "out1", "out2"}
    /\ sink \in Seq(Seq(Nat)) /\ size \in Nat /\ base \in Nat
    /\ pres \in Int
    /\ pstate \in {"OK", "IN_ERROR", "OUT_ERROR"} /\ tstate \in 0..2

\* size counts, at every turn of the loop, the bytes that proceed() has put on
\* the second stream, and each of them has been put on the first one.
PipeCounts ==
    /\ pc # "idle" => Len(sink[2]) - base = size
    /\ BytesOf(sink[2]) \subseteq BytesOf(sink[1])

\* No byte is copied that the input stream did not give, and a block is only
\* missing on a stream of the tee if a stream of the tee has failed.
PipeCopies ==
    /\ \A k \in {1, 2} : BytesOf(sink[k]) \subseteq UNION {BytesOf(seen[s]) : s \in Streams}
    /\ pc = "idle" /\ tstate = 0 => sink[1] = sink[2]

\* "the input stream is read to the end and write back to the output stream":
\* proceed() returns.
ProceedReturns == pc # "idle" ~> pc = "idle"

=============================================================================
