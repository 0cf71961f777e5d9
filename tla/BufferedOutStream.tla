------------------------- MODULE BufferedOutStream -------------------------
(***************************************************************************)
(* io::BufferedOutStream over an output stream that may fail or take only  *)
(* a part of what it is given (as ::write() behind UnixOutStream does).    *)
(* The program is sequential, but a call writes to the stream several      *)
(* times and each of these writes has its own outcome: a call is a         *)
(* sequence of steps, and pc says where it stands.                         *)
(*                                                                         *)
(* A byte is its number in the order the program wrote it: what the        *)
(* streams received is compared with that order.                           *)
(***************************************************************************)
EXTENDS Integers, Sequences

CONSTANTS Streams,      \* the streams that may be buffered
          BufSize,      \* buf_size
          Sizes,        \* sizes of the blocks that are written
          MaxBytes,     \* bound on the number of bytes written
          MayFail,      \* a stream may return an error
          MayBeShort    \* a stream may take a part of a block

ASSUME SizeAssumption ==
    /\ BufSize \in Nat \ {0}        \* ASSERTP(size != 0) of the constructors
    /\ Sizes \subseteq Nat
    /\ MaxBytes \in Nat
    /\ MayFail \in BOOLEAN /\ MayBeShort \in BOOLEAN

VARIABLES out,      \* the buffered stream
          buf,      \* the bytes buf[0 .. top - 1]
          pend,     \* the bytes of the current call that are not placed yet
          call,     \* the current, or else the last, call
          pc,       \* "idle", or the step the current call is at
          target,   \* the argument of setStream()
          rc,       \* the result of the last call (res in write())
          got,      \* what each stream has received
          next,     \* number of bytes written by the program
          home,     \* the stream that was buffered when each byte was written
          dropped,  \* bytes removed from the buffer by reset()
          told      \* an error has been returned to the program

vars == <<out, buf, pend, call, pc, target, rc, got, next, home, dropped, told>>

Calls == {"none", "write", "writeChar", "flush", "setStream", "delete"}

Bytes(n) == [i \in 1..n |-> next + i]

\* The results of out->write() for n bytes: -1 or the number of bytes taken.
Outcome(n) == {n} \union (IF MayBeShort THEN 1..n ELSE {})
                  \union (IF MayFail THEN {-1} ELSE {})

\* The bytes of s that a write with result r passed to the medium.
Taken(s, r) == IF r < 0 THEN <<>> ELSE SubSeq(s, 1, r)

Init ==
    /\ out \in Streams
    /\ buf = <<>> /\ pend = <<>> /\ call = "none" /\ pc = "idle" /\ rc = 0
    /\ target = out
    /\ got = [s \in Streams |-> <<>>]
    /\ next = 0 /\ home = <<>> /\ dropped = {} /\ told = FALSE

\* Mutation: a room test that is one byte too optimistic.
RoomOneMore(n) == BufSize - Len(buf) + 1 >= n

Room(n) == BufSize - Len(buf) >= n

\* The call returns r.
Return(r) ==
    /\ pc' = "idle"
    /\ rc' = r
    /\ told' = (told \/ r < 0)

Given(n) ==
    /\ next' = next + n
    /\ home' = home \o [i \in 1..n |-> out]

\* write(buffer, size) up to its first write to the stream.
write(n) ==
    /\ pc = "idle" /\ next + n <= MaxBytes
    /\ call' = "write"
    /\ Given(n)
    /\ \/ /\ Room(n)
          /\ buf' = buf \o Bytes(n)
          /\ Return(n)
          /\ UNCHANGED pend
       \/ /\ ~Room(n)
          /\ pend' = Bytes(n)
          /\ rc' = n
          /\ pc' = IF buf = <<>> THEN "loop" ELSE "flush"
          /\ UNCHANGED <<buf, told>>
    /\ UNCHANGED <<out, target, got, dropped>>

\* write(byte): 0 is its result when it succeeds.
writeChar ==
    /\ pc = "idle" /\ next + 1 <= MaxBytes
    /\ call' = "writeChar"
    /\ Given(1)
    /\ \/ /\ Len(buf) # BufSize
          /\ buf' = buf \o Bytes(1)
          /\ Return(0)
          /\ UNCHANGED pend
       \/ /\ Len(buf) = BufSize
          /\ pend' = Bytes(1) /\ pc' = "flush"
          /\ UNCHANGED <<buf, rc, told>>
    /\ UNCHANGED <<out, target, got, dropped>>

\* flush() called by the program: nothing to do, or a write of the buffer.
flush ==
    /\ pc = "idle"
    /\ call' = "flush"
    /\ IF buf = <<>> THEN Return(0) ELSE pc' = "flush" /\ UNCHANGED <<rc, told>>
    /\ UNCHANGED <<out, buf, pend, target, got, next, home, dropped>>

\* Mutation: setStream() does not flush.
setStreamLate(s) ==
    /\ pc = "idle" /\ call' = "setStream" /\ target' = s /\ pc' = "attach"
    /\ UNCHANGED <<out, buf, pend, rc, got, next, home, dropped, told>>

\* setStream() and the destructor flush first, and go on whatever happens.
setStream(s) ==
    /\ pc = "idle"
    /\ call' = "setStream"
    /\ target' = s
    /\ pc' = IF buf = <<>> THEN "attach" ELSE "flush"
    /\ UNCHANGED <<out, buf, pend, rc, got, next, home, dropped, told>>

\* Mutation: the destructor does not flush.
deleteRaw ==
    /\ pc = "idle" /\ call' = "delete" /\ pc' = "dead"
    /\ UNCHANGED <<out, buf, pend, target, rc, got, next, home, dropped, told>>

delete ==
    /\ pc = "idle"
    /\ call' = "delete"
    /\ pc' = IF buf = <<>> THEN "dead" ELSE "flush"
    /\ UNCHANGED <<out, buf, pend, target, rc, got, next, home, dropped, told>>

reset ==
    /\ pc = "idle"
    /\ dropped' = dropped \union {buf[i] : i \in 1..Len(buf)}
    /\ buf' = <<>>
    /\ UNCHANGED <<out, pend, call, pc, target, rc, got, next, home, told>>

\* Mutation: flush() keeps the buffer unless the stream took it all.
AfterFlushKept(r) == IF r = Len(buf) THEN <<>> ELSE buf

\* What flush() leaves in the buffer: top is 0 whatever the stream answered.
AfterFlush(r) == <<>>

\* The write of flush(), and what its caller does with the result: write()
\* and the void functions do not look at it.
flushed ==
    /\ pc = "flush"
    /\ \E r \in Outcome(Len(buf)) :
        /\ got' = [got EXCEPT ![out] = @ \o Taken(buf, r)]
        /\ \/ call = "flush" /\ Return(r) /\ buf' = AfterFlush(r) /\ UNCHANGED pend
           \/ /\ call = "write"
              /\ pc' = "loop" /\ buf' = AfterFlush(r) /\ UNCHANGED <<pend, rc, told>>
           \/ /\ call = "writeChar" /\ r < 0
              /\ Return(r) /\ buf' = AfterFlush(r) /\ pend' = <<>>
           \/ /\ call = "writeChar" /\ r >= 0
              /\ Return(0) /\ buf' = AfterFlush(r) \o pend /\ pend' = <<>>
           \/ /\ call = "setStream"
              /\ pc' = "attach" /\ buf' = AfterFlush(r) /\ UNCHANGED <<pend, rc, told>>
           \/ /\ call = "delete"
              /\ pc' = "dead" /\ buf' = AfterFlush(r) /\ UNCHANGED <<pend, rc, told>>
    /\ UNCHANGED <<out, call, target, next, home, dropped>>

\* One turn of the loop of write(): a whole buffer goes to the stream. The
\* program hears of an error, and the rest of the block is not written.
direct ==
    /\ pc = "loop" /\ Len(pend) > BufSize
    /\ \E r \in Outcome(BufSize) :
        /\ got' = [got EXCEPT ![out] = @ \o Taken(pend, r)]
        /\ IF r < 0
           THEN Return(-1) /\ pend' = <<>>
           ELSE /\ pend' = SubSeq(pend, BufSize + 1, Len(pend))
                /\ UNCHANGED <<pc, rc, told>>
    /\ UNCHANGED <<out, buf, call, target, next, home, dropped>>

\* The end of the loop: what is left fits in the buffer, and the result is
\* the size of the block.
store ==
    /\ pc = "loop" /\ Len(pend) <= BufSize
    /\ buf' = buf \o pend
    /\ pend' = <<>>
    /\ Return(rc)
    /\ UNCHANGED <<out, call, target, got, next, home, dropped>>

attach ==
    /\ pc = "attach"
    /\ out' = target
    /\ pc' = "idle"
    /\ UNCHANGED <<buf, pend, call, target, rc, got, next, home, dropped, told>>

Next ==
    \/ \E n \in Sizes : write(n)
    \/ writeChar \/ flush \/ reset \/ delete
    \/ \E s \in Streams : setStream(s)
    \/ flushed \/ direct \/ store \/ attach

Spec == Init /\ [][Next]_vars

-----------------------------------------------------------------------------
Range1(s) == {s[i] : i \in 1..Len(s)}

TypeOK ==
    /\ out \in Streams /\ target \in Streams
    /\ buf \in Seq(Nat) /\ pend \in Seq(Nat)
    /\ call \in Calls
    /\ pc \in {"idle", "flush", "loop", "attach", "dead"}
    /\ rc \in Int
    /\ got \in [Streams -> Seq(Nat)]
    /\ next \in Nat
    /\ home \in Seq(Streams) /\ Len(home) = next
    /\ dropped \subseteq Nat
    /\ told \in BOOLEAN

\* The memcpy() of write() and the store of write(byte) stay in the buffer,
\* whatever the streams answered before.
BufferInBounds == Len(buf) <= BufSize

Increasing(s) == \A i, j \in 1..Len(s) : i < j => s[i] < s[j]

\* Failures and partial writes may lose bytes; they never repeat one nor
\* change the order: what a stream has received, followed by the buffer and
\* the rest of the block that is written, is in the order of the program.
InOrder ==
    /\ \A s \in Streams : Increasing(got[s])
    /\ Increasing(got[out] \o buf \o pend)

\* A byte only reaches the stream that was buffered when it was written:
\* setStream() leaves none behind for the next stream.
RightStream ==
    /\ \A s \in Streams : \A i \in 1..Len(got[s]) :
            got[s][i] \in 1..next /\ home[got[s][i]] = s
    /\ \A i \in 1..Len(buf) : buf[i] \in 1..next /\ home[buf[i]] = out

\* The bytes neither received, nor buffered, nor removed by reset().
Lost == (1..next) \ ((UNION {Range1(got[s]) : s \in Streams})
                        \union Range1(buf) \union Range1(pend) \union dropped)

\* With streams that take what they are given, no byte is lost: each one is
\* in a stream, in the buffer or in the block that is written, and the
\* destructor leaves none in the buffer.
NothingLost == Lost = {} /\ (pc = "dead" => buf = <<>>)

\* "Number of transferred bytes or less than 0 for an error": once bytes have
\* been lost by a call that has returned, the program has seen an error.
LossReported == pc = "idle" /\ Lost # {} => told

\* "1 for success or less than 0 for an error" of write(byte).
CharReturnsOne == pc = "idle" /\ call = "writeChar" => rc = 1 \/ rc < 0

=============================================================================
