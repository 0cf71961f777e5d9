--------------------------- MODULE StackAllocator ---------------------------
(***************************************************************************)
(* elm::StackAllocator (include/elm/alloc/StackAllocator.h,                *)
(* src/alloc_StackAllocator.cpp): blocks are cut from the current chunk by *)
(* moving a pointer, and freed together by putting the pointer back on a   *)
(* mark taken before.                                                      *)
(*                                                                         *)
(* Addresses are naturals and NULL is 0.  A chunk is named by the address  *)
(* of its buffer.  BadAlloc, thrown before anything is assigned, is a      *)
(* step that changes nothing and is left out.                              *)
(***************************************************************************)
EXTENDS Integers, Sequences

CONSTANTS
  Size,         \* _size: the bytes of a chunk
  Buffers,      \* where the heap may place the buffer of a chunk
  Requests,     \* the sizes the application asks for
  MarkInside,   \* the application takes marks only before the end of a chunk
  SameChunk,    \* ... and releases only marks of the current chunk
  MaxBlocks,    \* bound on the living blocks
  MaxMarks      \* bound on the marks the application remembers

ASSUME SizeAssumption    == Size \in Nat \ {0}
ASSUME BuffersAssumption ==
  /\ Buffers \subseteq Nat \ {0}
  /\ \A a, b \in Buffers : a < b => a + Size < b     \* the header of chunk b
ASSUME RequestsAssumption == Requests \subseteq 0 .. Size
ASSUME UseAssumption      == MarkInside \in BOOLEAN /\ SameChunk \in BOOLEAN
ASSUME BoundsAssumption   == MaxBlocks \in Nat /\ MaxMarks \in Nat

VARIABLES
  stack,     \* the chunks from cur along next
  top, max,
  granted,   \* history: the living blocks, in the order of their allocation
  marks,     \* history: the marks of the application, with how many blocks
             \* were living when each was taken
  aborted    \* an assertion failed

vars == <<stack, top, max, granted, marks, aborted>>

-----------------------------------------------------------------------------
\* mark >= cur->buffer && mark < cur->buffer + _size
Inside(a, c) == c <= a /\ a < c + Size

\* The chunks still linked from cur.
Chunks == {stack[i] : i \in 1 .. Len(stack)}

\* What the application holds.
Blocks == [at : Nat, size : Nat]
Marks  == [pos : Nat, n : Nat]

Block(a, n) == [at |-> a, size |-> n]

End(b) == b.at + b.size

Init ==
  /\ stack = <<>> /\ top = 0 /\ max = 0
  /\ granted = <<>> /\ marks = <<>> /\ aborted = FALSE

\* The condition of allocate().  The difference is unsigned: when max is
\* before top it is larger than any size.
HasRoom(n) == stack # <<>> /\ (max - top) \notin 0 .. n - 1

\* allocate(), from the current chunk.
allocateTop(n) ==
  /\ ~aborted /\ HasRoom(n) /\ Len(granted) < MaxBlocks
  /\ top' = top + n
  /\ granted' = Append(granted, Block(top, n))
  /\ UNCHANGED <<stack, max, marks, aborted>>

\* allocate(), through chunkFilled() and newChunk().
allocateChunk(n, c) ==
  /\ ~aborted /\ ~HasRoom(n) /\ Len(granted) < MaxBlocks
  /\ c \notin Chunks
  /\ stack' = <<c>> \o stack
  /\ top' = c + n
  /\ max' = c + Size
  /\ granted' = Append(granted, Block(c, n))
  /\ UNCHANGED <<marks, aborted>>

mark ==
  /\ ~aborted /\ Len(marks) < MaxMarks
  /\ MarkInside => stack # <<>> /\ Inside(top, Head(stack))
  /\ marks' = Append(marks, [pos |-> top, n |-> Len(granted)])
  /\ UNCHANGED <<stack, top, max, granted, aborted>>

\* The position on the stack of the first chunk that holds the mark.
FirstHolding(a) ==
  {i \in 1 .. Len(stack) :
     /\ Inside(a, stack[i])
     /\ \A j \in 1 .. i - 1 : ~Inside(a, stack[j])}

\* Mutant: the pointer stays where it is.
releaseStuck(i) ==
  LET m == marks[i] IN
  /\ ~aborted
  /\ SameChunk => stack # <<>> /\ Inside(m.pos, Head(stack))
  /\ IF FirstHolding(m.pos) = {} THEN stack' = <<>> /\ aborted' = TRUE
     ELSE /\ \E k \in FirstHolding(m.pos) :
               stack' = SubSeq(stack, k, Len(stack))
          /\ UNCHANGED aborted
  /\ granted' = SubSeq(granted, 1, m.n)
  /\ marks' = SubSeq(marks, 1, i)
  /\ UNCHANGED <<top, max>>

\* Mutant: the pointer is put back on the start of the chunk.
releaseBase(i) ==
  LET m == marks[i] IN
  /\ ~aborted
  /\ SameChunk => stack # <<>> /\ Inside(m.pos, Head(stack))
  /\ IF FirstHolding(m.pos) = {}
     THEN stack' = <<>> /\ aborted' = TRUE /\ UNCHANGED top
     ELSE /\ \E k \in FirstHolding(m.pos) :
               /\ stack' = SubSeq(stack, k, Len(stack))
               /\ top' = stack[k]
          /\ UNCHANGED aborted
  /\ granted' = SubSeq(granted, 1, m.n)
  /\ marks' = SubSeq(marks, 1, i)
  /\ UNCHANGED max

\* release() of the i-th mark: the chunks above it are deleted; when none
\* holds it, all are, and the assertion fails.  Blocks and marks younger
\* than the mark are gone for the application.
release(i) ==
  LET m == marks[i] IN
  /\ ~aborted
  /\ SameChunk => stack # <<>> /\ Inside(m.pos, Head(stack))
  /\ IF FirstHolding(m.pos) = {}
     THEN stack' = <<>> /\ aborted' = TRUE /\ UNCHANGED top
     ELSE /\ \E k \in FirstHolding(m.pos) :
               stack' = SubSeq(stack, k, Len(stack))
          /\ top' = m.pos
          /\ UNCHANGED aborted
  /\ granted' = SubSeq(granted, 1, m.n)
  /\ marks' = SubSeq(marks, 1, i)
  /\ UNCHANGED max

\* clear() deletes every chunk; top and max keep their values.
clear ==
  /\ ~aborted
  /\ stack' = <<>>
  /\ granted' = <<>> /\ marks' = <<>>
  /\ UNCHANGED <<top, max, aborted>>

Next ==
  \/ \E n \in Requests : allocateTop(n)
  \/ \E n \in Requests, c \in Buffers : allocateChunk(n, c)
  \/ mark
  \/ \E i \in 1 .. Len(marks) : release(i)
  \/ clear

Spec == Init /\ [][Next]_vars

-----------------------------------------------------------------------------
TypeOK ==
  /\ stack \in Seq(Buffers)
  /\ top \in Nat /\ max \in Nat
  /\ granted \in Seq(Blocks)
  /\ marks \in Seq(Marks)
  /\ aborted \in BOOLEAN

\* Every living block lies in a chunk that is not deleted: "Each time a
\* chunk is full, a new one is allocated."  Fails when a release() deletes
\* chunks, since max stays in the deleted one.
BlocksInChunks ==
  \A i \in 1 .. Len(granted) :
    \E c \in Chunks : c <= granted[i].at /\ End(granted[i]) <= c + Size

\* allocate() gives no byte of a living block a second time, whatever was
\* released or cleared before.
BlocksDisjoint ==
  \A i, j \in 1 .. Len(granted) :
    i < j => \/ End(granted[i]) <= granted[j].at
             \/ End(granted[j]) <= granted[i].at

\* What a client of allocate() relies on: its blocks are its own memory.
BlocksSound == BlocksInChunks /\ BlocksDisjoint

\* No byte is lost: after any releases the next block goes right behind the
\* youngest living one.
TopIsEndOfLast ==
  stack # <<>> => /\ granted # <<>>
                  /\ top = End(granted[Len(granted)])

\* A mark the application holds can be released: the chunk it was taken in
\* is found.  Fails for a mark taken at the end of a chunk, or before the
\* first allocation.
MarkIsFound == ~aborted
=============================================================================
