------------------------------ MODULE GroupedGC ------------------------------
(***************************************************************************)
(* elm::GroupedGC (include/elm/alloc/GroupedGC.h, src/alloc_GroupedGC.cpp):*)
(* a collector with one bin per size.  A chunk serves one bin, from its    *)
(* end down to its start; when it is used up, a collection puts its dead   *)
(* blocks in the free list of the bin.  allocate() never collects: it only *)
(* records that a collection is needed, and doGC() runs it.                *)
(*                                                                         *)
(* Addresses and sizes count granules (sizeof(block_t)); round() and the   *)
(* shift to an index make the bin of a request its number of granules.     *)
(***************************************************************************)
EXTENDS Integers, Sequences, FiniteSets, FiniteSetsExt, SequencesExt

CONSTANTS
  CS,         \* csize, in granules
  Indexes,    \* requests of the application, in granules (0 for no byte)
  MaxIndex,   \* maxAllocatableIndex: length of the tables of bins
  MaxChunks   \* bound on the chunks the heap can give

\* What the constants are assumed to be.
Parameters ==
  /\ CS \in Nat \ {0} /\ MaxIndex \in Nat \ {0}
  /\ Indexes \subseteq 0 .. CS
  /\ MaxChunks \in Nat

Bins    == 0 .. MaxIndex - 1
Chunks  == 1 .. MaxChunks
Base(c) == c * (CS + 1)
NoChunk == 0
Span(at, n) == at .. at + n - 1
BlockCells(b) == Span(b.at, b.n)
Block   == [at : UNION {Span(Base(c), CS) : c \in Chunks}, n : Indexes]

VARIABLES
  chunks,      \* the list of chunks, newest first
  index,       \* index[c]: the bin a chunk serves
  left,        \* left[c]: granules not yet served for the first time
  init,        \* init[c]: the chunk is in its first use
  free_list,   \* free_list[i]: addresses of the free blocks of bin i
  chunk_list,  \* chunk_list[i]: the chunk bin i is using up
  chunk_init,  \* chunk_init[i]: no chunk was made for bin i
  needGC,      \* a collection was found necessary
  live,        \* blocks the application uses
  dead,        \* chunks deleted by clear()
  failure,     \* "none", "assert", "divide", "bounds" or "deleted"
  owned,       \* history: blocks handed out and not taken back
  parity       \* history: parity of the number of blocks handed out

vars == <<chunks, index, left, init, free_list, chunk_list, chunk_init, needGC,
          live, dead, failure, owned, parity>>
chunkVars == <<chunks, index, left, init>>

-----------------------------------------------------------------------------
GroupedGCInit ==
  /\ chunks = <<>> /\ needGC = FALSE
  /\ index = [c \in Chunks |-> 0] /\ left = [c \in Chunks |-> 0]
  /\ init = [c \in Chunks |-> FALSE]
  /\ free_list = [i \in Bins |-> <<>>]
  /\ chunk_list = [i \in Bins |-> NoChunk]
  /\ chunk_init = [i \in Bins |-> TRUE]
  /\ live = {} /\ dead = {} /\ failure = "none" /\ owned = {} /\ parity = 0

HandOut(b) ==
  live' = live \union {b} /\ owned' = owned \union {b} /\ parity' = 1 - parity

\* A memory access to a chunk deleted by clear().
Deleted(a) == \E c \in dead : a \in Span(Base(c), CS)

\* allocFromFreeList(): a free block of the bin ...
allocFree(i) ==
  /\ failure = "none" /\ i \in Bins /\ free_list[i] # <<>>
  /\ IF Deleted(Head(free_list[i]))
     THEN failure' = "deleted" /\ UNCHANGED <<free_list, live, owned, parity>>
     ELSE /\ HandOut([at |-> Head(free_list[i]), n |-> i])
          /\ free_list' = [free_list EXCEPT ![i] = Tail(@)]
          /\ UNCHANGED failure
  /\ UNCHANGED <<chunkVars, chunk_list, chunk_init, needGC, dead>>

\* ... or the last granules of the chunk of the bin: the block and what
\* remains in the chunk.
Cut(c, size, i) == [at |-> Base(c) + size - i, n |-> i]

allocChunk(i) ==
  /\ failure = "none" /\ i \in Bins /\ free_list[i] = <<>>
  /\ chunk_list[i] # NoChunk
  /\ LET c == chunk_list[i]
         rest == left[c] - i
     IN  IF c \in dead
         THEN /\ failure' = "deleted"
              /\ UNCHANGED <<left, init, chunk_list, live, owned, parity>>
         ELSE /\ HandOut(Cut(c, left[c], i))
              /\ left' = [left EXCEPT ![c] = rest]
              /\ IF rest < i
                 THEN /\ chunk_list' = [chunk_list EXCEPT ![i] = NoChunk]
                      /\ init' = [init EXCEPT ![c] = FALSE]
                      /\ failure' = IF rest = 0 THEN "none" ELSE "assert"
                 ELSE UNCHANGED <<chunk_list, init, failure>>
  /\ UNCHANGED <<chunks, index, free_list, chunk_init, needGC, dead>>

\* newChunk(): what a chunk of bin i can serve.
Usable(i) == CS - (CS % i)

\* allocate() with an empty bin: a chunk is made, a collection is noted if it
\* is not the first one, and the chunk serves the request.
allocateNew(i, c) ==
  /\ failure = "none" /\ i \in Bins \ {0}
  /\ free_list[i] = <<>> /\ chunk_list[i] = NoChunk
  /\ c \in Chunks \ Range(chunks)
  /\ chunks' = <<c>> \o chunks
  /\ index' = [index EXCEPT ![c] = i]
  /\ chunk_init' = [chunk_init EXCEPT ![i] = FALSE]
  /\ needGC' = (needGC \/ ~chunk_init[i])
  /\ HandOut(Cut(c, Usable(i), i))
  /\ LET rest == Usable(i) - i IN
     /\ left' = [left EXCEPT ![c] = rest]
     /\ init' = [init EXCEPT ![c] = rest >= i]
     /\ chunk_list' = [chunk_list EXCEPT ![i] = IF rest < i THEN NoChunk ELSE c]
     /\ failure' = IF rest < i /\ rest # 0 THEN "assert" ELSE "none"
  /\ UNCHANGED <<free_list, dead>>

\* The heap has no chunk left: new throws before anything but chunk_init and
\* needGC changed.
allocateFails(i) ==
  /\ failure = "none" /\ i \in Bins \ {0}
  /\ free_list[i] = <<>> /\ chunk_list[i] = NoChunk
  /\ Chunks = Range(chunks)
  /\ chunk_init' = [chunk_init EXCEPT ![i] = FALSE]
  /\ UNCHANGED <<chunkVars, free_list, chunk_list, needGC, live, dead, failure,
                 owned, parity>>

\* A request of no byte has bin 0: newChunk() divides by the index.  A bin
\* past the tables is read and written out of their bounds.
allocateZero(i) ==
  /\ failure = "none" /\ i = 0
  /\ failure' = "divide"
  /\ UNCHANGED <<chunkVars, free_list, chunk_list, chunk_init, needGC, live,
                 dead, owned, parity>>

allocatePast(i) ==
  /\ failure = "none" /\ i >= MaxIndex
  /\ failure' = IF i <= MaxIndex THEN "bounds" ELSE "assert"
  /\ UNCHANGED <<chunkVars, free_list, chunk_list, chunk_init, needGC, live,
                 dead, owned, parity>>

\* mark(): the number, in its chunk, of the block that holds an address.
ChunkOf(a) == CHOOSE c \in Range(chunks) : a \in Span(Base(c), CS)
Bit(a) == (a - Base(ChunkOf(a))) \div index[ChunkOf(a)]

\* The bits set by mark() for the living blocks.
Marked == {<<ChunkOf(b.at), Bit(b.at)>> : b \in live}

\* Mutant: chunks in their first use are swept too.
SweptAll == Range(chunks)

\* endGC() sweeps the chunks that were used up.
SweptChunks == {c \in Range(chunks) : ~init[c]}

\* The unmarked blocks of a used up chunk, the last pushed first.
Slot(c, k) == Base(c) + (k - 1) * index[c]

Unmarked(c) ==
  Reverse(FlattenSeq([k \in 1 .. CS \div index[c] |->
    IF <<c, Bit(Slot(c, k))>> \in Marked THEN <<>> ELSE <<Slot(c, k)>>]))

FreeOf(i) ==
  FlattenSeq(Reverse([k \in 1 .. Len(chunks) |->
    IF chunks[k] \in SweptChunks /\ index[chunks[k]] = i
    THEN Unmarked(chunks[k]) ELSE <<>>]))

\* doGC() runs only when a collection was noted.
doGC ==
  /\ failure = "none" /\ needGC
  /\ needGC' = FALSE
  /\ IF Range(chunks) \intersect dead # {}
     THEN failure' = "deleted" /\ UNCHANGED <<free_list, owned>>
     ELSE /\ free_list' = [i \in Bins |-> FreeOf(i)]
          /\ owned' = live \union
               {b \in owned : init[ChunkOf(b.at)]}
          /\ UNCHANGED failure
  /\ UNCHANGED <<chunkVars, chunk_list, chunk_init, live, dead, parity>>

\* clear() deletes the chunks and resets the free list of bin 0.
clear ==
  /\ failure = "none"
  /\ failure' = IF Range(chunks) \intersect dead = {} THEN "none" ELSE "deleted"
  /\ dead' = dead \union Range(chunks)
  /\ free_list' = [free_list EXCEPT ![0] = <<>>]
  /\ live' = {} /\ owned' = {}
  /\ UNCHANGED <<chunkVars, chunk_list, chunk_init, needGC, parity>>

\* The application forgets a block.
Drop(b) ==
  /\ failure = "none" /\ b \in live
  /\ live' = live \ {b}
  /\ UNCHANGED <<chunkVars, free_list, chunk_list, chunk_init, needGC, dead,
                 failure, owned, parity>>

Halted == failure # "none" /\ UNCHANGED vars

allocate(i) ==
  \/ allocFree(i) \/ allocChunk(i) \/ allocateFails(i)
  \/ allocateZero(i) \/ allocatePast(i)
  \/ \E c \in Chunks : allocateNew(i, c)

Next ==
  \/ \E i \in Indexes : allocate(i)
  \/ doGC \/ clear \/ Halted
  \/ \E b \in live : Drop(b)

Spec == GroupedGCInit /\ [][Next]_vars

-----------------------------------------------------------------------------
(* Properties.                                                              *)

\* The assertions of newChunk() and allocFromFreeList() never fail: a chunk
\* is used up exactly, with no piece smaller than a block of its bin.
AssertionsHold == failure # "assert"

FreeBlocks == UNION {{[at |-> a, n |-> i] : a \in Range(free_list[i])} : i \in Bins}

Virgin(c) == IF init[c] THEN Span(Base(c), left[c]) ELSE {}

\* The blocks of a chunk, free or handed out.
Mine(c) == {b \in FreeBlocks \union owned : b.at \in Span(Base(c), CS)}

\* What a chunk can serve is exactly cut in free blocks, blocks handed out
\* and the part never served, each block of the size of the bin of its chunk;
\* no block is twice in a free list, or there and handed out.
BinsExact ==
  failure = "none" /\ dead = {} =>
    /\ \A i \in Bins : IsInjective(free_list[i])
    /\ FreeBlocks \intersect owned = {}
    /\ \A c \in Range(chunks) :
         /\ \A b \in Mine(c) : b.n = index[c] /\ BlockCells(b) \intersect Virgin(c) = {}
         /\ \A b, d \in Mine(c) :
              b # d => BlockCells(b) \intersect BlockCells(d) = {}
         /\ (UNION {BlockCells(b) : b \in Mine(c)}) \union Virgin(c)
              = Span(Base(c), Usable(index[c]))

\* What the application sees is the promise of module CooperativeGC.
Promise == INSTANCE CooperativeGC WITH Blocks <- Block, Cells <- BlockCells

-----------------------------------------------------------------------------
(* What the documentation says and the code does not do.                    *)

\* "Reset the allocator": after clear() the allocator can be used again.
ClearedIsUsable == failure # "deleted"

\* ASSERT(index <= maxAllocatableIndex): an index that passes the assertion
\* designates a bin.
IndexInTables == failure # "bounds"
=============================================================================
