------------------------ MODULE BlockAllocatorWithGC ------------------------
(***************************************************************************)
(* elm::AbstractBlockAllocatorWithGC and BlockAllocatorWithGC<T>           *)
(* (include/elm/alloc/BlockAllocatorWithGC.h,                              *)
(* src/alloc_BlockAllocatorWithGC.cpp): blocks of one size, cut from the   *)
(* current chunk or taken from a free list threaded through the blocks.    *)
(* When both are exhausted an asynchronous allocator collects at once, a   *)
(* synchronous one only notes the need and takes a new chunk.              *)
(*                                                                         *)
(* Blocks are numbered as in totalCount(): PerChunk for each chunk, in the *)
(* order they are cut.                                                     *)
(***************************************************************************)
EXTENDS Integers, FiniteSets, FiniteSetsExt, FiniteSetTheorems,
        WellFoundedInduction, TLAPS

CONSTANTS
  PerChunk,   \* csize / bsize
  MaxChunks,  \* bound on the chunks the heap can give
  AnyTime     \* collectGarbage() may be called at any time, or only when
              \* needsCollect() holds

\* What the constants are assumed to be.
Parameters ==
  /\ PerChunk \in Nat \ {0} /\ MaxChunks \in Nat \ {0}
  /\ AnyTime \in BOOLEAN

Addresses == 0 .. PerChunk * MaxChunks - 1
NoBlock   == -1

VARIABLES
  chunks,      \* number of chunks
  total,       \* blocks cut so far: the position of top
  next,        \* the link of each block while it is free
  free_list, free_cnt,
  SYNC, NEED,  \* the flags
  live,        \* blocks the application marks in collect()
  owned,       \* history: blocks handed out and not taken back
  parity       \* history: parity of the number of blocks handed out

vars == <<chunks, total, next, free_list, free_cnt, SYNC, NEED, live, owned,
          parity>>

-----------------------------------------------------------------------------
Init ==
  /\ chunks = 1 /\ total = 0
  /\ next = [b \in Addresses |-> NoBlock]
  /\ free_list = NoBlock /\ free_cnt = 0
  /\ SYNC = FALSE /\ NEED = FALSE
  /\ live = {} /\ owned = {} /\ parity = 0

HandOut(kept, b) ==
  /\ live' = live \union {b}
  /\ owned' = kept \union {b}
  /\ parity' = 1 - parity

\* A block of the free list.
allocateFree ==
  /\ free_list # NoBlock
  /\ HandOut(owned, free_list)
  /\ free_list' = next[free_list]
  /\ free_cnt' = free_cnt - 1
  /\ UNCHANGED <<chunks, total, next, SYNC, NEED>>

\* The next block of the current chunk.
allocateTop ==
  /\ free_list = NoBlock /\ total < chunks * PerChunk
  /\ HandOut(owned, total)
  /\ total' = total + 1
  /\ UNCHANGED <<chunks, next, free_list, free_cnt, SYNC, NEED>>

\* Nothing left, synchronous: the need is noted and a chunk is taken.
allocateSync ==
  /\ free_list = NoBlock /\ total = chunks * PerChunk /\ SYNC
  /\ NEED' = TRUE
  /\ IF chunks < MaxChunks
     THEN /\ chunks' = chunks + 1
          /\ HandOut(owned, total)
          /\ total' = total + 1
     ELSE UNCHANGED <<chunks, live, owned, parity, total>>
  /\ UNCHANGED <<next, free_list, free_cnt, SYNC>>

\* The blocks the bit vector of a collection says are not marked.
Died == (0 .. total - 1) \ live

\* collectGarbage() pushes them on the free list in increasing order.
Threaded ==
  [b \in Addresses |->
     IF b \notin Died THEN next[b]
     ELSE IF b = Min(Died) THEN free_list ELSE Max({c \in Died : c < b})]

Pushed == IF Died = {} THEN free_list ELSE Max(Died)

\* Nothing left, asynchronous: a collection, then the free list or a chunk.
allocateAsync ==
  /\ free_list = NoBlock /\ total = chunks * PerChunk /\ ~SYNC
  /\ NEED' = FALSE
  /\ next' = Threaded
  /\ IF Pushed # NoBlock
     THEN /\ HandOut(live, Pushed)
          /\ free_list' = Threaded[Pushed]
          /\ free_cnt' = Cardinality(Died) - 1
          /\ UNCHANGED <<chunks, total>>
     ELSE /\ free_list' = Pushed /\ free_cnt' = Cardinality(Died)
          /\ IF chunks < MaxChunks
             THEN /\ chunks' = chunks + 1
                  /\ HandOut(live, total)
                  /\ total' = total + 1
             ELSE owned' = live /\ UNCHANGED <<chunks, live, parity, total>>
  /\ UNCHANGED SYNC

\* collectGarbage(), called by the application at a safe point.
collectGarbage ==
  /\ AnyTime \/ NEED
  /\ next' = Threaded /\ free_list' = Pushed /\ free_cnt' = Cardinality(Died)
  /\ NEED' = FALSE
  /\ owned' = live
  /\ UNCHANGED <<chunks, total, SYNC, live, parity>>

setSync ==
  /\ SYNC' = TRUE
  /\ UNCHANGED <<chunks, total, next, free_list, free_cnt, NEED, live, owned,
                 parity>>

setAsync ==
  /\ SYNC' = FALSE
  /\ UNCHANGED <<chunks, total, next, free_list, free_cnt, NEED, live, owned,
                 parity>>

\* The application forgets a block.
Drop(b) ==
  /\ b \in live
  /\ live' = live \ {b}
  /\ UNCHANGED <<chunks, total, next, free_list, free_cnt, SYNC, NEED, owned,
                 parity>>

Next ==
  \/ allocateFree \/ allocateTop \/ allocateSync \/ allocateAsync
  \/ collectGarbage \/ setSync \/ setAsync
  \/ \E b \in Addresses : Drop(b)

Spec == Init /\ [][Next]_vars

-----------------------------------------------------------------------------
(* Properties.                                                              *)

\* The free list followed for n links.
Follow[n \in Nat] ==
  IF n = 0 THEN free_list
  ELSE IF Follow[n - 1] = NoBlock THEN NoBlock ELSE next[Follow[n - 1]]

Chain == {Follow[n] : n \in 0 .. Cardinality(Addresses)} \ {NoBlock}

\* The blocks cut so far are either in the free list, exactly once, or
\* handed out; freeCount() is the length of the list, which has an end.
FreeListExact ==
  /\ Follow[Cardinality(Addresses)] = NoBlock
  /\ Cardinality(Chain) = free_cnt
  /\ Chain \intersect owned = {}
  /\ Chain \union owned = 0 .. total - 1

\* needsCollect() only asks for a collection when the free list is empty,
\* which is when collectGarbage() can rebuild it.
NeedIsSafe == NEED => free_list = NoBlock /\ free_cnt = 0

\* What the application sees is the promise of module CooperativeGC.
Promise == INSTANCE CooperativeGC WITH Blocks <- Addresses, Cells <- LAMBDA b : {b}

-----------------------------------------------------------------------------
(* What the documentation says and the code does not do.                    *)

\* "in synchronous model [...] the user has to call collectGarbage() to start
\* garbage collection at safe point in its code": whenever that is, no living
\* block is in the free list.
NoLivingBlockFree == Chain \intersect live = {}

-----------------------------------------------------------------------------
(* Proofs.  The free list, which collectGarbage() threads through the       *)
(* blocks in increasing order and allocate() takes from its head, is always *)
(* in decreasing order: what follows a block is the next lower free one.    *)

\* The blocks that were cut and are not handed out.
Free == (0 .. total - 1) \ owned

\* The links of the blocks of S lead from top through all of them, from the
\* highest to the lowest.
Chained(top, link, S) ==
  /\ top = NoBlock <=> S = {}
  /\ S # {} => top \in S /\ \A c \in S : c <= top
  /\ \A b \in S :
       \/ link[b] = NoBlock /\ \A c \in S : b <= c
       \/ link[b] \in S /\ link[b] < b /\ \A c \in S : c < b => c <= link[b]

\* FreeListExact without the recursion that follows the list.
FreeListThreaded ==
  Chained(free_list, next, Free) /\ free_cnt = Cardinality(Free)

\* The inductive invariant: where the blocks are, and the free list.  A
\* collection is only due while the list is empty, which is what makes its
\* rebuilding sound.
BlockInv ==
  /\ chunks \in 1 .. MaxChunks /\ total \in Nat /\ total <= chunks * PerChunk
  /\ next \in [Addresses -> Addresses \union {NoBlock}]
  /\ live \subseteq owned /\ owned \subseteq 0 .. total - 1

ListInv ==
  /\ Chained(free_list, next, Free)
  /\ free_cnt = Cardinality(Free)
  /\ NEED => free_list = NoBlock

\* A set of natural numbers has a least element.
LEMMA HasMin ==
  ASSUME NEW S \in SUBSET Nat, S # {}
  PROVE  \E x \in S : \A y \in S : x <= y
<1>. DEFINE R == OpToRel(<, Nat)
<1>1. IsWellFoundedOn(R, Nat)
  BY NatLessThanWellFounded
<1>2. \A x, y \in Nat : y < x => <<y, x>> \in R
  BY DEF OpToRel
<1>. HIDE DEF R
<1>3. PICK x \in S : \A y \in S : ~(<<y, x>> \in R)
  BY <1>1, WFMin
<1>4. ASSUME NEW y \in S PROVE x <= y
  <2>1. x \in Nat /\ y \in Nat /\ ~(y < x)
    BY <1>2, <1>3
  <2>. QED
    BY <2>1
<1>. QED
  BY <1>4

\* A bounded one has a greatest.
LEMMA HasMax ==
  ASSUME NEW n \in Nat, NEW S \in SUBSET (0 .. n - 1), S # {}
  PROVE  \E x \in S : \A y \in S : x >= y
<1>. DEFINE T == {n - 1 - x : x \in S}
<1>1. T \in SUBSET Nat /\ T # {}
  <2>1. ASSUME NEW x \in S PROVE n - 1 - x \in Nat
    OBVIOUS
  <2>. QED
    BY <2>1
<1>2. PICK m \in T : \A y \in T : m <= y
  BY <1>1, HasMin
<1>3. PICK x \in S : m = n - 1 - x
  BY <1>2
<1>4. ASSUME NEW y \in S PROVE x >= y
  <2>1. n - 1 - y \in T /\ x \in 0 .. n - 1 /\ y \in 0 .. n - 1
    OBVIOUS
  <2>2. n - 1 - x <= n - 1 - y
    BY <1>2, <1>3, <2>1
  <2>. QED
    BY <2>1, <2>2
<1>. QED
  BY <1>4

\* What Max and Min, with which collectGarbage() is written, return.
LEMMA MaxIsGreatest ==
  ASSUME NEW n \in Nat, NEW S \in SUBSET (0 .. n - 1), S # {}
  PROVE  Max(S) \in S /\ \A y \in S : Max(S) >= y
  BY HasMax DEF Max

LEMMA MinIsLeast ==
  ASSUME NEW S \in SUBSET Nat, S # {}
  PROVE  Min(S) \in S /\ \A y \in S : Min(S) <= y
  BY HasMin DEF Min

\* The chunks that are taken fit in the addresses.
LEMMA ChunksFit ==
  ASSUME Parameters, NEW c \in 1 .. MaxChunks
  PROVE  /\ c * PerChunk \in Nat \ {0} /\ PerChunk * MaxChunks \in Nat
         /\ c * PerChunk <= PerChunk * MaxChunks
         /\ (c + 1) * PerChunk = c * PerChunk + PerChunk
  BY DEF Parameters

\* Taking the first block leaves the list of the others.
LEMMA PopKeepsChain ==
  ASSUME NEW n \in Nat, NEW S \in SUBSET (0 .. n - 1), S # {},
         NEW link, NEW top, Chained(top, link, S)
  PROVE  Chained(link[top], link, S \ {top})
<1>0. top \in S /\ top \in Int /\ \A c \in S : c <= top /\ c \in Int /\ c # NoBlock
  <2>1. top \in S /\ \A c \in S : c <= top
    BY DEF Chained
  <2>2. \A c \in S : c \in Int /\ c # NoBlock
    BY DEF NoBlock
  <2>. QED
    BY <2>1, <2>2
<1>1. CASE link[top] = NoBlock /\ \A c \in S : top <= c
  <2>1. S \ {top} = {}
    BY <1>0, <1>1
  <2>2. ASSUME NEW b \in S \ {top} PROVE FALSE
    BY <2>1
  <2>. QED
    BY <1>1, <2>1, <2>2 DEF Chained
<1>2. CASE link[top] \in S /\ link[top] < top /\ \A c \in S : c < top => c <= link[top]
  <2>1. link[top] \in S \ {top} /\ \A c \in S \ {top} : c <= link[top]
    BY <1>0, <1>2
  <2>2. ASSUME NEW b \in S \ {top}
        PROVE  \/ link[b] = NoBlock /\ \A c \in S \ {top} : b <= c
               \/ /\ link[b] \in S \ {top} /\ link[b] < b
                  /\ \A c \in S \ {top} : c < b => c <= link[b]
    BY <1>0 DEF Chained
  <2>. QED
    BY <1>0, <2>1, <2>2 DEF Chained
<1>. QED
  BY <1>0, <1>1, <1>2 DEF Chained

\* A block that is cut, or that can be, is an address.
LEMMA BlocksAreAddresses ==
  ASSUME Parameters, BlockInv
  PROVE  /\ 0 .. total - 1 \subseteq Addresses
         /\ total < chunks * PerChunk => total \in Addresses
         /\ chunks < MaxChunks => total \in Addresses
<1>. DEFINE cap == PerChunk * MaxChunks
<1>0. MaxChunks \in Nat /\ PerChunk \in Nat \ {0} /\ cap \in Nat
  BY DEF Parameters
<1>1. chunks * PerChunk \in Nat /\ chunks * PerChunk <= cap
  BY ChunksFit DEF BlockInv
<1>2. chunks < MaxChunks => chunks * PerChunk + PerChunk <= cap
  <2>1. chunks < MaxChunks => chunks + 1 \in 1 .. MaxChunks
    BY <1>0 DEF BlockInv
  <2>. QED
    BY <2>1, ChunksFit DEF BlockInv
<1>3. Addresses = 0 .. cap - 1
  BY DEF Addresses
<1>. HIDE DEF cap
<1>. QED
  BY <1>0, <1>1, <1>2, <1>3 DEF BlockInv

\* From an empty free list, a collection builds the list of the blocks that
\* died.
LEMMA CollectChains ==
  ASSUME Parameters, BlockInv, free_list = NoBlock
  PROVE  /\ Chained(Pushed, Threaded, Died)
         /\ Threaded \in [Addresses -> Addresses \union {NoBlock}]
         /\ Pushed \in Died \union {NoBlock}
<1>0. total \in Nat /\ Died \in SUBSET (0 .. total - 1) /\ Died \in SUBSET Nat
  BY DEF BlockInv, Died
<1>1. \A b \in Died : b \in Int /\ b # NoBlock /\ b \in Addresses
  BY <1>0, BlocksAreAddresses DEF NoBlock
<1>2. Died # {} => Max(Died) \in Died /\ \A c \in Died : c <= Max(Died)
  BY <1>0, MaxIsGreatest
<1>3. Pushed = NoBlock <=> Died = {}
  BY <1>1, <1>2 DEF Pushed
<1>4. ASSUME NEW b \in Died
      PROVE  /\ \/ Threaded[b] = NoBlock /\ \A c \in Died : b <= c
                \/ /\ Threaded[b] \in Died /\ Threaded[b] < b
                   /\ \A c \in Died : c < b => c <= Threaded[b]
             /\ Threaded[b] \in Died \union {NoBlock}
  <2>1. Min(Died) \in Died /\ \A c \in Died : Min(Died) <= c
    BY <1>0, MinIsLeast
  <2>2. CASE b = Min(Died)
    BY <1>1, <2>1, <2>2 DEF Threaded
  <2>3. CASE b # Min(Died)
    <3>. DEFINE below == {c \in Died : c < b}
    <3>1. Min(Died) \in below /\ below \in SUBSET (0 .. total - 1)
      <4>1. Min(Died) < b
        BY <1>1, <2>1, <2>3
      <4>. QED
        BY <1>0, <2>1, <4>1
    <3>2. Max(below) \in below /\ \A c \in below : Max(below) >= c
      BY <1>0, <3>1, MaxIsGreatest
    <3>3. Threaded[b] = Max(below)
      BY <1>1, <2>3 DEF Threaded
    <3>4. \A c \in Died : c < b => c <= Max(below)
      BY <1>1, <3>2
    <3>. QED
      BY <3>2, <3>3, <3>4
  <2>. QED
    BY <2>2, <2>3
<1>5. Threaded \in [Addresses -> Addresses \union {NoBlock}]
  <2>1. ASSUME NEW b \in Addresses PROVE Threaded[b] \in Addresses \union {NoBlock}
    <3>1. CASE b \in Died
      BY <1>1, <1>4, <3>1
    <3>2. CASE b \notin Died
      BY <3>2 DEF Threaded, BlockInv
    <3>. QED
      BY <3>1, <3>2
  <2>. QED
    BY <2>1 DEF Threaded
<1>. QED
  BY <1>2, <1>3, <1>4, <1>5 DEF Chained, Pushed

\* The invariant holds initially.
LEMMA FirstState ==
  ASSUME Parameters, Init PROVE BlockInv /\ ListInv
<1>1. Free = {}
  BY DEF Init, Free
<1>2. Chained(free_list, next, {}) /\ Cardinality({}) = 0
  BY FS_EmptySet DEF Init, Chained
<1>3. 1 \in 1 .. MaxChunks /\ 0 <= 1 * PerChunk
  BY ChunksFit DEF Parameters
<1>4. BlockInv
  BY <1>3 DEF Init, BlockInv
<1>. QED
  BY <1>1, <1>2, <1>4 DEF Init, ListInv

\* When the free list is empty every block that was cut is handed out.
LEMMA EmptyIsOwned ==
  ASSUME Parameters, BlockInv, ListInv, free_list = NoBlock
  PROVE  /\ Died \in SUBSET (0 .. total - 1) /\ IsFiniteSet(Died)
         /\ owned = 0 .. total - 1
         /\ Died = (0 .. total - 1) \ live
<1>1. Free = {} /\ total \in Nat /\ owned \subseteq 0 .. total - 1
  BY DEF BlockInv, ListInv, Chained
<1>2. IsFiniteSet(0 .. total - 1)
  BY <1>1, FS_Interval
<1>3. Died = (0 .. total - 1) \ live
  BY DEF Died
<1>. QED
  BY <1>1, <1>2, <1>3, FS_Difference DEF Free

\* Every step keeps it.
LEMMA InvStep ==
  ASSUME Parameters, ~AnyTime, BlockInv, ListInv, [Next]_vars
  PROVE  BlockInv' /\ ListInv'
<1>. USE DEF BlockInv
<1>0. /\ 0 .. total - 1 \subseteq Addresses /\ IsFiniteSet(Free)
      /\ total < chunks * PerChunk => total \in Addresses
      /\ chunks < MaxChunks => total \in Addresses
      /\ Free \in SUBSET (0 .. total - 1)
  <2>1. IsFiniteSet(0 .. total - 1)
    BY FS_Interval
  <2>. QED
    BY <2>1, BlocksAreAddresses, FS_Difference DEF Free
<1>1. ASSUME allocateFree PROVE BlockInv' /\ ListInv'
  <2>1. Free # {} /\ free_list \in Free
    BY <1>1 DEF allocateFree, ListInv, Chained
  <2>2. Chained(next[free_list], next, Free \ {free_list})
    BY <1>0, <2>1, PopKeepsChain DEF ListInv
  <2>3. Free' = Free \ {free_list}
    BY <1>1, <2>1 DEF allocateFree, HandOut, Free
  <2>4. ListInv'
    BY <1>0, <1>1, <2>1, <2>2, <2>3, FS_RemoveElement DEF allocateFree, ListInv
  <2>5. BlockInv'
    BY <1>0, <1>1, <2>1 DEF allocateFree, HandOut, Free
  <2>. QED
    BY <2>4, <2>5
<1>2. ASSUME allocateTop PROVE BlockInv' /\ ListInv'
  <2>1. Free' = Free
    BY <1>2 DEF allocateTop, HandOut, Free
  <2>2. chunks * PerChunk \in Nat
    BY ChunksFit
  <2>3. BlockInv'
    BY <1>2, <2>2 DEF allocateTop, HandOut
  <2>. QED
    BY <1>2, <2>1, <2>3 DEF allocateTop, ListInv
<1>3. ASSUME allocateSync PROVE BlockInv' /\ ListInv'
  <2>1. Free' = Free
    BY <1>3 DEF allocateSync, HandOut, Free
  <2>2. BlockInv'
    <3>1. CASE chunks < MaxChunks
      <4>1. (chunks + 1) * PerChunk = chunks * PerChunk + PerChunk
            /\ chunks * PerChunk \in Nat /\ PerChunk \in Nat \ {0}
        BY ChunksFit DEF Parameters
      <4>2. chunks' \in 1 .. MaxChunks /\ total' \in Nat /\ total' <= chunks' * PerChunk
        BY <1>3, <3>1, <4>1 DEF allocateSync, Parameters
      <4>3. live' \subseteq owned' /\ owned' \subseteq 0 .. total' - 1
        <5>1. /\ live' = live \union {total} /\ owned' = owned \union {total}
              /\ total' = total + 1
          BY <1>3, <3>1 DEF allocateSync, HandOut
        <5>. QED
          BY <5>1
      <4>. QED
        BY <1>3, <4>2, <4>3 DEF allocateSync
    <3>2. CASE ~(chunks < MaxChunks)
      BY <1>3, <3>2 DEF allocateSync
    <3>. QED
      BY <3>1, <3>2
  <2>. QED
    BY <1>3, <2>1, <2>2 DEF allocateSync, ListInv
<1>4. ASSUME allocateAsync PROVE BlockInv' /\ ListInv'
  <2>0. free_list = NoBlock
    BY <1>4 DEF allocateAsync
  <2>1. /\ Chained(Pushed, Threaded, Died) /\ IsFiniteSet(Died)
        /\ Threaded \in [Addresses -> Addresses \union {NoBlock}]
        /\ Died \in SUBSET (0 .. total - 1)
        /\ owned = 0 .. total - 1 /\ Died = (0 .. total - 1) \ live
    BY <2>0, CollectChains, EmptyIsOwned
  <2>2. CASE Pushed # NoBlock
    <3>1. Pushed \in Died
      BY <2>1, <2>2 DEF Chained
    <3>2. Free' = Died \ {Pushed}
      BY <1>4, <2>1, <2>2, <3>1 DEF allocateAsync, HandOut, Free
    <3>3. Chained(Threaded[Pushed], Threaded, Died \ {Pushed})
      BY <2>1, <3>1, PopKeepsChain
    <3>4. Cardinality(Died \ {Pushed}) = Cardinality(Died) - 1
      BY <2>1, <3>1, FS_RemoveElement
    <3>5. ListInv'
      BY <1>4, <2>2, <3>2, <3>3, <3>4 DEF allocateAsync, ListInv
    <3>6. BlockInv'
      BY <1>4, <2>1, <2>2, <3>1 DEF allocateAsync, HandOut
    <3>. QED
      BY <3>5, <3>6
  <2>3. CASE Pushed = NoBlock
    <3>1. Died = {} /\ live = 0 .. total - 1
      BY <2>1, <2>3 DEF Chained
    <3>2. Free' = Died
      BY <1>4, <2>3, <3>1 DEF allocateAsync, HandOut, Free
    <3>3. ListInv'
      BY <1>4, <2>1, <2>3, <3>2 DEF allocateAsync, ListInv
    <3>4. BlockInv'
      <4>1. CASE chunks < MaxChunks
        <5>1. (chunks + 1) * PerChunk = chunks * PerChunk + PerChunk
              /\ chunks * PerChunk \in Nat /\ PerChunk \in Nat \ {0}
          BY ChunksFit DEF Parameters
        <5>2. chunks' \in 1 .. MaxChunks /\ total' \in Nat /\ total' <= chunks' * PerChunk
          BY <1>4, <2>3, <4>1, <5>1 DEF allocateAsync, Parameters
        <5>3. live' \subseteq owned' /\ owned' \subseteq 0 .. total' - 1
          <6>1. /\ live' = live \union {total} /\ owned' = live \union {total}
                /\ total' = total + 1
            BY <1>4, <2>3, <4>1 DEF allocateAsync, HandOut
          <6>. QED
            BY <6>1
        <5>. QED
          BY <1>4, <2>1, <5>2, <5>3 DEF allocateAsync
      <4>2. CASE ~(chunks < MaxChunks)
        BY <1>4, <2>1, <2>3, <4>2 DEF allocateAsync
      <4>. QED
        BY <4>1, <4>2
    <3>. QED
      BY <3>3, <3>4
  <2>. QED
    BY <2>2, <2>3
<1>5. ASSUME collectGarbage PROVE BlockInv' /\ ListInv'
  <2>0. free_list = NoBlock
    BY <1>5 DEF collectGarbage, ListInv
  <2>1. /\ Chained(Pushed, Threaded, Died)
        /\ Threaded \in [Addresses -> Addresses \union {NoBlock}]
        /\ owned = 0 .. total - 1 /\ Died = (0 .. total - 1) \ live
    BY <2>0, CollectChains, EmptyIsOwned
  <2>2. Free' = Died
    BY <1>5, <2>1 DEF collectGarbage, Free
  <2>3. BlockInv'
    BY <1>5, <2>1 DEF collectGarbage
  <2>. QED
    BY <1>5, <2>1, <2>2, <2>3 DEF collectGarbage, ListInv
<1>6. ASSUME setSync \/ setAsync PROVE BlockInv' /\ ListInv'
  <2>1. UNCHANGED <<chunks, total, next, free_list, free_cnt, NEED, live, owned>>
    BY <1>6 DEF setSync, setAsync
  <2>. QED
    BY <2>1 DEF ListInv, Free
<1>7. ASSUME NEW b \in Addresses, Drop(b) PROVE BlockInv' /\ ListInv'
  BY <1>7 DEF Drop, ListInv, Free
<1>8. CASE UNCHANGED vars
  BY <1>8 DEF vars, ListInv, Free
<1>. QED
  BY <1>1, <1>2, <1>3, <1>4, <1>5, <1>6, <1>7, <1>8 DEF Next

\* Every step is one the promise allows, or one the application does not see.
LEMMA PromiseStep ==
  ASSUME Parameters, ~AnyTime, BlockInv, ListInv, [Next]_vars
  PROVE  [Promise!GNext]_(Promise!gcVars)
<1>0. /\ 0 .. total - 1 \subseteq Addresses
      /\ total < chunks * PerChunk => total \in Addresses
      /\ chunks < MaxChunks => total \in Addresses
  BY BlocksAreAddresses
<1>1. ASSUME NEW kept, NEW b \in Addresses, HandOut(kept, b),
             kept \subseteq owned, live \subseteq kept, b \notin kept
      PROVE  Promise!GNext
  <2>1. owned' \ {b} = kept /\ b \in owned' /\ b \in live'
    BY <1>1 DEF HandOut
  <2>2. Promise!GAlloc(b)
    BY <1>1, <2>1 DEF HandOut, Promise!GAlloc, Promise!TakesBack
  <2>. QED
    BY <2>1, <2>2 DEF Promise!GNext
<1>2. ASSUME allocateFree PROVE Promise!GNext
  <2>1. free_list \in Addresses /\ free_list \notin owned
    BY <1>0, <1>2 DEF allocateFree, ListInv, Chained, Free
  <2>. QED
    BY <1>1, <1>2, <2>1 DEF allocateFree, BlockInv
<1>3. ASSUME allocateTop PROVE Promise!GNext
  <2>1. total \in Addresses /\ total \notin owned
    BY <1>0, <1>3 DEF allocateTop, BlockInv
  <2>. QED
    BY <1>1, <1>3, <2>1 DEF allocateTop, BlockInv
<1>4. ASSUME allocateSync PROVE Promise!GNext \/ UNCHANGED Promise!gcVars
  <2>1. CASE chunks < MaxChunks
    <3>1. total \in Addresses /\ total \notin owned
      BY <1>0, <2>1 DEF BlockInv
    <3>. QED
      BY <1>1, <1>4, <2>1, <3>1 DEF allocateSync, BlockInv
  <2>2. CASE ~(chunks < MaxChunks)
    BY <1>4, <2>2 DEF allocateSync, Promise!gcVars
  <2>. QED
    BY <2>1, <2>2
<1>5. ASSUME allocateAsync PROVE Promise!GNext
  <2>0. free_list = NoBlock
    BY <1>5 DEF allocateAsync
  <2>1. Pushed \in Died \union {NoBlock} /\ Died \subseteq 0 .. total - 1
        /\ Died = (0 .. total - 1) \ live
    BY <2>0, CollectChains, EmptyIsOwned
  <2>2. CASE Pushed # NoBlock
    <3>1. Pushed \in Addresses /\ Pushed \notin live
      BY <1>0, <2>1, <2>2
    <3>. QED
      BY <1>1, <1>5, <2>2, <3>1 DEF allocateAsync, BlockInv
  <2>3. CASE Pushed = NoBlock /\ chunks < MaxChunks
    <3>1. total \in Addresses /\ total \notin live
      BY <1>0, <2>3 DEF BlockInv
    <3>. QED
      BY <1>1, <1>5, <2>3, <3>1 DEF allocateAsync, BlockInv
  <2>4. CASE Pushed = NoBlock /\ ~(chunks < MaxChunks)
    BY <1>5, <2>4 DEF allocateAsync, BlockInv, Promise!GNext, Promise!GReclaim,
                      Promise!TakesBack
  <2>. QED
    BY <2>2, <2>3, <2>4
<1>6. ASSUME collectGarbage PROVE Promise!GNext
  BY <1>6 DEF collectGarbage, BlockInv, Promise!GNext, Promise!GReclaim, Promise!TakesBack
<1>7. ASSUME setSync \/ setAsync \/ UNCHANGED vars PROVE UNCHANGED Promise!gcVars
  BY <1>7 DEF setSync, setAsync, vars, Promise!gcVars
<1>8. ASSUME NEW b \in Addresses, Drop(b) PROVE Promise!GNext
  BY <1>8 DEF Drop, Promise!GNext, Promise!GDrop
<1>. QED
  BY <1>2, <1>3, <1>4, <1>5, <1>6, <1>7, <1>8 DEF Next

\* When collectGarbage() is called where needsCollect() asks for it,
\* allocate() never returns a block that is still handed out and a collection
\* never takes back a block the application marks, whatever the size and the
\* number of the chunks and however the synchronous flag is switched.
THEOREM BlocksKeepPromise ==
  ASSUME Parameters, ~AnyTime PROVE Spec => Promise!GSpec
<1>1. Init => BlockInv /\ ListInv /\ Promise!GInit
  BY FirstState DEF Init, Promise!GInit
<1>2. BlockInv /\ ListInv /\ [Next]_vars
        => (BlockInv /\ ListInv)' /\ [Promise!GNext]_(Promise!gcVars)
  BY InvStep, PromiseStep
<1>. QED
  BY <1>1, <1>2, PTL DEF Spec, Promise!GSpec

\* Under the same condition the free list holds exactly the blocks taken back,
\* from the highest to the lowest, freeCount() is their number, and a
\* collection is only asked for when the list is empty.
THEOREM FreeListSound ==
  ASSUME Parameters, ~AnyTime PROVE Spec => [](FreeListThreaded /\ NeedIsSafe)
<1>1. Init => BlockInv /\ ListInv
  BY FirstState
<1>2. BlockInv /\ ListInv /\ [Next]_vars => (BlockInv /\ ListInv)'
  BY InvStep
<1>3. BlockInv /\ ListInv => FreeListThreaded /\ NeedIsSafe
  BY FS_EmptySet DEF ListInv, Chained, FreeListThreaded, NeedIsSafe
<1>. QED
  BY <1>1, <1>2, <1>3, PTL DEF Spec
=============================================================================
