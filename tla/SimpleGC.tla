------------------------------ MODULE SimpleGC ------------------------------
(***************************************************************************)
(* elm::SimpleGC, Temp and TempPtr (include/elm/alloc/SimpleGC.h,          *)
(* src/alloc_SimpleGC.cpp): memory is cut in chunks, allocation is         *)
(* first-fit from the end of the blocks of a free list, and a collection   *)
(* rebuilds the free list from one bit per granule of each chunk.          *)
(*                                                                         *)
(* Addresses count granules (one granule is sizeof(block_t)); the chunk c  *)
(* occupies Base(c) .. Base(c) + CS - 1, and its header keeps it apart     *)
(* from the others.  Sizes given to allocate() and mark() are in bytes.    *)
(***************************************************************************)
EXTENDS Integers, Sequences, FiniteSets, FiniteSetsExt, SequencesExt

CONSTANTS
  Granule,    \* sizeof(block_t) in bytes
  Size,       \* argument of the constructor, in bytes
  Requests,   \* sizes the application asks for, in bytes
  MaxChunks   \* bound on the chunks the heap can give

\* What the constants are assumed to be.
Parameters ==
  /\ Granule \in Nat \ {0} /\ Size \in Nat
  /\ \A s \in Requests : s \in Nat /\ s < Size
  /\ MaxChunks \in Nat

round(s) == (s + Granule - 1) \div Granule
CS       == round(Size)
Chunks   == 1 .. MaxChunks
Base(c)  == c * (CS + 1)
NoSize   == -1

Span(at, n)  == at .. at + n - 1
Extent(c)    == Span(Base(c), CS)
BlockCells(b) == Span(b.at, round(b.size))
Block        == [at : UNION {Base(c) .. Base(c) + CS : c \in Chunks},
                 size : Requests]

VARIABLES
  chunks,    \* the list of chunks, newest first
  free,      \* the free list: records [at, n]
  bits,      \* granules marked in this collection
  roots,     \* blocks the application marks in collect()
  temps,     \* blocks held by Temp objects, marked by doGC() first
  phase,     \* "run", or in doGC(): "temps", "collect", "end"
  want,      \* the size allocate() is looking for during doGC(), or NoSize
  dead,      \* chunks deleted by clear()
  failure,   \* "none", "assert" (failed assertion), "deleted" (use after delete)
  owned,     \* history: blocks handed out since the last collection, or alive
  parity      \* history: parity of the number of blocks handed out

vars == <<chunks, free, bits, roots, temps, phase, want, dead, failure,
          owned, parity>>

live == roots \union temps

-----------------------------------------------------------------------------
(* The free list.                                                           *)

\* Index of the first block large enough, 0 if there is none.
Fit(fl, n) == SelectInSeq(fl, LAMBDA b : b.n >= n)

\* The address of the n granules allocFromFreeList() returns.
Serve(fl, n) == fl[Fit(fl, n)].at + fl[Fit(fl, n)].n - n

\* The free list once n granules were taken from the end of block k.
Taken(fl, n) ==
  LET k == Fit(fl, n) IN
  IF fl[k].n = n THEN RemoveAt(fl, k) ELSE [fl EXCEPT ![k].n = @ - n]

\* The run of free granules that starts at a, if any: as long as can be.
Unset(c) == Extent(c) \ bits

RunAt(c, a) ==
  IF a \in Unset(c) /\ a - 1 \notin Unset(c)
  THEN <<[at |-> a, n |-> CHOOSE m \in 1 .. CS :
            Span(a, m) \subseteq Unset(c) /\ a + m \notin Unset(c)]>>
  ELSE <<>>

\* Free runs of a chunk, in address order: the loops of endGC().
FreeRuns(c) == FlattenSeq([k \in 1 .. CS |-> RunAt(c, Base(c) + k - 1)])

\* endGC() pushes each run in front of the list, chunk after chunk.
Swept == Reverse(FlattenSeq([k \in 1 .. Len(chunks) |-> FreeRuns(chunks[k])]))

-----------------------------------------------------------------------------
SimpleGCInit ==
  /\ chunks = <<>> /\ free = <<>> /\ bits = {}
  /\ roots = {} /\ temps = {} /\ phase = "run" /\ want = NoSize
  /\ dead = {} /\ failure = "none" /\ owned = {} /\ parity = 0

\* allocate() hands b to the application, which keeps it reachable from its
\* own structures or, until it is linked there, in a Temp.
HandOut(kept, b) ==
  /\ owned' = kept \union {b}
  /\ parity' = 1 - parity
  /\ \/ roots' = roots \union {b} /\ UNCHANGED temps
     \/ temps' = temps \union {b} /\ UNCHANGED roots

\* beginGC(): bits are allocated for every chunk of the list.
beginGC(s) ==
  /\ IF Range(chunks) \intersect dead # {}
     THEN failure' = "deleted" /\ UNCHANGED phase
     ELSE phase' = "temps" /\ UNCHANGED failure
  /\ want' = s /\ bits' = {}

\* allocate() finds a block in the free list ...
allocateFree(s) ==
  /\ failure = "none" /\ phase = "run"
  /\ Fit(free, round(s)) > 0
  /\ HandOut(owned, [at |-> Serve(free, round(s)), size |-> s])
  /\ free' = Taken(free, round(s))
  /\ UNCHANGED <<chunks, bits, phase, want, dead, failure>>

\* ... or starts a collection.
allocateGC(s) ==
  /\ failure = "none" /\ phase = "run"
  /\ Fit(free, round(s)) = 0
  /\ beginGC(s)
  /\ UNCHANGED <<chunks, free, roots, temps, dead, owned, parity>>

\* doGC() called by the application.
doGC ==
  /\ failure = "none" /\ phase = "run"
  /\ beginGC(NoSize)
  /\ UNCHANGED <<chunks, free, roots, temps, dead, owned, parity>>

\* The chunk stree::Tree::get() gives for an address: a chunk that contains
\* it, or the last one for its end; elsewhere an assertion of get() or of
\* mark() fails.
Found(a) ==
  \E k \in 1 .. Len(chunks) :
    \/ a \in Extent(chunks[k])
    \/ a = Base(chunks[k]) + CS /\ \A j \in 1 .. Len(chunks) : chunks[j] <= chunks[k]

\* mark(): the bits of the granules of the block are set.
MarkedBits(b) == BlockCells(b)

\* Marks of a callback commute: all those of a set of blocks at once.
markAll(S) ==
  /\ IF \A b \in S : Found(b.at) THEN UNCHANGED failure ELSE failure' = "assert"
  /\ bits' = bits \union UNION {MarkedBits(b) : b \in S}

\* Mutant: the temporaries are not visited.
CollectTempsSkipped ==
  /\ failure = "none" /\ phase = "temps"
  /\ phase' = "collect"
  /\ UNCHANGED <<chunks, free, bits, roots, temps, want, dead, failure,
                 owned, parity>>

\* Temp::collect() of the temporaries.
CollectTemps ==
  /\ failure = "none" /\ phase = "temps"
  /\ markAll(temps)
  /\ phase' = "collect"
  /\ UNCHANGED <<chunks, free, roots, temps, want, dead, owned, parity>>

\* collect() marks the living blocks of the application.
collect ==
  /\ failure = "none" /\ phase = "collect"
  /\ markAll(roots)
  /\ phase' = "end"
  /\ UNCHANGED <<chunks, free, roots, temps, want, dead, owned, parity>>

\* endGC() rebuilds the free list; allocate() looks in it again, then asks
\* the heap for a chunk, which throws when there is none left.
newChunk(c, fl) == <<[at |-> Base(c), n |-> CS]>> \o fl

endGC ==
  /\ failure = "none" /\ phase = "end"
  /\ phase' = "run" /\ want' = NoSize /\ bits' = {}
  /\ LET swept == Swept
         n == round(want)
     IN  IF want = NoSize
         THEN /\ free' = swept /\ owned' = live
              /\ UNCHANGED <<chunks, roots, temps, parity>>
         ELSE IF Fit(swept, n) > 0
         THEN /\ free' = Taken(swept, n)
              /\ HandOut(live, [at |-> Serve(swept, n), size |-> want])
              /\ UNCHANGED chunks
         ELSE \/ \E c \in Chunks \ Range(chunks) :
                   LET fl == newChunk(c, swept) IN
                   /\ chunks' = <<c>> \o chunks
                   /\ free' = Taken(fl, n)
                   /\ HandOut(live, [at |-> Serve(fl, n), size |-> want])
              \/ /\ Chunks = Range(chunks)
                 /\ free' = swept /\ owned' = live
                 /\ UNCHANGED <<chunks, roots, temps, parity>>
  /\ UNCHANGED <<dead, failure>>

\* clear() deletes the chunks of the list, which keeps them, and forgets the
\* free list.
clear ==
  /\ failure = "none" /\ phase = "run"
  /\ failure' = IF Range(chunks) \intersect dead = {} THEN "none" ELSE "deleted"
  /\ dead' = dead \union Range(chunks)
  /\ free' = <<>> /\ roots' = {} /\ temps' = {} /\ owned' = {}
  /\ UNCHANGED <<chunks, bits, phase, want, parity>>

\* The application links a temporary block in its structures, or forgets one.
Link(b) ==
  /\ failure = "none" /\ phase = "run" /\ b \in temps
  /\ temps' = temps \ {b} /\ roots' = roots \union {b}
  /\ UNCHANGED <<chunks, free, bits, phase, want, dead, failure,
                 owned, parity>>

Drop(b) ==
  /\ failure = "none" /\ phase = "run" /\ b \in live
  /\ temps' = temps \ {b} /\ roots' = roots \ {b}
  /\ UNCHANGED <<chunks, free, bits, phase, want, dead, failure,
                 owned, parity>>

\* After undefined behaviour or a failed assertion nothing more is said.
Halted == failure # "none" /\ UNCHANGED vars

collection == CollectTemps \/ collect \/ endGC

Next ==
  \/ \E s \in Requests : allocateFree(s) \/ allocateGC(s)
  \/ doGC \/ collection \/ clear \/ Halted
  \/ \E b \in live : Link(b) \/ Drop(b)

Spec == SimpleGCInit /\ [][Next]_vars

-----------------------------------------------------------------------------
(* Properties.                                                              *)

FreeCells == UNION {Span(free[k].at, free[k].n) : k \in 1 .. Len(free)}
OwnedCells == UNION {BlockCells(b) : b \in owned}
AllCells == UNION {Extent(c) : c \in Range(chunks)}

\* Between two collections, in an allocator that was not cleared, the memory
\* of the chunks is exactly the free list plus the blocks handed out: no
\* granule is lost, none is both free and used, none is twice in the list.
MemoryPartition ==
  phase = "run" /\ dead = {} =>
    /\ FreeCells \union OwnedCells = AllCells
    /\ FreeCells \intersect OwnedCells = {}
    /\ \A j, k \in DOMAIN free : j # k =>
         Span(free[j].at, free[j].n) \intersect Span(free[k].at, free[k].n) = {}

\* What the application sees is the promise of module CooperativeGC: blocks
\* held by a Temp survive a collection just as those of collect().
Promise == INSTANCE CooperativeGC WITH Blocks <- Block, Cells <- BlockCells

-----------------------------------------------------------------------------
(* What the documentation says and the code does not do.                    *)

\* "Reset the allocator": after clear() the allocator can be used again.
ClearedIsUsable == failure # "deleted"

\* "during GC, block out of chunks": mark() of a block allocate() returned
\* never fails its assertion.
MarkFindsChunk == failure # "assert"
=============================================================================
