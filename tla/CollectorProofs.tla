--------------------------- MODULE CollectorProofs ---------------------------
(***************************************************************************)
(* The three cooperative collectors with lists and chunks of their own,    *)
(* ListGC, GroupedGC and SimpleGC, keep the promise of CooperativeGC, and  *)
(* lose no memory.                                                         *)
(*                                                                         *)
(* ListGC: for any heap, any limit and any number of allocations, a living *)
(* block is never deleted, a cycle deletes every other block, and the list *)
(* threads exactly the blocks of the heap between two cycles.  The list is *)
(* described by the allocation stamps: the next of a block is the youngest *)
(* of the blocks older than it, which needs no induction along the list.   *)
(*                                                                         *)
(* GroupedGC and SimpleGC: the loops of endGC() are FlattenSeq() of what   *)
(* each chunk gives, and are described by the items of the list they make; *)
(* the induction is over a set of numbers.                                 *)
(***************************************************************************)
EXTENDS ListGC, SequencesExt, FiniteSetTheorems, SequenceTheorems, NaturalsInduction,
        WellFoundedInduction, TLAPS

\* Blocks are stamped in the order of their allocation.
StampInv ==
  /\ \A b \in heap : stamp[b] > 0 /\ stamp[b] <= clock
  /\ \A b, c \in heap : stamp[b] = stamp[c] => b = c

\* The chain: the head is the youngest block, the next of a block is the
\* youngest of those older than it.
HeadInv ==
  /\ head = Null => heap = {}
  /\ head # Null => head \in heap /\ \A b \in heap : stamp[b] <= stamp[head]

NextInv ==
  \A b \in heap :
    /\ next[b] = Null => \A c \in heap : stamp[c] >= stamp[b]
    /\ next[b] # Null =>
         /\ next[b] \in heap /\ stamp[next[b]] < stamp[b]
         /\ \A c \in heap : stamp[c] < stamp[b] => stamp[c] <= stamp[next[b]]

\* What the marks mean, phase by phase: before the current block of a sweep
\* everything is unmarked and kept, from it on the marks tell what to keep.
TagInv ==
  /\ phase = "run" => fresh = Null /\ \A b \in heap : ~tag[b]
  /\ phase = "mark" => \A b \in heap : tag[b] <=> b \in kept
  /\ phase = "sweep" =>
       \A b \in heap :
         IF p # Null /\ stamp[b] <= stamp[p]
         THEN tag[b] <=> b \in kept
         ELSE ~tag[b] /\ b \in kept

\* Living blocks are in the heap, and marked once collect() has returned.
LiveInv ==
  /\ live \subseteq heap
  /\ phase # "run" => kept \subseteq heap
  /\ fresh # Null => fresh \in heap /\ fresh \in kept
  /\ phase = "sweep" => live \subseteq kept

\* The sweep looks at a block of the list through the pointer that holds it.
SweepInv ==
  phase = "sweep" =>
    /\ p # Null => p \in heap
    /\ q = Null => p = head
    /\ q # Null => q \in heap /\ next[q] = p

\* The counter counts.
CountInv == IsFiniteSet(heap) /\ cnt = Cardinality(heap)

GCInv == TypeOK /\ StampInv /\ HeadInv /\ NextInv /\ TagInv /\ LiveInv
         /\ SweepInv /\ CountInv

-----------------------------------------------------------------------------
\* The constructor establishes the invariant.
LEMMA GCInit == ListGCInit => GCInv
<1> SUFFICES ASSUME ListGCInit PROVE GCInv
  OBVIOUS
<1>1. TypeOK
  BY LimitAssumption DEF ListGCInit, TypeOK
<1>2. CountInv
  BY FS_EmptySet DEF ListGCInit, CountInv
<1>3. StampInv /\ HeadInv /\ NextInv /\ TagInv /\ LiveInv /\ SweepInv
  BY DEF ListGCInit, StampInv, HeadInv, NextInv, TagInv, LiveInv, SweepInv
<1>4. QED
  BY <1>1, <1>2, <1>3 DEF GCInv

\* allocate() chains its block in front of the list, marked iff a cycle
\* starts with it.
LEMMA GCAllocate ==
  ASSUME GCInv, NEW b \in Blocks, allocate(b)
  PROVE  GCInv'
<1> USE DEF GCInv
<1>0. b \notin heap /\ b # Null /\ phase = "run" /\ fresh = Null
  BY BlocksAssumption DEF allocate, TagInv
<1>1. TypeOK'
  <2>1. /\ head' \in Blocks \union {Null}
        /\ next' \in [Blocks -> Blocks \union {Null}]
        /\ tag' \in [Blocks -> BOOLEAN]
    <3>1. tag' = [tag EXCEPT ![b] = TRUE] \/ tag' = [tag EXCEPT ![b] = FALSE]
      BY DEF allocate
    <3>2. tag' \in [Blocks -> BOOLEAN]
      BY <3>1, Zenon DEF TypeOK
    <3>3. QED
      BY <3>2 DEF allocate, TypeOK
  <2>2. cnt' \in Nat /\ lcnt' \in Nat /\ lim' \in Nat /\ dis' \in BOOLEAN
    BY DEF allocate, TypeOK
  <2>3. /\ phase' \in {"run", "mark", "sweep"}
        /\ {fresh', p', q'} \subseteq Blocks \union {Null}
        /\ heap' \subseteq Blocks /\ live' \subseteq Blocks
        /\ kept' \subseteq Blocks
    BY DEF allocate, TypeOK
  <2>4. stamp' \in [Blocks -> Nat] /\ clock' \in Nat
    BY DEF allocate, TypeOK
  <2>5. QED
    BY <2>1, <2>2, <2>3, <2>4 DEF TypeOK
<1>2. StampInv'
  BY <1>0 DEF allocate, TypeOK, StampInv
<1>3. HeadInv'
  BY <1>0 DEF allocate, TypeOK, StampInv, HeadInv
<1>4. NextInv'
  BY <1>0 DEF allocate, TypeOK, StampInv, HeadInv, NextInv
<1>5. TagInv' /\ LiveInv' /\ SweepInv'
  <2>1. CASE gcNeeded(cnt + 1, dis)
    BY <1>0, <2>1 DEF allocate, TypeOK, TagInv, LiveInv, SweepInv
  <2>2. CASE ~gcNeeded(cnt + 1, dis)
    BY <1>0, <2>2 DEF allocate, TypeOK, TagInv, LiveInv, SweepInv
  <2>3. QED
    BY <2>1, <2>2
<1>6. CountInv'
  BY <1>0, FS_AddElement DEF allocate, CountInv
<1>7. QED
  BY <1>1, <1>2, <1>3, <1>4, <1>5, <1>6

\* Deleting an unmarked block closes the list around it.
LEMMA GCSweepFree ==
  ASSUME GCInv, SweepFree
  PROVE  GCInv'
<1> USE DEF GCInv
<1>0. p \in heap /\ ~tag[p] /\ p \notin kept /\ p \notin live /\ p # fresh
  BY DEF SweepFree, SweepInv, TagInv, LiveInv, TypeOK
<1>1. CountInv'
  BY <1>0, FS_RemoveElement DEF SweepFree, CountInv
<1>2. TypeOK'
  <2>1. cnt - 1 \in Nat
    BY <1>1, FS_CardinalityType DEF CountInv, SweepFree
  <2>2. QED
    BY <1>0, <2>1 DEF SweepFree, TypeOK
<1>3. StampInv'
  BY DEF SweepFree, StampInv
<1>4. HeadInv'
  <2>1. CASE q = Null
    BY <1>0, <2>1, BlocksAssumption
       DEF SweepFree, TypeOK, StampInv, HeadInv, NextInv, SweepInv
  <2>2. CASE q # Null
    BY <1>0, <2>2, BlocksAssumption
       DEF SweepFree, TypeOK, StampInv, HeadInv, NextInv, SweepInv
  <2>3. QED
    BY <2>1, <2>2
<1>5. NextInv'
  <2>1. CASE q = Null
    BY <1>0, <2>1, BlocksAssumption
       DEF SweepFree, TypeOK, StampInv, HeadInv, NextInv, SweepInv
  <2>2. CASE q # Null
    BY <1>0, <2>2, BlocksAssumption
       DEF SweepFree, TypeOK, StampInv, HeadInv, NextInv, SweepInv
  <2>3. QED
    BY <2>1, <2>2
<1>6. TagInv'
  BY <1>0, BlocksAssumption DEF SweepFree, TypeOK, StampInv, NextInv, TagInv
<1>7. LiveInv'
  BY <1>0 DEF SweepFree, TypeOK, LiveInv
<1>8. SweepInv'
  <2>1. CASE q = Null
    BY <1>0, <2>1 DEF SweepFree, TypeOK, NextInv, SweepInv
  <2>2. CASE q # Null
    BY <1>0, <2>2, BlocksAssumption
       DEF SweepFree, TypeOK, StampInv, NextInv, SweepInv
  <2>3. QED
    BY <2>1, <2>2
<1>9. QED
  BY <1>1, <1>2, <1>3, <1>4, <1>5, <1>6, <1>7, <1>8

\* The other steps of a cycle.
LEMMA GCCycle ==
  ASSUME GCInv, cycle
  PROVE  GCInv'
<1> USE DEF GCInv
<1>1. CASE SweepFree
  BY <1>1, GCSweepFree
<1>2. ASSUME NEW b \in Blocks, mark(b) PROVE GCInv'
  <2>1. TypeOK' /\ StampInv' /\ HeadInv' /\ NextInv' /\ CountInv'
    BY <1>2 DEF mark, gcState, TypeOK, StampInv, HeadInv, NextInv, CountInv
  <2>2. TagInv' /\ LiveInv' /\ SweepInv'
    BY <1>2 DEF mark, gcState, TypeOK, TagInv, LiveInv, SweepInv
  <2>3. QED
    BY <2>1, <2>2
<1>3. CASE SweepStart
  <2>1. TypeOK' /\ StampInv' /\ HeadInv' /\ NextInv' /\ CountInv'
    BY <1>3 DEF SweepStart, listVars, history, TypeOK, StampInv, HeadInv,
                NextInv, CountInv
  <2>2. TagInv' /\ LiveInv' /\ SweepInv'
    BY <1>3 DEF SweepStart, listVars, history, TypeOK, HeadInv, TagInv,
                LiveInv, SweepInv
  <2>3. QED
    BY <2>1, <2>2
<1>4. CASE SweepKeep
  <2>0. p \in heap /\ tag[p] /\ p \in kept
    BY <1>4 DEF SweepKeep, SweepInv, TagInv, TypeOK
  <2>1. TypeOK' /\ StampInv' /\ HeadInv' /\ NextInv' /\ CountInv'
    BY <1>4, <2>0 DEF SweepKeep, history, TypeOK, StampInv, HeadInv, NextInv,
                      CountInv
  <2>2. TagInv'
    BY <1>4, <2>0 DEF SweepKeep, history, TypeOK, StampInv, NextInv, TagInv
  <2>3. LiveInv' /\ SweepInv'
    BY <1>4, <2>0 DEF SweepKeep, history, TypeOK, NextInv, LiveInv, SweepInv
  <2>4. QED
    BY <2>1, <2>2, <2>3
<1>5. CASE SweepEnd
  <2>1. TypeOK' /\ StampInv' /\ HeadInv' /\ NextInv' /\ CountInv'
    BY <1>5 DEF SweepEnd, TypeOK, StampInv, HeadInv, NextInv, CountInv
  <2>2. TagInv' /\ LiveInv' /\ SweepInv'
    BY <1>5 DEF SweepEnd, TypeOK, TagInv, LiveInv, SweepInv
  <2>3. QED
    BY <2>1, <2>2
<1>6. QED
  BY <1>1, <1>2, <1>3, <1>4, <1>5 DEF cycle

\* Every step preserves the invariant.
LEMMA GCStep == GCInv /\ [Next]_vars => GCInv'
<1> SUFFICES ASSUME GCInv, [Next]_vars PROVE GCInv'
  OBVIOUS
<1>1. ASSUME NEW b \in Blocks, allocate(b) PROVE GCInv'
  BY <1>1, GCAllocate
<1>2. CASE cycle
  BY <1>2, GCCycle
<1> USE DEF GCInv
<1>3. ASSUME NEW b \in Blocks, Drop(b) PROVE GCInv'
  <2>1. TypeOK' /\ StampInv' /\ HeadInv' /\ NextInv' /\ CountInv'
    BY <1>3 DEF Drop, listVars, gcState, TypeOK, StampInv, HeadInv, NextInv,
                CountInv
  <2>2. TagInv' /\ LiveInv' /\ SweepInv'
    BY <1>3 DEF Drop, listVars, gcState, TypeOK, TagInv, LiveInv, SweepInv
  <2>3. QED
    BY <2>1, <2>2
<1>4. CASE runGC \/ disable \/ enable
  <2>1. TypeOK' /\ StampInv' /\ HeadInv' /\ NextInv' /\ CountInv'
    BY <1>4 DEF runGC, disable, enable, listVars, gcState, history, TypeOK,
                StampInv, HeadInv, NextInv, CountInv
  <2>2. TagInv' /\ LiveInv' /\ SweepInv'
    BY <1>4 DEF runGC, disable, enable, listVars, gcState, history, TypeOK,
                TagInv, LiveInv, SweepInv
  <2>3. QED
    BY <2>1, <2>2
<1>5. CASE clean
  <2>1. CountInv'
    BY <1>5, FS_EmptySet DEF clean, CountInv
  <2>2. TypeOK' /\ StampInv' /\ HeadInv' /\ NextInv'
    BY <1>5 DEF clean, gcState, TypeOK, StampInv, HeadInv, NextInv
  <2>3. TagInv' /\ LiveInv' /\ SweepInv'
    BY <1>5 DEF clean, gcState, TypeOK, TagInv, LiveInv, SweepInv
  <2>4. QED
    BY <2>1, <2>2, <2>3
<1>6. CASE UNCHANGED vars
  BY <1>6 DEF vars, listVars, gcState, history, TypeOK, StampInv, HeadInv,
              NextInv, TagInv, LiveInv, SweepInv, CountInv
<1>7. QED
  BY <1>1, <1>2, <1>3, <1>4, <1>5, <1>6 DEF Next

\* The invariant holds in every state.
LEMMA GCInvariance == Spec => []GCInv
BY GCInit, GCStep, PTL DEF Spec

-----------------------------------------------------------------------------
\* The fields of the collector keep their types, whatever the application
\* allocates, forgets and cleans.
THEOREM TypeCorrect == Spec => []TypeOK
<1>1. GCInv => TypeOK
  BY DEF GCInv
<1>2. QED
  BY <1>1, GCInvariance, PTL

\* The sweep of runGC() never deletes a block the application uses, nor the
\* one allocate() is about to return.
THEOREM LivingBlocksKept == Spec => []LiveKept
<1>1. GCInv => LiveKept
  BY DEF GCInv, LiveInv, LiveKept
<1>2. QED
  BY <1>1, GCInvariance, PTL

\* Between two cycles the list threads exactly the blocks of the heap,
\* youngest first and unmarked.
THEOREM ListIsExact == Spec => []ChainExact
<1>1. GCInv => ChainExact
  BY DEF GCInv, HeadInv, NextInv, TagInv, TypeOK, ChainExact, OldestAfter
<1>2. QED
  BY <1>1, GCInvariance, PTL

\* When a cycle ends, the heap is what was marked, unmarked again, and the
\* counter is its size.
THEOREM CyclesComplete == Spec => CycleComplete
<1>1. GCInv /\ [Next]_vars =>
      [SweepEnd => /\ heap = kept
                   /\ \A b \in heap : ~tag[b]
                   /\ cnt = Cardinality(heap)]_vars
  <2> SUFFICES ASSUME GCInv, SweepEnd
               PROVE  /\ heap = kept
                      /\ \A b \in heap : ~tag[b]
                      /\ cnt = Cardinality(heap)
    OBVIOUS
  <2>1. phase = "sweep" /\ p = Null
    BY DEF SweepEnd
  <2>2. \A b \in heap : ~tag[b] /\ b \in kept
    BY <2>1 DEF GCInv, TagInv
  <2>3. kept \subseteq heap /\ cnt = Cardinality(heap)
    BY <2>1 DEF GCInv, LiveInv, CountInv
  <2>4. QED
    BY <2>2, <2>3
<1>2. QED
  BY <1>1, GCInvariance, PTL DEF Spec, CycleComplete

-----------------------------------------------------------------------------
(* ListGC implements CooperativeGC.                                         *)

\* The block allocate() is about to return is not yet in use.
FreshInv == fresh # Null => fresh \notin live

\* What the application sees.
Owned  == IF fresh = Null THEN heap ELSE heap \ {fresh}
Parity == (IF fresh = Null THEN clock ELSE clock - 1) % 2
promiseVars == <<live, Owned, Parity>>

LEMMA ParityFlips == \A k \in Int : (k + 1) % 2 = 1 - (k % 2)
OBVIOUS

\* A step that neither changes the heap nor what is in use is not seen.
LEMMA UnseenStep ==
  ASSUME UNCHANGED <<fresh, heap, live, clock>> PROVE UNCHANGED promiseVars
BY DEF promiseVars, Owned, Parity

LEMMA FreshStep ==
  ASSUME GCInv, FreshInv, Next PROVE FreshInv'
<1> USE DEF FreshInv
<1>1. ASSUME NEW b \in Blocks, allocate(b) PROVE FreshInv'
  BY <1>1 DEF allocate, GCInv, TagInv, LiveInv
<1>2. ASSUME NEW b \in Blocks, Drop(b) \/ mark(b) PROVE FreshInv'
  BY <1>2 DEF Drop, mark, gcState
<1>3. CASE SweepStart \/ SweepKeep \/ SweepFree \/ SweepEnd
  BY <1>3 DEF SweepStart, SweepKeep, SweepFree, SweepEnd, history
<1>4. CASE runGC \/ disable \/ enable
  <2>1. UNCHANGED <<fresh, live>>
    BY <1>4 DEF runGC, disable, enable, gcState, history
  <2>2. QED
    BY <2>1
<1>5. CASE clean
  BY <1>5 DEF clean
<1>6. QED
  BY <1>1, <1>2, <1>3, <1>4, <1>5 DEF Next, cycle

\* Every step of the collector is a step of the promise, or is not seen.
LEMMA PromiseStep ==
  ASSUME GCInv, FreshInv, Next PROVE Promise!GNext \/ UNCHANGED promiseVars
<1>0. clock \in Nat /\ live \subseteq heap /\ heap \subseteq Blocks
  BY DEF GCInv, TypeOK, LiveInv
<1>1. ASSUME NEW b \in Blocks, allocate(b)
      PROVE  Promise!GNext \/ UNCHANGED promiseVars
  <2>0. b \notin heap /\ b # Null /\ fresh = Null
    BY <1>1, BlocksAssumption DEF allocate, GCInv, TagInv
  <2>1. CASE gcNeeded(cnt + 1, dis)
    <3>1. /\ fresh' = b /\ heap' = heap \union {b}
          /\ clock' = clock + 1 /\ live' = live
      BY <1>1, <2>1 DEF allocate
    <3>2. Owned' = Owned /\ Parity' = Parity
      BY <1>0, <2>0, <3>1 DEF Owned, Parity
    <3>3. QED
      BY <3>1, <3>2 DEF promiseVars
  <2>2. CASE ~gcNeeded(cnt + 1, dis)
    <3>1. /\ fresh' = fresh /\ heap' = heap \union {b}
          /\ clock' = clock + 1 /\ live' = live \union {b}
      BY <1>1, <2>2 DEF allocate
    <3>2. Owned = heap /\ Owned' = heap \union {b} /\ Parity' = 1 - Parity
      BY <1>0, <2>0, <3>1, ParityFlips DEF Owned, Parity
    <3>3. Promise!GAlloc(b)
      BY <1>0, <2>0, <3>1, <3>2
         DEF Promise!GAlloc, Promise!TakesBack, Owned, Parity
    <3>4. QED
      BY <3>1, <3>3 DEF Promise!GNext
  <2>3. QED
    BY <2>1, <2>2
<1>2. ASSUME NEW b \in Blocks, Drop(b) PROVE Promise!GNext
  BY <1>2 DEF Drop, gcState, Promise!GNext, Promise!GDrop
<1>3. ASSUME NEW b \in Blocks, mark(b) PROVE UNCHANGED promiseVars
  BY <1>3, UnseenStep DEF mark, gcState
<1>4. CASE SweepStart \/ SweepKeep
  BY <1>4, UnseenStep DEF SweepStart, SweepKeep, history
<1>5. ASSUME SweepFree PROVE Promise!GNext
  <2>1. p \notin live /\ p # fresh
    BY <1>5 DEF SweepFree, GCInv, SweepInv, TagInv, LiveInv, TypeOK
  <2>2. Owned' = Owned \ {p} /\ UNCHANGED <<live, Parity>>
    BY <1>5 DEF SweepFree, Owned, Parity
  <2>3. live \subseteq Owned
    BY <1>0 DEF Owned, FreshInv
  <2>4. Promise!GReclaim
    BY <2>1, <2>2, <2>3 DEF Promise!GReclaim, Promise!TakesBack, Owned, Parity
  <2>5. QED
    BY <2>4 DEF Promise!GNext
<1>6. ASSUME SweepEnd PROVE Promise!GNext \/ UNCHANGED promiseVars
  <2>1. CASE fresh = Null
    BY <1>6, <2>1, UnseenStep DEF SweepEnd
  <2>2. CASE fresh # Null
    <3>1. fresh \in heap /\ fresh \notin live
      BY <2>2 DEF GCInv, LiveInv, FreshInv
    <3>2. /\ fresh' = Null /\ live' = live \union {fresh}
          /\ heap' = heap /\ clock' = clock
      BY <1>6, <2>2 DEF SweepEnd
    <3>3. Owned' = heap /\ Owned = heap \ {fresh} /\ Parity' = 1 - Parity
      <4>1. clock % 2 = 1 - ((clock - 1) % 2)
        BY <1>0, ParityFlips
      <4>2. QED
        BY <2>2, <3>2, <4>1 DEF Owned, Parity
    <3>4. Promise!GAlloc(fresh)
      BY <1>0, <3>1, <3>2, <3>3
         DEF Promise!GAlloc, Promise!TakesBack, Owned, Parity
    <3>5. QED
      BY <1>0, <3>1, <3>2, <3>4 DEF Promise!GNext
  <2>3. QED
    BY <2>1, <2>2
<1>7. CASE runGC \/ disable \/ enable
  BY <1>7, UnseenStep DEF runGC, disable, enable, gcState, history
<1>8. ASSUME clean PROVE Promise!GNext
  <2>1. fresh = Null
    BY <1>8 DEF clean, GCInv, TagInv
  <2>2. Promise!GClean
    BY <1>8, <2>1 DEF clean, gcState, Promise!GClean
  <2>3. QED
    BY <2>2 DEF Promise!GNext
<1>9. QED
  BY <1>1, <1>2, <1>3, <1>4, <1>5, <1>6, <1>7, <1>8 DEF Next, cycle

\* ListGC keeps the promise of the cooperative collectors, for every heap,
\* limit and sequence of allocations, cycles and callbacks: allocate() gives
\* a block nobody holds, its own cycle included, and a cycle takes back only
\* what the application has forgotten.
THEOREM ListGCKeepsPromise == Spec => Promise!GSpec
<1>1. ListGCInit => GCInv /\ FreshInv /\ Promise!GInit
  BY GCInit DEF ListGCInit, FreshInv, Promise!GInit
<1>2. GCInv /\ FreshInv /\ [Next]_vars
        => GCInv' /\ FreshInv' /\ [Promise!GNext]_promiseVars
  <2> SUFFICES ASSUME GCInv, FreshInv, [Next]_vars
               PROVE  GCInv' /\ FreshInv' /\ [Promise!GNext]_promiseVars
    OBVIOUS
  <2>1. GCInv'
    BY GCStep
  <2>2. CASE Next
    BY <2>1, <2>2, FreshStep, PromiseStep
  <2>3. CASE UNCHANGED vars
    BY <2>1, <2>3, UnseenStep DEF vars, gcState, history, FreshInv
  <2>4. QED
    BY <2>2, <2>3
<1>3. QED
  BY <1>1, <1>2, PTL
     DEF Spec, Promise!GSpec, Promise!gcVars, promiseVars, Owned, Parity

-----------------------------------------------------------------------------
(* Facts about lists and numbers.                                           *)

\* Induction over a set of numbers, which needs no operator as a parameter.
LEMMA NatSetInduction ==
  ASSUME NEW P, 0 \in P, \A n \in Nat : n \in P => n + 1 \in P
  PROVE  Nat \subseteq P
<1>. SUFFICES ASSUME Nat \ P # {} PROVE FALSE
  OBVIOUS
<1>. DEFINE R == OpToRel(<, Nat)
<1>1. IsWellFoundedOn(R, Nat)
  BY NatLessThanWellFounded
<1>2. \A x, y \in Nat : y < x => <<y, x>> \in R
  BY DEF OpToRel
<1>. HIDE DEF R
<1>3. PICK x \in Nat \ P : \A y \in Nat \ P : ~(<<y, x>> \in R)
  BY <1>1, WFMin
<1>4. x # 0 /\ x - 1 \in Nat /\ x - 1 < x
  OBVIOUS
<1>5. x - 1 \in P
  BY <1>2, <1>3, <1>4
<1>. QED
  BY <1>3, <1>4, <1>5

\* One step of FlattenSeq().
Step(f, seqs, i) == IF i = 1 THEN seqs[i] ELSE f[i - 1] \o seqs[i]

\* The function by which FlattenSeq() is defined exists, whatever the length.
LEMMA FlattenExists ==
  ASSUME NEW seqs, NEW N \in Nat
  PROVE  \E f : f = [i \in 1 .. N |-> Step(f, seqs, i)]
<1>. DEFINE P == {n \in Nat : \E f : f = [i \in 1 .. n |-> Step(f, seqs, i)]}
<1>1. 0 \in P
  <2>. DEFINE f == [i \in 1 .. 0 |-> 0]
  <2>1. f = [i \in 1 .. 0 |-> Step(f, seqs, i)]
    OBVIOUS
  <2>. QED
    BY <2>1
<1>2. ASSUME NEW n \in Nat, n \in P PROVE n + 1 \in P
  <2>1. PICK f : f = [i \in 1 .. n |-> Step(f, seqs, i)]
    BY <1>2
  <2>. DEFINE g == [i \in 1 .. n + 1 |-> IF i <= n THEN f[i] ELSE Step(f, seqs, i)]
  <2>2. ASSUME NEW i \in 1 .. n + 1 PROVE g[i] = Step(g, seqs, i)
    <3>1. i # 1 => i - 1 \in 1 .. n /\ g[i - 1] = f[i - 1]
      OBVIOUS
    <3>2. Step(g, seqs, i) = Step(f, seqs, i)
      BY <3>1 DEF Step
    <3>3. i <= n => f[i] = Step(f, seqs, i)
      BY <2>1
    <3>. QED
      BY <3>2, <3>3
  <2>3. g = [i \in 1 .. n + 1 |-> g[i]]
    OBVIOUS
  <2>. HIDE DEF g
  <2>4. g = [i \in 1 .. n + 1 |-> Step(g, seqs, i)]
    BY <2>2, <2>3
  <2>. QED
    BY <2>4
<1>3. Nat \subseteq P
  BY <1>1, <1>2, NatSetInduction
<1>. QED
  BY <1>3

\* FlattenSeq() unfolds this function.
LEMMA FlattenIs ==
  ASSUME NEW seqs, Len(seqs) \in Nat, Len(seqs) # 0
  PROVE  \E f : /\ FlattenSeq(seqs) = f[Len(seqs)]
                /\ f = [i \in 1 .. Len(seqs) |-> Step(f, seqs, i)]
<1>1. \E f : f = [i \in 1 .. Len(seqs) |-> IF i = 1 THEN seqs[i] ELSE f[i - 1] \o seqs[i]]
  BY FlattenExists DEF Step
<1>. DEFINE F == CHOOSE f :
              f = [i \in 1 .. Len(seqs) |-> IF i = 1 THEN seqs[i] ELSE f[i - 1] \o seqs[i]]
<1>2. F = [i \in 1 .. Len(seqs) |-> IF i = 1 THEN seqs[i] ELSE F[i - 1] \o seqs[i]]
  BY <1>1
<1>3. FlattenSeq(seqs) = F[Len(seqs)]
  BY DEF FlattenSeq
<1>. QED
  BY <1>2, <1>3 DEF Step

\* The empty list has no item.
LEMMA RangeEmpty == Range(<<>>) = {}
<1>1. <<>> \in Seq({}) /\ Len(<<>>) = 0
  OBVIOUS
<1>2. Range(<<>>) = {<<>>[i] : i \in 1 .. Len(<<>>)}
  BY <1>1, RangeEquality
<1>. QED
  BY <1>1, <1>2

\* FlattenSeq() concatenates: its items are the items of the parts ...
LEMMA FlattenItems ==
  ASSUME NEW T, NEW seqs \in Seq(Seq(T))
  PROVE  /\ FlattenSeq(seqs) \in Seq(T)
         /\ \A x : x \in Range(FlattenSeq(seqs))
              <=> \E k \in 1 .. Len(seqs) : x \in Range(seqs[k])
<1>1. CASE Len(seqs) = 0
  <2>1. seqs = <<>> /\ FlattenSeq(seqs) = <<>>
    BY <1>1, EmptySeq DEF FlattenSeq
  <2>. QED
    <3>1. 1 .. Len(seqs) = {} /\ <<>> \in Seq(T)
      BY <1>1
    <3>. QED
      BY <2>1, <3>1, RangeEmpty
<1>2. CASE Len(seqs) # 0
  <2>1. Len(seqs) \in Nat
    OBVIOUS
  <2>2. PICK f : /\ FlattenSeq(seqs) = f[Len(seqs)]
                 /\ f = [i \in 1 .. Len(seqs) |-> Step(f, seqs, i)]
    BY <1>2, <2>1, FlattenIs
  <2>. DEFINE Q(n) == /\ f[n] \in Seq(T)
                      /\ \A x : x \in Range(f[n])
                           <=> \E k \in 1 .. n : x \in Range(seqs[k])
              P == {n \in Nat : n \in 1 .. Len(seqs) => Q(n)}
  <2>3. 0 \in P
    OBVIOUS
  <2>4. ASSUME NEW n \in Nat, n \in P PROVE n + 1 \in P
    <3>. SUFFICES ASSUME n + 1 \in 1 .. Len(seqs) PROVE Q(n + 1)
      OBVIOUS
    <3>1. seqs[n + 1] \in Seq(T)
      OBVIOUS
    <3>2. CASE n = 0
      <4>1. f[1] = seqs[1]
        BY <2>2, <3>2 DEF Step
      <4>. QED
        BY <3>1, <3>2, <4>1
    <3>3. CASE n # 0
      <4>0. n + 1 # 1 /\ (n + 1) - 1 = n
        BY <3>3
      <4>1. f[n + 1] = f[n] \o seqs[n + 1]
        BY <2>2, <4>0 DEF Step
      <4>2. Q(n)
        BY <2>4, <3>3
      <4>3. Range(f[n + 1]) = Range(f[n]) \union Range(seqs[n + 1])
        BY <3>1, <4>1, <4>2, RangeConcatenation
      <4>. QED
        BY <3>1, <4>1, <4>2, <4>3
    <3>. QED
      BY <3>2, <3>3
  <2>5. Len(seqs) \in P
    BY <2>1, <2>3, <2>4, NatSetInduction
  <2>. QED
    <3>1. Q(Len(seqs))
      <4>1. Len(seqs) \in 1 .. Len(seqs)
        BY <1>2, <2>1
      <4>. HIDE DEF Q
      <4>. QED
        BY <2>5, <4>1
    <3>. QED
      BY <2>2, <3>1
<1>. QED
  BY <1>1, <1>2

\* Two lists without repetition that share no item.
LEMMA ConcatInjective ==
  ASSUME NEW T, NEW s \in Seq(T), NEW t \in Seq(T),
         IsInjective(s), IsInjective(t), Range(s) \intersect Range(t) = {}
  PROVE  IsInjective(s \o t)
<1>. SUFFICES ASSUME NEW a \in 1 .. Len(s) + Len(t), NEW b \in 1 .. Len(s) + Len(t),
                     (s \o t)[a] = (s \o t)[b]
              PROVE  a = b
  BY DEF IsInjective
<1>1. ASSUME NEW i \in 1 .. Len(s), NEW k \in 1 .. Len(t) PROVE s[i] # t[k]
  <2>1. s[i] \in Range(s) /\ t[k] \in Range(t)
    BY RangeEquality
  <2>. QED
    BY <2>1
<1>2. \A i, k \in 1 .. Len(s) : s[i] = s[k] => i = k
  BY DEF IsInjective
<1>3. \A i, k \in 1 .. Len(t) : t[i] = t[k] => i = k
  BY DEF IsInjective
<1>4. ASSUME NEW i \in 1 .. Len(s) + Len(t)
      PROVE  /\ i \in 1 .. Len(s) => (s \o t)[i] = s[i]
             /\ i \notin 1 .. Len(s) => /\ i - Len(s) \in 1 .. Len(t)
                                       /\ (s \o t)[i] = t[i - Len(s)]
  OBVIOUS
<1>5. CASE a \in 1 .. Len(s) /\ b \in 1 .. Len(s)
  BY <1>2, <1>4, <1>5
<1>6. CASE a \notin 1 .. Len(s) /\ b \notin 1 .. Len(s)
  <2>1. a - Len(s) = b - Len(s)
    BY <1>3, <1>4, <1>6
  <2>. QED
    BY <2>1
<1>7. CASE ~(a \in 1 .. Len(s) <=> b \in 1 .. Len(s))
  BY <1>1, <1>4, <1>7
<1>. QED
  BY <1>5, <1>6, <1>7

\* ... and none comes twice when none comes twice in the parts.
LEMMA FlattenInjective ==
  ASSUME NEW T, NEW seqs \in Seq(Seq(T)),
         \A k \in 1 .. Len(seqs) : IsInjective(seqs[k]),
         \A k, l \in 1 .. Len(seqs) :
           k # l => Range(seqs[k]) \intersect Range(seqs[l]) = {}
  PROVE  IsInjective(FlattenSeq(seqs))
<1>1. CASE Len(seqs) = 0
  <2>1. seqs = <<>> /\ FlattenSeq(seqs) = <<>>
    BY <1>1, EmptySeq DEF FlattenSeq
  <2>. QED
    BY <2>1 DEF IsInjective
<1>2. CASE Len(seqs) # 0
  <2>1. Len(seqs) \in Nat
    OBVIOUS
  <2>2. PICK f : /\ FlattenSeq(seqs) = f[Len(seqs)]
                 /\ f = [i \in 1 .. Len(seqs) |-> Step(f, seqs, i)]
    BY <1>2, <2>1, FlattenIs
  <2>. DEFINE Q(n) == /\ f[n] \in Seq(T) /\ IsInjective(f[n])
                      /\ \A x \in Range(f[n]) :
                           \E k \in 1 .. n : x \in Range(seqs[k])
              P == {n \in Nat : n \in 1 .. Len(seqs) => Q(n)}
  <2>3. 0 \in P
    OBVIOUS
  <2>4. ASSUME NEW n \in Nat, n \in P PROVE n + 1 \in P
    <3>. SUFFICES ASSUME n + 1 \in 1 .. Len(seqs) PROVE Q(n + 1)
      OBVIOUS
    <3>1. seqs[n + 1] \in Seq(T) /\ IsInjective(seqs[n + 1])
      OBVIOUS
    <3>2. CASE n = 0
      <4>1. f[1] = seqs[1]
        BY <2>2, <3>2 DEF Step
      <4>. QED
        BY <3>1, <3>2, <4>1
    <3>3. CASE n # 0
      <4>0. n + 1 # 1 /\ (n + 1) - 1 = n
        BY <3>3
      <4>1. f[n + 1] = f[n] \o seqs[n + 1]
        BY <2>2, <4>0 DEF Step
      <4>2. Q(n)
        BY <2>4, <3>3
      <4>3. Range(f[n + 1]) = Range(f[n]) \union Range(seqs[n + 1])
        BY <3>1, <4>1, <4>2, RangeConcatenation
      <4>4. Range(f[n]) \intersect Range(seqs[n + 1]) = {}
        <5>1. ASSUME NEW k \in 1 .. n PROVE Range(seqs[k]) \intersect Range(seqs[n + 1]) = {}
          <6>1. k # n + 1 /\ k \in 1 .. Len(seqs)
            OBVIOUS
          <6>. QED
            BY <6>1
        <5>. QED
          BY <4>2, <5>1
      <4>5. IsInjective(f[n + 1])
        BY <3>1, <4>1, <4>2, <4>4, ConcatInjective
      <4>6. f[n + 1] \in Seq(T)
        BY <3>1, <4>1, <4>2
      <4>7. \A x \in Range(f[n + 1]) : \E k \in 1 .. n + 1 : x \in Range(seqs[k])
        BY <4>2, <4>3
      <4>. QED
        BY <4>5, <4>6, <4>7
    <3>. QED
      BY <3>2, <3>3
  <2>5. Len(seqs) \in P
    BY <2>1, <2>3, <2>4, NatSetInduction
  <2>. QED
    <3>1. Q(Len(seqs))
      <4>1. Len(seqs) \in 1 .. Len(seqs)
        BY <1>2, <2>1
      <4>. HIDE DEF Q
      <4>. QED
        BY <2>5, <4>1
    <3>. QED
      BY <2>2, <3>1
<1>. QED
  BY <1>1, <1>2

\* Reverse() keeps the items, each as often.
LEMMA ReverseItems ==
  ASSUME NEW T, NEW s \in Seq(T)
  PROVE  /\ Reverse(s) \in Seq(T) /\ Range(Reverse(s)) = Range(s)
         /\ Len(Reverse(s)) = Len(s)
         /\ \A i \in 1 .. Len(s) : Reverse(s)[i] = s[Len(s) - i + 1]
         /\ IsInjective(s) => IsInjective(Reverse(s))
<1>. DEFINE r == Reverse(s)
<1>1. r \in Seq(T) /\ Len(r) = Len(s)
      /\ \A i \in 1 .. Len(s) : r[i] = s[Len(s) - i + 1]
  BY DEF Reverse
<1>0. r = Reverse(s)
  OBVIOUS
<1>. HIDE DEF r
<1>2. \A i \in 1 .. Len(s) : Len(s) - i + 1 \in 1 .. Len(s)
                           /\ Len(s) - (Len(s) - i + 1) + 1 = i
  OBVIOUS
<1>3. Range(r) = {r[i] : i \in 1 .. Len(s)} /\ Range(s) = {s[i] : i \in 1 .. Len(s)}
  BY <1>1, RangeEquality
<1>4. Range(r) = Range(s)
  <2>1. ASSUME NEW i \in 1 .. Len(s) PROVE r[i] \in Range(s) /\ s[i] \in Range(r)
    <3>1. r[i] = s[Len(s) - i + 1] /\ r[Len(s) - i + 1] = s[i]
      BY <1>1, <1>2
    <3>. QED
      BY <1>2, <1>3, <3>1
  <2>. QED
    BY <1>3, <2>1
<1>5. IsInjective(s) => IsInjective(r)
  <2>. SUFFICES ASSUME IsInjective(s), NEW a \in 1 .. Len(s), NEW b \in 1 .. Len(s),
                       r[a] = r[b]
                PROVE  a = b
    BY <1>1 DEF IsInjective
  <2>1. s[Len(s) - a + 1] = s[Len(s) - b + 1]
    BY <1>1
  <2>2. Len(s) - a + 1 = Len(s) - b + 1
    BY <1>2, <2>1 DEF IsInjective
  <2>. QED
    BY <2>2
<1>. QED
  BY <1>0, <1>1, <1>4, <1>5, Zenon

\* A part that is empty or has one item.
LEMMA AtMostOne ==
  ASSUME NEW T, NEW x \in T
  PROVE  /\ <<>> \in Seq(T) /\ <<x>> \in Seq(T)
         /\ Range(<<>>) = {} /\ Range(<<x>>) = {x}
         /\ IsInjective(<<>>) /\ IsInjective(<<x>>)
<1>1. <<>> \in Seq(T) /\ <<x>> \in Seq(T) /\ Len(<<x>>) = 1 /\ <<x>>[1] = x
  OBVIOUS
<1>2. Range(<<x>>) = {<<x>>[i] : i \in 1 .. 1}
  BY <1>1, RangeEquality
<1>3. IsInjective(<<>>) /\ IsInjective(<<x>>)
  BY DEF IsInjective
<1>. QED
  BY <1>1, <1>2, <1>3, RangeEmpty

\* The first item of a list and the others.
LEMMA HeadAndTail ==
  ASSUME NEW T, NEW s \in Seq(T), s # <<>>, IsInjective(s)
  PROVE  /\ Head(s) \in T /\ Tail(s) \in Seq(T) /\ IsInjective(Tail(s))
         /\ Range(s) = Range(Tail(s)) \union {Head(s)}
         /\ Head(s) \notin Range(Tail(s))
<1>1. Len(s) \in Nat \ {0} /\ Head(s) = s[1] /\ Head(s) \in T
      /\ Tail(s) \in Seq(T) /\ Len(Tail(s)) = Len(s) - 1
      /\ \A i \in 1 .. Len(s) - 1 : Tail(s)[i] = s[i + 1]
  OBVIOUS
<1>2. \A i, k \in 1 .. Len(s) : s[i] = s[k] => i = k
  BY DEF IsInjective
<1>3. Range(s) = {s[i] : i \in 1 .. Len(s)}
      /\ Range(Tail(s)) = {Tail(s)[i] : i \in 1 .. Len(s) - 1}
  BY <1>1, RangeEquality
<1>4. IsInjective(Tail(s))
  <2>. SUFFICES ASSUME NEW i \in 1 .. Len(s) - 1, NEW k \in 1 .. Len(s) - 1,
                       Tail(s)[i] = Tail(s)[k]
                PROVE  i = k
    BY <1>1 DEF IsInjective
  <2>1. s[i + 1] = s[k + 1] /\ i + 1 \in 1 .. Len(s) /\ k + 1 \in 1 .. Len(s)
    BY <1>1
  <2>2. i + 1 = k + 1
    BY <1>2, <2>1
  <2>. QED
    BY <2>2
<1>5. ASSUME NEW i \in 1 .. Len(s) - 1 PROVE Tail(s)[i] \in Range(s) /\ Tail(s)[i] # Head(s)
  <2>1. i + 1 \in 1 .. Len(s) /\ 1 \in 1 .. Len(s) /\ i + 1 # 1
    BY <1>1
  <2>. QED
    BY <1>1, <1>2, <1>3, <2>1
<1>6. ASSUME NEW i \in 1 .. Len(s) PROVE s[i] = Head(s) \/ s[i] \in Range(Tail(s))
  <2>1. i # 1 => i - 1 \in 1 .. Len(s) - 1 /\ Tail(s)[i - 1] = s[i]
    <3>1. i # 1 => i - 1 \in 1 .. Len(s) - 1 /\ (i - 1) + 1 = i
      BY <1>1
    <3>. QED
      BY <1>1, <3>1
  <2>. QED
    BY <1>1, <1>3, <2>1
<1>7. Head(s) \in Range(s)
  <2>1. 1 \in 1 .. Len(s)
    BY <1>1
  <2>. QED
    BY <1>1, <1>3, <2>1
<1>. QED
  BY <1>1, <1>3, <1>4, <1>5, <1>6, <1>7

\* An item in front of a list.
LEMMA InFront ==
  ASSUME NEW T, NEW s \in Seq(T), NEW x \in T, IsInjective(s), x \notin Range(s)
  PROVE  /\ <<x>> \o s \in Seq(T) /\ IsInjective(<<x>> \o s)
         /\ Range(<<x>> \o s) = Range(s) \union {x}
<1>. DEFINE t == <<x>>
<1>1. t \in Seq(T) /\ Range(t) = {x} /\ IsInjective(t)
  BY AtMostOne
<1>. HIDE DEF t
<1>2. IsInjective(t \o s)
  BY <1>1, ConcatInjective
<1>3. Range(t \o s) = Range(t) \union Range(s)
  BY <1>1, RangeConcatenation
<1>4. t \o s \in Seq(T)
  BY <1>1
<1>5. Range(t \o s) = Range(s) \union {x}
  BY <1>1, <1>3
<1>. QED
  BY <1>2, <1>4, <1>5 DEF t

\* A set of numbers that is not empty has a least one.
LEMMA Least ==
  ASSUME NEW K, K \subseteq Nat, K # {}
  PROVE  \E m \in K : \A k \in K : m <= k
<1>. DEFINE R == OpToRel(<, Nat)
<1>1. IsWellFoundedOn(R, Nat)
  BY NatLessThanWellFounded
<1>2. \A x, y \in Nat : y < x => <<y, x>> \in R
  BY DEF OpToRel
<1>. HIDE DEF R
<1>3. PICK m \in K : \A k \in K : ~(<<k, m>> \in R)
  BY <1>1, WFMin
<1>4. ASSUME NEW k \in K PROVE m <= k
  <2>1. k \in Nat /\ m \in Nat
    OBVIOUS
  <2>2. ~(k < m)
    BY <1>2, <1>3, <2>1
  <2>. QED
    BY <2>1, <2>2
<1>. QED
  BY <1>4

\* An item removed from a list.
LEMMA RemoveIs ==
  ASSUME NEW T, NEW s \in Seq(T), IsInjective(s), NEW k \in 1 .. Len(s)
  PROVE  /\ RemoveAt(s, k) \in Seq(T) /\ IsInjective(RemoveAt(s, k))
         /\ Range(RemoveAt(s, k)) = Range(s) \ {s[k]}
<1>. DEFINE a == SubSeq(s, 1, k - 1)
            b == SubSeq(s, k + 1, Len(s))
            N == Len(s)
<1>1. N \in Nat /\ k \in Nat /\ 1 <= k /\ k <= N
  OBVIOUS
<1>2. a \in Seq(T) /\ Len(a) = k - 1 /\ \A i \in 1 .. k - 1 : a[i] = s[i]
  <2>1. CASE k = 1
    BY <1>1, <2>1
  <2>2. CASE k # 1
    BY <1>1, <2>2
  <2>. QED
    BY <2>1, <2>2
<1>3. b \in Seq(T) /\ Len(b) = N - k /\ \A i \in 1 .. N - k : b[i] = s[k + i]
  <2>1. CASE k = N
    BY <1>1, <2>1
  <2>2. CASE k # N
    BY <1>1, <2>2
  <2>. QED
    BY <2>1, <2>2
<1>4. RemoveAt(s, k) = a \o b
  BY DEF RemoveAt
<1>5. \A i, j \in 1 .. N : s[i] = s[j] => i = j
  BY DEF IsInjective
<1>. HIDE DEF a, b, N
<1>6. /\ Range(s) = {s[i] : i \in 1 .. N}
      /\ Range(a) = {a[i] : i \in 1 .. k - 1}
      /\ Range(b) = {b[i] : i \in 1 .. N - k}
  <2>1. N = Len(s)
    BY DEF N
  <2>. QED
    BY <1>2, <1>3, <2>1, RangeEquality
<1>7. IsInjective(a) /\ IsInjective(b)
  <2>1. \A i, j \in 1 .. k - 1 : a[i] = a[j] => i = j
    BY <1>1, <1>2, <1>5
  <2>2. ASSUME NEW i \in 1 .. N - k, NEW j \in 1 .. N - k, b[i] = b[j] PROVE i = j
    <3>1. k + i \in 1 .. N /\ k + j \in 1 .. N /\ s[k + i] = s[k + j]
      BY <1>1, <1>3, <2>2
    <3>2. k + i = k + j
      BY <1>5, <3>1
    <3>. QED
      BY <1>1, <3>2
  <2>3. IsInjective(a)
    BY <1>2, <2>1 DEF IsInjective
  <2>4. IsInjective(b)
    BY <1>3, <2>2 DEF IsInjective
  <2>. QED
    BY <2>3, <2>4
<1>8. ASSUME NEW i \in 1 .. k - 1, NEW j \in 1 .. N - k PROVE a[i] # b[j]
  <2>1. i \in 1 .. N /\ k + j \in 1 .. N /\ i # k + j
    BY <1>1
  <2>2. a[i] = s[i] /\ b[j] = s[k + j]
    BY <1>2, <1>3
  <2>. QED
    BY <1>5, <2>1, <2>2
<1>9. Range(a) \intersect Range(b) = {}
  BY <1>6, <1>8
<1>10. IsInjective(a \o b)
  BY <1>2, <1>3, <1>7, <1>9, ConcatInjective
<1>11. Range(a \o b) = Range(a) \union Range(b)
  BY <1>2, <1>3, RangeConcatenation
<1>12. \A i \in 1 .. k - 1 : a[i] \in Range(s) /\ a[i] # s[k]
  BY <1>1, <1>2, <1>5, <1>6
<1>13. ASSUME NEW i \in 1 .. N - k PROVE b[i] \in Range(s) /\ b[i] # s[k]
  <2>1. k + i \in 1 .. N /\ k + i # k /\ b[i] = s[k + i]
    BY <1>1, <1>3
  <2>. QED
    BY <1>1, <1>5, <1>6, <2>1
<1>14. ASSUME NEW i \in 1 .. N, i # k PROVE s[i] \in Range(a) \union Range(b)
  <2>1. CASE i < k
    <3>1. i \in 1 .. k - 1 /\ s[i] = a[i]
      BY <1>1, <1>2, <2>1
    <3>. QED
      BY <1>6, <3>1
  <2>2. CASE k < i
    <3>1. i - k \in 1 .. N - k /\ k + (i - k) = i
      BY <1>1, <2>2
    <3>2. b[i - k] = s[i]
      BY <1>3, <3>1
    <3>. QED
      BY <1>6, <3>1, <3>2
  <2>. QED
    BY <1>1, <1>14, <2>1, <2>2
<1>15. Range(a) \union Range(b) = Range(s) \ {s[k]}
  <2>1. \A x \in Range(a) \union Range(b) : x \in Range(s) /\ x # s[k]
    BY <1>6, <1>12, <1>13
  <2>2. \A x \in Range(s) \ {s[k]} : x \in Range(a) \union Range(b)
    BY <1>6, <1>14
  <2>. QED
    BY <2>1, <2>2
<1>. QED
  BY <1>2, <1>3, <1>4, <1>10, <1>11, <1>15

\* Products and quotients of natural numbers.
LEMMA MulMono ==
  ASSUME NEW a \in Nat, NEW b \in Nat, NEW k \in Nat, a <= b
  PROVE  a * k <= b * k
  OBVIOUS

LEMMA MulNext ==
  ASSUME NEW a \in Nat, NEW k \in Nat
  PROVE  (a + 1) * k = a * k + k /\ a * k \in Nat
  OBVIOUS

LEMMA MulApart ==
  ASSUME NEW a \in Nat, NEW b \in Nat, NEW k \in Nat, a < b
  PROVE  a * k + k <= b * k
  BY MulMono, MulNext, a + 1 <= b

LEMMA DivDef ==
  ASSUME NEW x \in Nat, NEW i \in Nat \ {0}
  PROVE  /\ x \div i \in Nat /\ (x \div i) * i <= x /\ x < (x \div i) * i + i
  OBVIOUS

LEMMA ModDef ==
  ASSUME NEW x \in Nat, NEW i \in Nat \ {0}
  PROVE  /\ x % i = x - (x \div i) * i
  OBVIOUS

LEMMA DivMul ==
  ASSUME NEW x \in Nat, NEW k \in Nat, NEW i \in Nat \ {0},
    k * i <= x, x < k * i + i
  PROVE  x \div i = k
<1>1. ~(k < x \div i)
  BY DivDef, MulApart
<1>2. ~(x \div i < k)
  BY DivDef, MulApart
<1>. QED
  BY DivDef, <1>1, <1>2

-----------------------------------------------------------------------------
(* GroupedGC.                                                               *)

-----------------------------------------------------------------------------
CONSTANTS CS, Indexes, MaxIndex, GChunks

VARIABLES g_chunks, g_index, g_left, g_init, g_free_list, g_chunk_list,
          g_chunk_init, g_needGC, g_live, g_dead, g_failure, g_owned, g_parity

G == INSTANCE GroupedGC
  WITH MaxChunks <- GChunks,
       chunks <- g_chunks, index <- g_index, left <- g_left, init <- g_init,
       free_list <- g_free_list, chunk_list <- g_chunk_list,
       chunk_init <- g_chunk_init, needGC <- g_needGC, live <- g_live,
       dead <- g_dead, failure <- g_failure, owned <- g_owned,
       parity <- g_parity

\* The instance uses the operators of the library.
LEMMA GroupedOps ==
  ASSUME NEW s
  PROVE  /\ G!FlattenSeq(s) = FlattenSeq(s) /\ G!Reverse(s) = Reverse(s)
         /\ G!Range(s) = Range(s) /\ (G!IsInjective(s) <=> IsInjective(s))
<1>1. G!FlattenSeq(s) = FlattenSeq(s)
  BY DEF G!FlattenSeq, FlattenSeq
<1>2. G!Reverse(s) = Reverse(s)
  BY DEF G!Reverse, Reverse
<1>3. G!Range(s) = Range(s)
  BY DEF G!Range, Range
<1>4. G!IsInjective(s) <=> IsInjective(s)
  BY DEF G!IsInjective, IsInjective
<1>. QED
  BY <1>1, <1>2, <1>3, <1>4

\* The chunks lie apart.
LEMMA GBases ==
  ASSUME G!Parameters, NEW c \in G!Chunks
  PROVE  /\ G!Base(c) \in Nat /\ c \in Nat
         /\ \A d \in G!Chunks : c # d =>
              G!Span(G!Base(c), CS) \intersect G!Span(G!Base(d), CS) = {}
<1>1. CS + 1 \in Nat /\ c \in Nat /\ CS \in Nat
  BY DEF G!Parameters, G!Chunks
<1>2. G!Base(c) \in Nat
  BY <1>1, MulNext DEF G!Base
<1>3. ASSUME NEW d \in G!Chunks, c # d
      PROVE  G!Span(G!Base(c), CS) \intersect G!Span(G!Base(d), CS) = {}
  <2>1. d \in Nat
    BY DEF G!Chunks, G!Parameters
  <2>2. G!Base(d) \in Nat
    BY <1>1, <2>1, MulNext DEF G!Base
  <2>3. G!Base(c) + CS + 1 <= G!Base(d) \/ G!Base(d) + CS + 1 <= G!Base(c)
    <3>1. CASE c < d
      BY <1>1, <2>1, <3>1, MulApart DEF G!Base
    <3>2. CASE d < c
      BY <1>1, <2>1, <3>2, MulApart DEF G!Base
    <3>. QED
      BY <1>1, <1>3, <2>1, <3>1, <3>2
  <2>. QED
    BY <1>1, <1>2, <2>2, <2>3 DEF G!Span
<1>. QED
  BY <1>1, <1>2, <1>3

\* The blocks of i granules a chunk is cut in.
Slots(c, i) == {G!Base(c) + k * i : k \in 0 .. (CS \div i) - 1}

\* A chunk of bin i serves CS \div i blocks, and no granule more.
LEMMA UsableIs ==
  ASSUME G!Parameters, NEW i \in Nat, 0 < i, i <= CS
  PROVE  /\ CS \div i \in Nat /\ 1 <= CS \div i
         /\ G!Usable(i) = (CS \div i) * i /\ G!Usable(i) <= CS /\ G!Usable(i) \in Nat
<1>1. CS \in Nat /\ i \in Nat \ {0}
  BY DEF G!Parameters
<1>2. CS \div i \in Nat /\ (CS \div i) * i <= CS /\ CS < (CS \div i) * i + i
  BY <1>1, DivDef
<1>3. CS % i = CS - (CS \div i) * i
  BY <1>1, ModDef
<1>4. CS \div i # 0
  <2>1. 0 * i = 0
    BY <1>1
  <2>. QED
    BY <1>1, <1>2, <2>1
<1>5. (CS \div i) * i \in Nat
  BY <1>1, <1>2, MulNext
<1>. QED
  BY <1>1, <1>2, <1>3, <1>4, <1>5 DEF G!Usable

\* The blocks of a chunk lie in the chunk, apart, and cut what it can serve.
LEMMA SlotsCut ==
  ASSUME G!Parameters, NEW c \in G!Chunks, NEW i \in Nat, 0 < i, i <= CS
  PROVE  /\ \A a \in Slots(c, i) :
              /\ a \in Nat /\ a \in G!Span(G!Base(c), CS)
              /\ G!Span(a, i) \subseteq G!Span(G!Base(c), G!Usable(i))
              /\ G!Span(a, i) \subseteq G!Span(G!Base(c), CS)
         /\ \A a, b \in Slots(c, i) : a # b => G!Span(a, i) \intersect G!Span(b, i) = {}
         /\ \A x \in G!Span(G!Base(c), G!Usable(i)) :
              \E a \in Slots(c, i) : x \in G!Span(a, i)
<1>. DEFINE B == G!Base(c)
            M == CS \div i
<1>1. B \in Nat /\ M \in Nat /\ 1 <= M /\ CS \in Nat /\ i \in Nat \ {0}
      /\ G!Usable(i) = M * i /\ M * i <= CS /\ M * i \in Nat
  BY GBases, UsableIs DEF G!Parameters
<1>2. \A a : a \in Slots(c, i) <=> \E k \in 0 .. M - 1 : a = B + k * i
  BY DEF Slots
<1>3. ASSUME NEW k \in 0 .. M - 1
      PROVE  k \in Nat /\ k * i \in Nat /\ k * i + i <= M * i
  <2>1. k \in Nat /\ k < M
    BY <1>1
  <2>. QED
    BY <1>1, <2>1, MulNext, MulApart
<1>. HIDE DEF B, M
<1>4. ASSUME NEW a \in Slots(c, i)
      PROVE  /\ a \in Nat /\ a \in G!Span(B, CS)
             /\ G!Span(a, i) \subseteq G!Span(B, G!Usable(i))
             /\ G!Span(a, i) \subseteq G!Span(B, CS)
  <2>1. PICK k \in 0 .. M - 1 : a = B + k * i
    BY <1>2
  <2>2. k * i \in Nat /\ k * i + i <= M * i
    BY <1>3
  <2>. QED
    BY <1>1, <2>1, <2>2 DEF G!Span
<1>5. ASSUME NEW a \in Slots(c, i), NEW b \in Slots(c, i), a # b
      PROVE  G!Span(a, i) \intersect G!Span(b, i) = {}
  <2>1. PICK k \in 0 .. M - 1 : a = B + k * i
    BY <1>2
  <2>2. PICK l \in 0 .. M - 1 : b = B + l * i
    BY <1>2
  <2>3. k \in Nat /\ l \in Nat /\ k # l /\ k * i \in Nat /\ l * i \in Nat
    BY <1>3, <1>5, <2>1, <2>2
  <2>4. k * i + i <= l * i \/ l * i + i <= k * i
    <3>1. CASE k < l
      BY <1>1, <2>3, <3>1, MulApart
    <3>2. CASE l < k
      BY <1>1, <2>3, <3>2, MulApart
    <3>. QED
      BY <2>3, <3>1, <3>2
  <2>. QED
    BY <1>1, <2>1, <2>2, <2>3, <2>4 DEF G!Span
<1>6. ASSUME NEW x \in G!Span(B, G!Usable(i))
      PROVE  \E a \in Slots(c, i) : x \in G!Span(a, i)
  <2>1. x \in Nat /\ x - B \in Nat /\ x - B < M * i
    BY <1>1 DEF G!Span
  <2>. DEFINE k == (x - B) \div i
  <2>2. k \in Nat /\ k * i <= x - B /\ x - B < k * i + i
    BY <1>1, <2>1, DivDef
  <2>. HIDE DEF k
  <2>3. k * i \in Nat
    BY <1>1, <2>2, MulNext
  <2>4. k < M
    <3>1. M <= k => M * i <= k * i
      BY <1>1, <2>2, MulMono
    <3>. QED
      BY <1>1, <2>1, <2>2, <2>3, <3>1
  <2>5. B + k * i \in Slots(c, i)
    BY <1>1, <1>2, <2>2, <2>4
  <2>6. x \in G!Span(B + k * i, i)
    BY <1>1, <2>1, <2>2, <2>3 DEF G!Span
  <2>. QED
    BY <2>5, <2>6
<1>. QED
  BY <1>4, <1>5, <1>6 DEF B

\* The types of the variables.
GTyped ==
  /\ g_chunks \in Seq(G!Chunks) /\ IsInjective(g_chunks)
  /\ g_index \in [G!Chunks -> Nat] /\ g_left \in [G!Chunks -> Nat]
  /\ g_init \in [G!Chunks -> BOOLEAN]
  /\ g_free_list \in [G!Bins -> Seq(Nat)]
  /\ g_chunk_list \in [G!Bins -> G!Chunks \union {G!NoChunk}]
  /\ g_dead \subseteq Range(g_chunks)

\* A chunk serves a bin; what is not yet served of it is a number of blocks,
\* none when it is used up.
GChunkOk(c) ==
  /\ g_index[c] \in Indexes /\ g_index[c] \in G!Bins /\ 0 < g_index[c]
  /\ \E m \in 0 .. CS \div g_index[c] : g_left[c] = m * g_index[c]
  /\ ~g_init[c] => g_left[c] = 0

\* The chunk a bin is using up.
GBinOk(i) ==
  g_chunk_list[i] # G!NoChunk =>
    /\ g_chunk_list[i] \in Range(g_chunks) /\ g_index[g_chunk_list[i]] = i
    /\ g_init[g_chunk_list[i]] /\ i <= g_left[g_chunk_list[i]]

\* Free blocks are blocks of the chunks that are used up.
GFreeOk(i) ==
  /\ IsInjective(g_free_list[i])
  /\ \A a \in Range(g_free_list[i]) :
       \E c \in Range(g_chunks) : g_index[c] = i /\ ~g_init[c] /\ a \in Slots(c, i)

\* The blocks handed out are blocks of chunks not deleted, past what is not
\* yet served.
OwnedOk(own, R, idx, lft) ==
  \A b \in own : \E c \in R :
    /\ b = [at |-> b.at, n |-> idx[c]]
    /\ b.at \in Slots(c, idx[c]) /\ G!Base(c) + lft[c] <= b.at

GApart ==
  \A b \in g_owned, i \in G!Bins : \A a \in Range(g_free_list[i]) : a # b.at

\* As long as no chunk was deleted, what has been served is free or handed out.
GCover ==
  g_dead = {} =>
    \A c \in Range(g_chunks) : \A a \in Slots(c, g_index[c]) :
      G!Base(c) + g_left[c] <= a =>
        \/ a \in Range(g_free_list[g_index[c]])
        \/ [at |-> a, n |-> g_index[c]] \in g_owned

GSound ==
  /\ GTyped
  /\ \A c \in Range(g_chunks) : GChunkOk(c)
  /\ \A i \in G!Bins : GBinOk(i) /\ GFreeOk(i)
  /\ OwnedOk(g_owned, Range(g_chunks) \ g_dead, g_index, g_left)
  /\ g_live \subseteq g_owned
  /\ GApart /\ GCover

\* The inductive invariant.
GInv == g_failure = "none" => GSound

\* What mark() finds of a block: its chunk and its number.
LEMMA MarkFinds ==
  ASSUME G!Parameters, GTyped, NEW c \in Range(g_chunks), GChunkOk(c)
  PROVE  /\ c \in G!Chunks
         /\ \A a \in G!Span(G!Base(c), CS) : G!ChunkOf(a) = c
         /\ \A a, b \in Slots(c, g_index[c]) : G!Bit(a) = G!Bit(b) => a = b
<1>1. Range(g_chunks) \subseteq G!Chunks
  BY RangeOfSeq DEF GTyped
<1>2. ASSUME NEW a \in G!Span(G!Base(c), CS) PROVE G!ChunkOf(a) = c
  <2>1. \A d \in Range(g_chunks) : a \in G!Span(G!Base(d), CS) => d = c
    BY <1>1, GBases
  <2>2. G!Range(g_chunks) = Range(g_chunks)
    BY GroupedOps
  <2>. QED
    BY <2>1, <2>2 DEF G!ChunkOf
<1>. DEFINE i == g_index[c]
<1>3. i \in Nat /\ 0 < i /\ i <= CS /\ G!Base(c) \in Nat /\ CS \in Nat
  BY <1>1, GBases DEF GChunkOk, GTyped, G!Parameters
<1>4. \A a \in Slots(c, i) : a \in G!Span(G!Base(c), CS)
  BY <1>1, <1>3, SlotsCut
<1>5. CS \div i \in Nat
  BY <1>3, UsableIs
<1>6. ASSUME NEW a \in Slots(c, i)
      PROVE  \E k \in Nat : a = G!Base(c) + k * i /\ G!Bit(a) = k
  <2>1. PICK k \in 0 .. (CS \div i) - 1 : a = G!Base(c) + k * i
    BY DEF Slots
  <2>2. k \in Nat /\ k * i \in Nat
    BY <1>3, <1>5, MulNext
  <2>3. G!Bit(a) = (a - G!Base(c)) \div i
    BY <1>2, <1>4 DEF G!Bit
  <2>4. a - G!Base(c) = k * i
    BY <1>3, <2>1, <2>2
  <2>5. (k * i) \div i = k
    BY <1>3, <2>2, DivMul
  <2>. QED
    BY <2>1, <2>2, <2>3, <2>4, <2>5
<1>7. \A a, b \in Slots(c, i) : G!Bit(a) = G!Bit(b) => a = b
  BY <1>6
<1>. QED
  BY <1>1, <1>2, <1>7

\* The blocks of a used up chunk that endGC() puts in the free list.
LEMMA UnmarkedIs ==
  ASSUME G!Parameters, GTyped, NEW c \in Range(g_chunks), GChunkOk(c)
  PROVE  /\ G!Unmarked(c) \in Seq(Nat) /\ IsInjective(G!Unmarked(c))
         /\ \A a : a \in Range(G!Unmarked(c)) <=>
              a \in Slots(c, g_index[c]) /\ <<c, G!Bit(a)>> \notin G!Marked
<1>. DEFINE i == g_index[c]
            M == CS \div i
            at(k) == G!Slot(c, k)
            part(k) == IF <<c, G!Bit(at(k))>> \in G!Marked THEN <<>> ELSE <<at(k)>>
            parts == [k \in 1 .. M |-> part(k)]
<1>1. c \in G!Chunks
  BY MarkFinds
<1>2. i \in Nat /\ 0 < i /\ i <= CS /\ G!Base(c) \in Nat /\ CS \in Nat
  BY <1>1, GBases DEF GChunkOk, GTyped, G!Parameters
<1>3. M \in Nat
  BY <1>2, UsableIs
<1>4. ASSUME NEW k \in 1 .. M
      PROVE  k - 1 \in Nat /\ (k - 1) * i \in Nat
             /\ at(k) = G!Base(c) + (k - 1) * i /\ at(k) \in Nat
  <2>1. k - 1 \in Nat
    BY <1>3
  <2>2. (k - 1) * i \in Nat
    BY <1>2, <2>1, MulNext
  <2>. QED
    BY <1>2, <2>1, <2>2 DEF G!Slot
<1>5. \A a : a \in Slots(c, i) <=> \E k \in 1 .. M : a = at(k)
  <2>1. \A k \in 1 .. M : k - 1 \in 0 .. M - 1
    BY <1>3
  <2>2. \A k \in 0 .. M - 1 : k + 1 \in 1 .. M /\ (k + 1) - 1 = k
    BY <1>3
  <2>3. ASSUME NEW a \in Slots(c, i) PROVE \E k \in 1 .. M : a = at(k)
    <3>1. PICK k \in 0 .. M - 1 : a = G!Base(c) + k * i
      BY DEF Slots
    <3>2. at(k + 1) = G!Base(c) + k * i
      BY <1>4, <2>2
    <3>. QED
      BY <2>2, <3>1, <3>2
  <2>4. ASSUME NEW k \in 1 .. M PROVE at(k) \in Slots(c, i)
    BY <1>4, <2>1 DEF Slots
  <2>. QED
    BY <2>3, <2>4
<1>6. ASSUME NEW k \in 1 .. M, NEW l \in 1 .. M, k # l PROVE at(k) # at(l)
  <2>1. CASE k < l
    <3>1. k - 1 < l - 1
      BY <1>3, <2>1
    <3>2. (k - 1) * i + i <= (l - 1) * i
      BY <1>2, <1>4, <3>1, MulApart
    <3>. QED
      BY <1>2, <1>4, <3>2
  <2>2. CASE l < k
    <3>1. l - 1 < k - 1
      BY <1>3, <2>2
    <3>2. (l - 1) * i + i <= (k - 1) * i
      BY <1>2, <1>4, <3>1, MulApart
    <3>. QED
      BY <1>2, <1>4, <3>2
  <2>. QED
    BY <1>3, <1>6, <2>1, <2>2
<1>7. ASSUME NEW k \in 1 .. M
      PROVE  /\ part(k) \in Seq(Nat) /\ IsInjective(part(k))
             /\ \A a : a \in Range(part(k)) <=>
                   a = at(k) /\ <<c, G!Bit(a)>> \notin G!Marked
  <2>1. at(k) \in Nat
    BY <1>4
  <2>. HIDE DEF at
  <2>2. CASE <<c, G!Bit(at(k))>> \in G!Marked
    <3>1. part(k) = <<>>
      BY <2>2
    <3>. QED
      BY <2>1, <2>2, <3>1, AtMostOne
  <2>3. CASE <<c, G!Bit(at(k))>> \notin G!Marked
    <3>1. part(k) = <<at(k)>>
      BY <2>3
    <3>2. Range(part(k)) = {at(k)} /\ part(k) \in Seq(Nat) /\ IsInjective(part(k))
      BY <2>1, <3>1, AtMostOne
    <3>. QED
      BY <2>3, <3>2
  <2>. QED
    BY <2>2, <2>3
<1>8. parts \in Seq(Seq(Nat)) /\ Len(parts) = M
      /\ \A k \in 1 .. M : parts[k] = part(k)
  <2>1. \A k \in 1 .. M : part(k) \in Seq(Nat)
    BY <1>7
  <2>. HIDE DEF part
  <2>. QED
    BY <1>3, <2>1
<1>9. G!Unmarked(c) = Reverse(FlattenSeq(parts))
  BY GroupedOps DEF G!Unmarked
<1>. HIDE DEF parts, part, at, M
<1>10. ASSUME NEW k \in 1 .. M, NEW l \in 1 .. M, k # l
       PROVE  Range(parts[k]) \intersect Range(parts[l]) = {}
  <2>1. at(k) # at(l) /\ parts[k] = part(k) /\ parts[l] = part(l)
    BY <1>6, <1>8, <1>10
  <2>2. \A a : a \in Range(part(k)) => a = at(k)
    BY <1>7
  <2>3. \A a : a \in Range(part(l)) => a = at(l)
    BY <1>7
  <2>. QED
    BY <2>1, <2>2, <2>3
<1>11. FlattenSeq(parts) \in Seq(Nat) /\ IsInjective(FlattenSeq(parts))
  <2>1. \A k \in 1 .. Len(parts) : IsInjective(parts[k])
    BY <1>7, <1>8
  <2>2. \A k, l \in 1 .. Len(parts) :
          k # l => Range(parts[k]) \intersect Range(parts[l]) = {}
    BY <1>8, <1>10
  <2>3. IsInjective(FlattenSeq(parts))
    BY <1>8, <2>1, <2>2, FlattenInjective
  <2>. QED
    BY <1>8, <2>3, FlattenItems
<1>12. \A a : a \in Range(FlattenSeq(parts)) <=>
               a \in Slots(c, i) /\ <<c, G!Bit(a)>> \notin G!Marked
  <2>1. \A a : a \in Range(FlattenSeq(parts)) <=> \E k \in 1 .. M : a \in Range(parts[k])
    BY <1>8, FlattenItems
  <2>. QED
    BY <1>5, <1>7, <1>8, <2>1
<1>. QED
  BY <1>9, <1>11, <1>12, ReverseItems

\* A block is marked when, and only when, it is alive.
LEMMA MarkedIsAlive ==
  ASSUME G!Parameters, GSound, NEW c \in Range(g_chunks), NEW a \in Slots(c, g_index[c])
  PROVE  <<c, G!Bit(a)>> \in G!Marked <=> \E b \in g_live : b.at = a
<1>. DEFINE Owner(b, d) == d \in Range(g_chunks) /\ b.at \in Slots(d, g_index[d])
<1>1. ASSUME NEW b \in g_live PROVE \E d : Owner(b, d)
  BY DEF GSound, OwnedOk
<1>2. ASSUME NEW d \in Range(g_chunks)
      PROVE  /\ GChunkOk(d) /\ d \in G!Chunks
             /\ \A x \in Slots(d, g_index[d]) : G!ChunkOf(x) = d
             /\ \A x, y \in Slots(d, g_index[d]) : G!Bit(x) = G!Bit(y) => x = y
  <2>1. GChunkOk(d) /\ GTyped
    BY DEF GSound
  <2>2. d \in G!Chunks
    BY <2>1, MarkFinds
  <2>3. g_index[d] \in Nat /\ 0 < g_index[d] /\ g_index[d] <= CS
    BY <2>1, <2>2 DEF GChunkOk, GTyped, G!Parameters
  <2>4. \A x \in Slots(d, g_index[d]) : x \in G!Span(G!Base(d), CS)
    BY <2>2, <2>3, SlotsCut
  <2>. QED
    BY <2>1, <2>2, <2>4, MarkFinds
<1>3. G!ChunkOf(a) = c
  BY <1>2
<1>4. ASSUME <<c, G!Bit(a)>> \in G!Marked PROVE \E b \in g_live : b.at = a
  <2>1. PICK b \in g_live : c = G!ChunkOf(b.at) /\ G!Bit(a) = G!Bit(b.at)
    BY <1>4 DEF G!Marked
  <2>2. PICK d : Owner(b, d)
    BY <1>1
  <2>3. d = c
    BY <1>2, <2>1, <2>2
  <2>. QED
    BY <1>2, <2>1, <2>2, <2>3
<1>5. ASSUME NEW b \in g_live, b.at = a PROVE <<c, G!Bit(a)>> \in G!Marked
  BY <1>3, <1>5 DEF G!Marked
<1>. QED
  BY <1>4, <1>5

\* The free list endGC() makes for a bin: the blocks of the used up chunks of
\* the bin that are not alive.
LEMMA FreeOfIs ==
  ASSUME G!Parameters, GSound, NEW i \in G!Bins
  PROVE  /\ G!FreeOf(i) \in Seq(Nat) /\ IsInjective(G!FreeOf(i))
         /\ \A a : a \in Range(G!FreeOf(i)) <=>
              /\ \E c \in Range(g_chunks) :
                   g_index[c] = i /\ ~g_init[c] /\ a \in Slots(c, i)
              /\ \A b \in g_live : b.at # a
<1>. DEFINE N == Len(g_chunks)
            part(k) == IF g_chunks[k] \in G!SweptChunks /\ g_index[g_chunks[k]] = i
                       THEN G!Unmarked(g_chunks[k]) ELSE <<>>
            parts == [k \in 1 .. N |-> part(k)]
<1>1. GTyped /\ N \in Nat
  BY DEF GSound, GTyped
<1>2. ASSUME NEW k \in 1 .. N PROVE g_chunks[k] \in Range(g_chunks) /\ g_chunks[k] \in G!Chunks
  BY <1>1 DEF GTyped, Range
<1>3. ASSUME NEW c \in Range(g_chunks)
      PROVE  /\ c \in G!Chunks /\ GChunkOk(c)
             /\ g_index[c] \in Nat /\ 0 < g_index[c] /\ g_index[c] <= CS
             /\ c \in G!SweptChunks <=> ~g_init[c]
             /\ \E k \in 1 .. N : g_chunks[k] = c
  <2>1. GChunkOk(c)
    BY DEF GSound
  <2>2. c \in G!Chunks
    BY <1>1, <2>1, MarkFinds
  <2>3. g_index[c] \in Nat /\ 0 < g_index[c] /\ g_index[c] <= CS
    BY <1>1, <2>1, <2>2 DEF GChunkOk, GTyped, G!Parameters
  <2>4. c \in G!SweptChunks <=> ~g_init[c]
    BY GroupedOps DEF G!SweptChunks
  <2>5. \E k \in 1 .. N : g_chunks[k] = c
    BY <1>1, RangeEquality DEF GTyped
  <2>. QED
    BY <2>1, <2>2, <2>3, <2>4, <2>5
<1>. DEFINE Free(c, a) == g_index[c] = i /\ ~g_init[c] /\ a \in Slots(c, i)
                          /\ \A b \in g_live : b.at # a
<1>4. ASSUME NEW k \in 1 .. N
      PROVE  /\ part(k) \in Seq(Nat) /\ IsInjective(part(k))
             /\ \A a : a \in Range(part(k)) <=> Free(g_chunks[k], a)
  <2>. DEFINE c == g_chunks[k]
  <2>1. c \in Range(g_chunks)
    BY <1>2
  <2>. HIDE DEF c
  <2>2. CASE g_index[c] = i /\ ~g_init[c]
    <3>1. part(k) = G!Unmarked(c)
      BY <1>3, <2>1, <2>2 DEF c
    <3>2. /\ G!Unmarked(c) \in Seq(Nat) /\ IsInjective(G!Unmarked(c))
          /\ \A a : a \in Range(G!Unmarked(c)) <=>
               a \in Slots(c, g_index[c]) /\ <<c, G!Bit(a)>> \notin G!Marked
      BY <1>1, <1>3, <2>1, UnmarkedIs
    <3>3. \A a \in Slots(c, g_index[c]) :
            <<c, G!Bit(a)>> \in G!Marked <=> \E b \in g_live : b.at = a
      BY <2>1, MarkedIsAlive
    <3>. QED
      BY <2>2, <3>1, <3>2, <3>3 DEF c
  <2>3. CASE ~(g_index[c] = i /\ ~g_init[c])
    <3>1. part(k) = <<>>
      BY <1>3, <2>1, <2>3 DEF c
    <3>. QED
      BY <2>3, <3>1, AtMostOne DEF c
  <2>. QED
    BY <2>2, <2>3
<1>5. parts \in Seq(Seq(Nat)) /\ Len(parts) = N /\ \A k \in 1 .. N : parts[k] = part(k)
  <2>1. \A k \in 1 .. N : part(k) \in Seq(Nat)
    BY <1>4
  <2>. HIDE DEF part
  <2>. QED
    BY <1>1, <2>1
<1>6. G!FreeOf(i) = FlattenSeq(Reverse(parts))
  BY GroupedOps DEF G!FreeOf
<1>7. ASSUME NEW k \in 1 .. N, NEW l \in 1 .. N, k # l
      PROVE  Range(part(k)) \intersect Range(part(l)) = {}
  <2>1. g_chunks[k] # g_chunks[l]
    BY <1>1, <1>7 DEF GTyped, IsInjective
  <2>2. ASSUME NEW m \in 1 .. N, NEW a \in Range(part(m))
        PROVE  a \in G!Span(G!Base(g_chunks[m]), CS)
    <3>1. Free(g_chunks[m], a)
      BY <1>4, <2>2
    <3>. QED
      BY <1>2, <1>3, <3>1, SlotsCut
  <2>3. G!Span(G!Base(g_chunks[k]), CS) \intersect G!Span(G!Base(g_chunks[l]), CS) = {}
    BY <1>2, <2>1, GBases
  <2>. HIDE DEF part
  <2>. QED
    BY <2>2, <2>3
<1>. HIDE DEF parts, part
<1>. DEFINE rev == Reverse(parts)
<1>8. rev \in Seq(Seq(Nat)) /\ Len(rev) = N /\ Range(rev) = Range(parts)
      /\ \A k \in 1 .. N : N - k + 1 \in 1 .. N /\ rev[k] = part(N - k + 1)
  <2>1. rev \in Seq(Seq(Nat)) /\ Len(rev) = N /\ Range(rev) = Range(parts)
        /\ \A k \in 1 .. N : rev[k] = parts[N - k + 1]
    BY <1>5, ReverseItems
  <2>. HIDE DEF rev
  <2>2. ASSUME NEW k \in 1 .. N
        PROVE  N - k + 1 \in 1 .. N /\ rev[k] = part(N - k + 1)
    <3>1. N - k + 1 \in 1 .. N
      BY <1>1
    <3>. QED
      BY <1>5, <2>1, <3>1
  <2>. QED
    BY <2>1, <2>2
<1>. HIDE DEF rev
<1>9. FlattenSeq(rev) \in Seq(Nat)
      /\ \A a : a \in Range(FlattenSeq(rev)) <=> \E k \in 1 .. N : a \in Range(rev[k])
  BY <1>8, FlattenItems
<1>10. IsInjective(FlattenSeq(rev))
  <2>1. \A k \in 1 .. Len(rev) : IsInjective(rev[k])
    BY <1>4, <1>8
  <2>2. ASSUME NEW k \in 1 .. Len(rev), NEW l \in 1 .. Len(rev), k # l
        PROVE  Range(rev[k]) \intersect Range(rev[l]) = {}
    <3>1. N - k + 1 # N - l + 1
      BY <1>1, <1>8, <2>2
    <3>. QED
      BY <1>7, <1>8, <3>1
  <2>. QED
    BY <1>8, <2>1, <2>2, FlattenInjective
<1>11. ASSUME NEW a
       PROVE  a \in Range(FlattenSeq(rev)) <=> \E c \in Range(g_chunks) : Free(c, a)
  <2>1. ASSUME a \in Range(FlattenSeq(rev)) PROVE \E c \in Range(g_chunks) : Free(c, a)
    <3>1. PICK k \in 1 .. N : a \in Range(rev[k])
      BY <1>9, <2>1
    <3>2. Free(g_chunks[N - k + 1], a)
      <4>1. N - k + 1 \in 1 .. N /\ a \in Range(part(N - k + 1))
        BY <1>8, <3>1
      <4>. HIDE DEF Free
      <4>. QED
        BY <1>4, <4>1
    <3>. QED
      BY <1>2, <1>8, <3>2
  <2>2. ASSUME NEW c \in Range(g_chunks), Free(c, a) PROVE a \in Range(FlattenSeq(rev))
    <3>1. PICK k \in 1 .. N : g_chunks[k] = c
      BY <1>3
    <3>2. a \in Range(part(k))
      BY <1>4, <2>2, <3>1
    <3>3. N - k + 1 \in 1 .. N /\ N - (N - k + 1) + 1 = k
      BY <1>1
    <3>4. rev[N - k + 1] = part(k)
      BY <1>8, <3>3
    <3>. QED
      BY <1>9, <3>2, <3>3, <3>4
  <2>. QED
    BY <2>1, <2>2
<1>. QED
  BY <1>6, <1>9, <1>10, <1>11 DEF rev

\* Blocks of the chunks R that are not the same share no granule.
LEMMA OwnedApart ==
  ASSUME G!Parameters, NEW R \in SUBSET G!Chunks, NEW own, NEW idx, NEW lft,
         \A c \in R : idx[c] \in Indexes /\ 0 < idx[c], OwnedOk(own, R, idx, lft)
  PROVE  /\ own \subseteq G!Block
         /\ \A b, d \in own : b # d => G!BlockCells(b) \intersect G!BlockCells(d) = {}
<1>1. ASSUME NEW c \in R
      PROVE  /\ idx[c] \in Nat /\ idx[c] <= CS /\ c \in G!Chunks
             /\ \A a \in Slots(c, idx[c]) :
                  /\ a \in Nat /\ a \in G!Span(G!Base(c), CS)
                  /\ G!Span(a, idx[c]) \subseteq G!Span(G!Base(c), CS)
             /\ \A a, b \in Slots(c, idx[c]) :
                  a # b => G!Span(a, idx[c]) \intersect G!Span(b, idx[c]) = {}
  <2>1. idx[c] \in Nat /\ idx[c] <= CS /\ 0 < idx[c]
    <3>1. Indexes \subseteq 0 .. CS /\ CS \in Nat
      BY DEF G!Parameters
    <3>2. idx[c] \in 0 .. CS /\ 0 < idx[c]
      BY <3>1
    <3>. QED
      BY <3>1, <3>2
  <2>. QED
    BY <2>1, SlotsCut
<1>2. ASSUME NEW b \in own
      PROVE  \E c \in R : /\ b = [at |-> b.at, n |-> idx[c]] /\ b.n = idx[c]
                          /\ b.at \in Slots(c, idx[c])
                          /\ G!BlockCells(b) = G!Span(b.at, idx[c])
  <2>1. PICK c \in R : b = [at |-> b.at, n |-> idx[c]] /\ b.at \in Slots(c, idx[c])
    BY DEF OwnedOk
  <2>2. b.n = idx[c]
    BY <2>1
  <2>. QED
    BY <2>1, <2>2 DEF G!BlockCells
<1>3. ASSUME NEW b \in own PROVE b \in G!Block
  <2>1. PICK c \in R : b = [at |-> b.at, n |-> idx[c]] /\ b.at \in Slots(c, idx[c])
    BY <1>2
  <2>2. b.at \in G!Span(G!Base(c), CS) /\ idx[c] \in Indexes /\ c \in G!Chunks
    BY <1>1, <2>1
  <2>. QED
    BY <2>1, <2>2 DEF G!Block
<1>4. ASSUME NEW b \in own, NEW d \in own, b # d
      PROVE  G!BlockCells(b) \intersect G!BlockCells(d) = {}
  <2>1. PICK c \in R : /\ b = [at |-> b.at, n |-> idx[c]]
                       /\ b.at \in Slots(c, idx[c])
                       /\ G!BlockCells(b) = G!Span(b.at, idx[c])
    BY <1>2
  <2>2. PICK e \in R : /\ d = [at |-> d.at, n |-> idx[e]]
                       /\ d.at \in Slots(e, idx[e])
                       /\ G!BlockCells(d) = G!Span(d.at, idx[e])
    BY <1>2
  <2>3. CASE c = e
    <3>1. b.at # d.at
      BY <1>4, <2>1, <2>2, <2>3
    <3>. QED
      BY <1>1, <2>1, <2>2, <2>3, <3>1
  <2>4. CASE c # e
    <3>1. G!Span(G!Base(c), CS) \intersect G!Span(G!Base(e), CS) = {}
      BY <1>1, <2>4, GBases
    <3>. QED
      BY <1>1, <2>1, <2>2, <3>1
  <2>. QED
    BY <2>3, <2>4
<1>. QED
  BY <1>3, <1>4

\* What allocate() hands out when the invariant goes on is what the promise
\* allows.
LEMMA HandOutKeeps ==
  ASSUME G!Parameters, GSound, GSound', NEW b, b \notin g_owned, G!HandOut(b)
  PROVE  G!Promise!GStep
<1>1. \A c \in Range(g_chunks)' : c \in G!Chunks /\ g_index'[c] \in Indexes /\ 0 < g_index'[c]
  BY RangeOfSeq DEF GSound, GTyped, GChunkOk
<1>2. OwnedOk(g_owned', Range(g_chunks)' \ g_dead', g_index', g_left')
  BY DEF GSound
<1>3. /\ g_owned' \subseteq G!Block
      /\ \A d, e \in g_owned' : d # e => G!BlockCells(d) \intersect G!BlockCells(e) = {}
  <2>. DEFINE R == Range(g_chunks)' \ g_dead'
  <2>1. R \in SUBSET G!Chunks /\ \A c \in R : g_index'[c] \in Indexes /\ 0 < g_index'[c]
    BY <1>1
  <2>2. OwnedOk(g_owned', R, g_index', g_left')
    BY <1>2
  <2>. HIDE DEF R
  <2>. QED
    BY <2>1, <2>2, OwnedApart
<1>4. g_live' = g_live \union {b} /\ g_owned' = g_owned \union {b} /\ g_parity' = 1 - g_parity
  BY DEF G!HandOut
<1>5. g_live \subseteq g_owned
  BY DEF GSound
<1>6. g_owned' \ {b} = g_owned /\ b \in g_owned'
  BY <1>4
<1>7. G!Promise!GAlloc(b)
  BY <1>3, <1>4, <1>5, <1>6 DEF G!Promise!GAlloc, G!Promise!TakesBack
<1>8. b \in G!Block \intersect g_live'
  BY <1>3, <1>4, <1>6
<1>. QED
  BY <1>7, <1>8 DEF G!Promise!GStep, G!Promise!GNext

\* What the invariant says of a chunk, with the types.
LEMMA ChunkIs ==
  ASSUME G!Parameters, GSound, NEW c \in Range(g_chunks)
  PROVE  /\ c \in G!Chunks /\ g_index[c] \in Indexes /\ g_index[c] \in Nat
         /\ g_index[c] \in G!Bins
         /\ 0 < g_index[c] /\ g_index[c] <= CS /\ g_left[c] \in Nat
         /\ \E m \in 0 .. CS \div g_index[c] : g_left[c] = m * g_index[c]
         /\ ~g_init[c] => g_left[c] = 0
         /\ G!Base(c) \in Nat
         /\ \A a \in Slots(c, g_index[c]) : a \in Nat /\ a \in G!Span(G!Base(c), CS)
<1>1. GTyped /\ GChunkOk(c)
  BY DEF GSound
<1>2. c \in G!Chunks
  BY <1>1, MarkFinds
<1>3. g_index[c] \in Indexes /\ g_index[c] \in Nat /\ 0 < g_index[c] /\ g_index[c] <= CS
  BY <1>1, <1>2 DEF GChunkOk, GTyped, G!Parameters
<1>. QED
  BY <1>1, <1>2, <1>3, GBases, SlotsCut DEF GChunkOk, GTyped

\* allocFromFreeList() hands out a free block, that no one holds.
LEMMA AllocFreeStep ==
  ASSUME G!Parameters, GSound, NEW i \in Indexes, G!allocFree(i), g_failure' = "none"
  PROVE  GSound' /\ G!Promise!GStep
<1>. DEFINE a == Head(g_free_list[i])
            b == [at |-> a, n |-> i]
<1>1. /\ i \in G!Bins /\ g_free_list[i] # <<>> /\ ~G!Deleted(a) /\ G!HandOut(b)
      /\ g_free_list' = [g_free_list EXCEPT ![i] = Tail(@)]
      /\ g_chunks' = g_chunks /\ g_index' = g_index /\ g_left' = g_left
      /\ g_init' = g_init /\ g_chunk_list' = g_chunk_list /\ g_dead' = g_dead
  BY DEF G!allocFree, G!chunkVars
<1>2. g_live' = g_live \union {b} /\ g_owned' = g_owned \union {b}
  BY <1>1 DEF G!HandOut
<1>3. GTyped /\ GFreeOk(i)
  BY <1>1 DEF GSound
<1>4. /\ Tail(g_free_list[i]) \in Seq(Nat) /\ IsInjective(Tail(g_free_list[i]))
      /\ Range(g_free_list[i]) = Range(Tail(g_free_list[i])) \union {a}
      /\ a \notin Range(Tail(g_free_list[i]))
  <2>1. g_free_list[i] \in Seq(Nat) /\ IsInjective(g_free_list[i])
    BY <1>1, <1>3 DEF GTyped, GFreeOk
  <2>. QED
    BY <1>1, <2>1, HeadAndTail
<1>. HIDE DEF a
<1>5. PICK c \in Range(g_chunks) : g_index[c] = i /\ ~g_init[c] /\ a \in Slots(c, i)
  BY <1>3, <1>4 DEF GFreeOk
<1>6. c \notin g_dead
  <2>1. a \in G!Span(G!Base(c), CS)
    BY <1>5, ChunkIs
  <2>. QED
    BY <1>1, <2>1 DEF G!Deleted
<1>7. /\ g_free_list'[i] = Tail(g_free_list[i])
      /\ \A j \in G!Bins : j # i => g_free_list'[j] = g_free_list[j]
      /\ g_free_list' \in [G!Bins -> Seq(Nat)]
  BY <1>1, <1>3, <1>4 DEF GTyped
<1>8. \A j \in G!Bins : Range(g_free_list'[j]) \subseteq Range(g_free_list[j])
  BY <1>1, <1>4, <1>7
<1>9. GTyped'
  BY <1>1, <1>3, <1>7 DEF GTyped
<1>10. (\A d \in Range(g_chunks) : GChunkOk(d))' /\ (\A j \in G!Bins : GBinOk(j))'
  <2>1. (\A d \in Range(g_chunks) : GChunkOk(d)) /\ (\A j \in G!Bins : GBinOk(j))
    BY DEF GSound
  <2>. QED
    BY <1>1, <2>1 DEF GChunkOk, GBinOk
<1>11. ASSUME NEW j \in G!Bins PROVE GFreeOk(j)'
  <2>1. GFreeOk(j)
    BY DEF GSound
  <2>2. IsInjective(g_free_list'[j])
    BY <1>4, <1>7, <2>1 DEF GFreeOk
  <2>. QED
    BY <1>1, <1>8, <2>1, <2>2 DEF GFreeOk
<1>12. G!Base(c) + g_left[c] <= a /\ b.at = a
  <2>1. g_left[c] = 0 /\ G!Base(c) \in Nat /\ a \in Nat /\ a \in G!Span(G!Base(c), CS)
    BY <1>5, ChunkIs
  <2>. QED
    BY <2>1 DEF G!Span, G!Parameters
<1>13. OwnedOk(g_owned, Range(g_chunks) \ g_dead, g_index, g_left)'
  <2>1. OwnedOk(g_owned, Range(g_chunks) \ g_dead, g_index, g_left)
    BY DEF GSound
  <2>2. c \in Range(g_chunks) \ g_dead
    BY <1>5, <1>6
  <2>3. b = [at |-> b.at, n |-> g_index[c]]
    BY <1>5, <1>12
  <2>. QED
    BY <1>1, <1>2, <1>5, <1>12, <2>1, <2>2, <2>3 DEF OwnedOk
<1>14. b \notin g_owned
  BY <1>1, <1>4, <1>12 DEF GSound, GApart
<1>15. (g_live \subseteq g_owned)'
  BY <1>2 DEF GSound
<1>16. GApart'
  <2>. SUFFICES ASSUME NEW d \in g_owned', NEW j \in G!Bins, NEW x \in Range(g_free_list'[j])
                PROVE  x # d.at
    BY DEF GApart
  <2>1. CASE d \in g_owned
    BY <1>8, <2>1 DEF GSound, GApart
  <2>2. CASE d = b
    <3>1. CASE j = i
      BY <1>4, <1>7, <1>12, <2>2, <3>1
    <3>2. CASE j # i
      <4>1. PICK e \in Range(g_chunks) : g_index[e] = j /\ x \in Slots(e, j)
        BY <1>8 DEF GSound, GFreeOk
      <4>2. x \in G!Span(G!Base(e), CS) /\ a \in G!Span(G!Base(c), CS) /\ e # c
            /\ c \in G!Chunks /\ e \in G!Chunks
        BY <1>5, <3>2, <4>1, ChunkIs
      <4>. QED
        BY <1>12, <2>2, <4>2, GBases
    <3>. QED
      BY <3>1, <3>2
  <2>. QED
    BY <1>2, <2>1, <2>2
<1>17. GCover'
  <2>. SUFFICES ASSUME g_dead = {}, NEW d \in Range(g_chunks), NEW x \in Slots(d, g_index[d]),
                       G!Base(d) + g_left[d] <= x
                PROVE  \/ x \in Range(g_free_list'[g_index[d]])
                       \/ [at |-> x, n |-> g_index[d]] \in g_owned'
    BY <1>1 DEF GCover
  <2>1. \/ x \in Range(g_free_list[g_index[d]])
        \/ [at |-> x, n |-> g_index[d]] \in g_owned
    BY DEF GSound, GCover
  <2>2. g_index[d] \in G!Bins
    BY ChunkIs
  <2>. QED
    BY <1>2, <1>4, <1>7, <2>1, <2>2
<1>18. GSound'
  BY <1>9, <1>10, <1>11, <1>13, <1>15, <1>16, <1>17 DEF GSound
<1>. QED
  BY <1>1, <1>14, <1>18, HandOutKeeps

\* The last block of what remains of a chunk.
LEMMA LastSlot ==
  ASSUME G!Parameters, NEW c \in G!Chunks, NEW i \in Nat, 0 < i, i <= CS,
         NEW m \in 1 .. CS \div i
  PROVE  /\ m * i \in Nat /\ m * i - i \in Nat /\ i <= m * i
         /\ m - 1 \in 0 .. CS \div i /\ m * i - i = (m - 1) * i
         /\ m * i - i < i => m * i - i = 0
         /\ G!Base(c) + (m * i - i) \in Slots(c, i)
         /\ \A x \in Slots(c, i) : G!Base(c) + (m * i - i) <= x =>
              x = G!Base(c) + (m * i - i) \/ G!Base(c) + m * i <= x
<1>. DEFINE M == CS \div i
<1>1. M \in Nat /\ G!Base(c) \in Nat
  BY GBases, UsableIs
<1>. HIDE DEF M
<1>2. m \in Nat /\ m - 1 \in Nat /\ m - 1 \in 0 .. M - 1 /\ (m - 1) + 1 = m
  BY <1>1 DEF M
<1>3. m * i = (m - 1) * i + i /\ (m - 1) * i \in Nat
  BY <1>2, MulNext
<1>4. ASSUME (m - 1) * i < i PROVE (m - 1) * i = 0
  <2>1. ~(0 < m - 1)
    <3>1. 0 < m - 1 => 0 * i + i <= (m - 1) * i
      BY <1>2, MulApart
    <3>. QED
      BY <1>3, <1>4, <3>1
  <2>2. m - 1 = 0
    BY <1>2, <2>1
  <2>. QED
    BY <2>2
<1>5. G!Base(c) + (m - 1) * i \in Slots(c, i)
  BY <1>2 DEF Slots, M
<1>6. ASSUME NEW x \in Slots(c, i), G!Base(c) + (m - 1) * i <= x
      PROVE  x = G!Base(c) + (m - 1) * i \/ G!Base(c) + m * i <= x
  <2>1. PICK k \in 0 .. M - 1 : x = G!Base(c) + k * i
    BY DEF Slots, M
  <2>2. k \in Nat /\ k * i \in Nat
    BY <1>1, <2>1, MulNext
  <2>3. CASE k < m - 1
    <3>1. k * i + i <= (m - 1) * i
      BY <1>2, <2>2, <2>3, MulApart
    <3>. QED
      BY <1>1, <1>3, <1>6, <2>1, <2>2, <3>1
  <2>4. CASE k = m - 1
    BY <2>1, <2>4
  <2>5. CASE m <= k
    <3>1. m * i <= k * i
      BY <1>2, <2>2, <2>5, MulMono
    <3>. QED
      BY <1>1, <1>3, <2>1, <2>2, <3>1
  <2>. QED
    BY <1>2, <2>2, <2>3, <2>4, <2>5
<1>7. m * i \in Nat /\ m * i - i = (m - 1) * i /\ i <= m * i
  BY <1>3
<1>8. m - 1 \in 0 .. CS \div i
  BY <1>1, <1>2 DEF M
<1>. QED
  BY <1>3, <1>4, <1>5, <1>6, <1>7, <1>8

\* A chunk in its first use hands out its last block, or was deleted.
LEMMA AllocChunkStep ==
  ASSUME G!Parameters, GSound, NEW i \in Indexes, G!allocChunk(i)
  PROVE  IF g_chunk_list[i] \in g_dead
         THEN g_failure' = "deleted" /\ UNCHANGED <<g_live, g_owned, g_parity>>
         ELSE g_failure' = "none" /\ GSound' /\ G!Promise!GStep
<1>. SUFFICES ASSUME g_chunk_list[i] \notin g_dead
              PROVE  g_failure' = "none" /\ GSound' /\ G!Promise!GStep
  BY DEF G!allocChunk
<1>. DEFINE c == g_chunk_list[i]
            rest == g_left[c] - i
            b == [at |-> G!Base(c) + g_left[c] - i, n |-> i]
<1>1. /\ i \in G!Bins /\ c # G!NoChunk /\ G!HandOut(b)
      /\ g_left' = [g_left EXCEPT ![c] = rest]
      /\ g_free_list' = g_free_list /\ g_chunks' = g_chunks /\ g_index' = g_index
      /\ g_dead' = g_dead
  BY DEF G!allocChunk, G!Cut
<1>2. IF rest < i
      THEN /\ g_chunk_list' = [g_chunk_list EXCEPT ![i] = G!NoChunk]
           /\ g_init' = [g_init EXCEPT ![c] = FALSE]
           /\ g_failure' = IF rest = 0 THEN "none" ELSE "assert"
      ELSE /\ g_chunk_list' = g_chunk_list /\ g_init' = g_init
           /\ g_failure' = g_failure
  BY DEF G!allocChunk
<1>3. g_failure = "none"
  BY DEF G!allocChunk
<1>4. g_live' = g_live \union {b} /\ g_owned' = g_owned \union {b}
  BY <1>1 DEF G!HandOut
<1>5. GTyped /\ GBinOk(i)
  BY <1>1 DEF GSound
<1>6. c \in Range(g_chunks) /\ g_index[c] = i /\ g_init[c] /\ i <= g_left[c]
  BY <1>1, <1>5 DEF GBinOk
<1>. HIDE DEF c
<1>7. /\ c \in G!Chunks /\ i \in Nat /\ 0 < i /\ i <= CS /\ g_left[c] \in Nat
      /\ \E m \in 0 .. CS \div i : g_left[c] = m * i
  BY <1>6, ChunkIs
<1>8. PICK m \in 1 .. CS \div i : g_left[c] = m * i
  <2>1. PICK m \in 0 .. CS \div i : g_left[c] = m * i
    BY <1>7
  <2>2. m # 0
    BY <1>6, <1>7, <2>1
  <2>. QED
    BY <2>1, <2>2
<1>9. /\ rest \in Nat /\ m - 1 \in 0 .. CS \div i /\ rest = (m - 1) * i
      /\ rest < i => rest = 0
      /\ G!Base(c) + rest \in Slots(c, i)
      /\ \A x \in Slots(c, i) : G!Base(c) + rest <= x =>
           x = G!Base(c) + rest \/ G!Base(c) + g_left[c] <= x
  BY <1>7, <1>8, LastSlot
<1>10. G!Base(c) \in Nat
  BY <1>7, GBases
<1>11. G!Base(c) + g_left[c] - i = G!Base(c) + rest
  BY <1>7, <1>10
<1>12. b = [at |-> G!Base(c) + rest, n |-> i] /\ b.at = G!Base(c) + rest /\ b.n = i
  BY <1>11
<1>. HIDE DEF rest, b
<1>13. g_failure' = "none"
  BY <1>2, <1>3, <1>9
<1>14. /\ g_left'[c] = rest
       /\ \A d \in G!Chunks : d # c => g_left'[d] = g_left[d]
       /\ g_left' \in [G!Chunks -> Nat]
  BY <1>1, <1>5, <1>7, <1>9 DEF GTyped
<1>15. /\ g_init' \in [G!Chunks -> BOOLEAN]
       /\ \A d \in G!Chunks : (d # c => g_init'[d] = g_init[d]) /\ (~g_init[d] => ~g_init'[d])
       /\ ~g_init'[c] => rest < i
  BY <1>2, <1>5, <1>6, <1>7 DEF GTyped
<1>16. /\ g_chunk_list' \in [G!Bins -> G!Chunks \union {G!NoChunk}]
       /\ \A j \in G!Bins : j # i => g_chunk_list'[j] = g_chunk_list[j]
       /\ g_chunk_list'[i] = IF rest < i THEN G!NoChunk ELSE c
  BY <1>1, <1>2, <1>5 DEF GTyped, c
<1>17. GTyped'
  BY <1>1, <1>5, <1>14, <1>15, <1>16 DEF GTyped
<1>18. \A d \in Range(g_chunks) : d \in G!Chunks /\ GChunkOk(d)
  BY ChunkIs DEF GSound
<1>19. ASSUME NEW d \in Range(g_chunks) PROVE GChunkOk(d)'
  <2>1. CASE d = c
    <3>1. g_index'[d] = i /\ g_left'[d] = (m - 1) * i
      BY <1>1, <1>6, <1>9, <1>14, <2>1
    <3>2. ~g_init'[d] => g_left'[d] = 0
      BY <1>9, <1>14, <1>15, <2>1
    <3>. QED
      BY <1>1, <1>7, <1>9, <3>1, <3>2 DEF GChunkOk
  <2>2. CASE d # c
    <3>1. g_left'[d] = g_left[d] /\ g_init'[d] = g_init[d] /\ g_index'[d] = g_index[d]
      BY <1>1, <1>14, <1>15, <1>18, <2>2
    <3>. QED
      BY <1>18, <3>1 DEF GChunkOk
  <2>. QED
    BY <2>1, <2>2
<1>20. ASSUME NEW j \in G!Bins PROVE GBinOk(j)'
  <2>1. CASE j = i
    BY <1>1, <1>6, <1>7, <1>9, <1>14, <1>15, <1>16, <2>1 DEF GBinOk
  <2>2. CASE j # i
    <3>1. GBinOk(j)
      BY DEF GSound
    <3>2. ASSUME g_chunk_list[j] # G!NoChunk
          PROVE  g_chunk_list[j] # c /\ g_chunk_list[j] \in G!Chunks
      BY <1>6, <1>18, <2>2, <3>1, <3>2 DEF GBinOk
    <3>3. g_chunk_list'[j] = g_chunk_list[j]
      BY <1>16, <2>2
    <3>. QED
      BY <1>1, <1>14, <1>15, <3>1, <3>2, <3>3 DEF GBinOk
  <2>. QED
    BY <2>1, <2>2
<1>21. ASSUME NEW j \in G!Bins PROVE GFreeOk(j)'
  <2>1. GFreeOk(j)
    BY DEF GSound
  <2>. QED
    BY <1>1, <1>15, <1>18, <2>1 DEF GFreeOk
<1>22. OwnedOk(g_owned, Range(g_chunks) \ g_dead, g_index, g_left)'
  <2>1. OwnedOk(g_owned, Range(g_chunks) \ g_dead, g_index, g_left)
    BY DEF GSound
  <2>2. c \in Range(g_chunks) \ g_dead
    BY <1>6 DEF c
  <2>3. b = [at |-> b.at, n |-> g_index[c]] /\ b.at \in Slots(c, g_index[c])
        /\ G!Base(c) + g_left'[c] <= b.at
    BY <1>6, <1>9, <1>10, <1>12, <1>14
  <2>4. ASSUME NEW d \in g_owned
        PROVE  \E e \in Range(g_chunks) \ g_dead :
                 /\ d = [at |-> d.at, n |-> g_index[e]]
                 /\ d.at \in Slots(e, g_index[e]) /\ G!Base(e) + g_left'[e] <= d.at
    <3>1. PICK e \in Range(g_chunks) \ g_dead :
                 /\ d = [at |-> d.at, n |-> g_index[e]]
                 /\ d.at \in Slots(e, g_index[e]) /\ G!Base(e) + g_left[e] <= d.at
      BY <2>1 DEF OwnedOk
    <3>2. /\ e \in G!Chunks /\ G!Base(e) \in Nat /\ g_left[e] \in Nat /\ d.at \in Nat
          /\ g_left'[e] \in Nat
      BY <1>14, <3>1, ChunkIs
    <3>3. g_left'[e] <= g_left[e]
      <4>1. rest <= g_left[c]
        BY <1>7 DEF rest
      <4>. QED
        BY <1>14, <3>2, <4>1
    <3>4. G!Base(e) + g_left'[e] <= d.at
      BY <3>1, <3>2, <3>3
    <3>. QED
      BY <3>1, <3>4
  <2>. QED
    BY <1>1, <1>4, <2>2, <2>3, <2>4 DEF OwnedOk
<1>23. b \notin g_owned
  <2>. SUFFICES ASSUME b \in g_owned PROVE FALSE
    OBVIOUS
  <2>1. PICK e \in Range(g_chunks) : /\ b.n = g_index[e] /\ b.at \in Slots(e, g_index[e])
                                     /\ G!Base(e) + g_left[e] <= b.at
    <3>1. OwnedOk(g_owned, Range(g_chunks) \ g_dead, g_index, g_left)
      BY DEF GSound
    <3>2. PICK e \in Range(g_chunks) \ g_dead :
             /\ b = [at |-> b.at, n |-> g_index[e]]
             /\ b.at \in Slots(e, g_index[e]) /\ G!Base(e) + g_left[e] <= b.at
      BY <3>1 DEF OwnedOk
    <3>3. b.n = g_index[e]
      BY <3>2
    <3>. QED
      BY <3>2, <3>3
  <2>2. e = c
    <3>1. b.at \in G!Span(G!Base(e), CS) /\ e \in G!Chunks
      BY <2>1, ChunkIs
    <3>2. b.at \in G!Span(G!Base(c), CS)
      BY <1>6, <1>9, <1>12, ChunkIs
    <3>. QED
      BY <1>7, <3>1, <3>2, GBases
  <2>3. rest < g_left[c]
    BY <1>7 DEF rest
  <2>. QED
    BY <1>7, <1>9, <1>10, <1>12, <2>1, <2>2, <2>3
<1>24. (g_live \subseteq g_owned)'
  BY <1>4 DEF GSound
<1>25. GApart'
  <2>. SUFFICES ASSUME NEW d \in g_owned', NEW j \in G!Bins, NEW x \in Range(g_free_list[j])
                PROVE  x # d.at
    BY <1>1 DEF GApart
  <2>1. CASE d \in g_owned
    BY <2>1 DEF GSound, GApart
  <2>2. CASE d = b
    <3>1. PICK e \in Range(g_chunks) : g_index[e] = j /\ ~g_init[e] /\ x \in Slots(e, j)
      BY DEF GSound, GFreeOk
    <3>2. x \in G!Span(G!Base(e), CS) /\ b.at \in G!Span(G!Base(c), CS) /\ e # c
          /\ e \in G!Chunks
      BY <1>6, <1>9, <1>12, <3>1, ChunkIs
    <3>. QED
      BY <1>7, <2>2, <3>2, GBases
  <2>. QED
    BY <1>4, <2>1, <2>2
<1>26. GCover'
  <2>. SUFFICES ASSUME g_dead = {}, NEW d \in Range(g_chunks), NEW x \in Slots(d, g_index[d]),
                       G!Base(d) + g_left'[d] <= x
                PROVE  \/ x \in Range(g_free_list[g_index[d]])
                       \/ [at |-> x, n |-> g_index[d]] \in g_owned'
    BY <1>1 DEF GCover
  <2>1. G!Base(d) + g_left[d] <= x =>
          \/ x \in Range(g_free_list[g_index[d]])
          \/ [at |-> x, n |-> g_index[d]] \in g_owned
    BY DEF GSound, GCover
  <2>2. CASE d = c
    <3>1. x = G!Base(c) + rest \/ G!Base(c) + g_left[c] <= x
      BY <1>6, <1>9, <1>14, <2>2
    <3>2. CASE x = G!Base(c) + rest
      <4>1. [at |-> x, n |-> g_index[d]] = b
        BY <1>6, <1>12, <2>2, <3>2
      <4>. QED
        BY <1>4, <4>1
    <3>3. CASE G!Base(c) + g_left[c] <= x
      BY <1>4, <2>1, <2>2, <3>3
    <3>. QED
      BY <3>1, <3>2, <3>3
  <2>3. CASE d # c
    <3>1. g_left'[d] = g_left[d]
      BY <1>14, <1>18, <2>3
    <3>. QED
      BY <1>4, <2>1, <3>1
  <2>. QED
    BY <2>2, <2>3
<1>27. GSound'
  BY <1>1, <1>17, <1>19, <1>20, <1>21, <1>22, <1>24, <1>25, <1>26 DEF GSound
<1>. QED
  BY <1>1, <1>13, <1>23, <1>27, HandOutKeeps

\* A new chunk hands out its last block.
LEMMA AllocateNewStep ==
  ASSUME G!Parameters, GSound, NEW i \in Indexes, NEW c \in G!Chunks, G!allocateNew(i, c)
  PROVE  g_failure' = "none" /\ GSound' /\ G!Promise!GStep
<1>. DEFINE rest == G!Usable(i) - i
            b == [at |-> G!Base(c) + G!Usable(i) - i, n |-> i]
            M == CS \div i
<1>1. /\ i \in G!Bins /\ i # 0 /\ c \notin Range(g_chunks) /\ G!HandOut(b)
      /\ g_chunks' = <<c>> \o g_chunks
      /\ g_index' = [g_index EXCEPT ![c] = i]
      /\ g_left' = [g_left EXCEPT ![c] = rest]
      /\ g_init' = [g_init EXCEPT ![c] = rest >= i]
      /\ g_chunk_list' = [g_chunk_list EXCEPT ![i] = IF rest < i THEN G!NoChunk ELSE c]
      /\ g_failure' = IF rest < i /\ rest # 0 THEN "assert" ELSE "none"
      /\ g_free_list' = g_free_list /\ g_dead' = g_dead
  BY GroupedOps DEF G!allocateNew, G!Cut
<1>2. g_live' = g_live \union {b} /\ g_owned' = g_owned \union {b}
  BY <1>1 DEF G!HandOut
<1>3. GTyped
  BY DEF GSound
<1>4. i \in Nat /\ 0 < i /\ i <= CS
  BY <1>1 DEF G!Parameters, G!Bins
<1>5. M \in Nat /\ 1 <= M /\ G!Usable(i) = M * i /\ G!Usable(i) \in Nat
  BY <1>4, UsableIs
<1>6. M \in 1 .. M
  BY <1>5
<1>7. /\ rest \in Nat /\ M - 1 \in 0 .. M /\ rest = (M - 1) * i
      /\ rest < i => rest = 0
      /\ G!Base(c) + rest \in Slots(c, i)
      /\ \A x \in Slots(c, i) : G!Base(c) + rest <= x =>
           x = G!Base(c) + rest \/ G!Base(c) + G!Usable(i) <= x
  BY <1>4, <1>5, <1>6, LastSlot
<1>8. G!Base(c) \in Nat /\ b = [at |-> G!Base(c) + rest, n |-> i]
      /\ b.at = G!Base(c) + rest /\ b.n = i
  <2>1. G!Base(c) \in Nat
    BY GBases
  <2>2. G!Base(c) + G!Usable(i) - i = G!Base(c) + rest
    BY <1>4, <1>5, <2>1
  <2>. QED
    BY <2>1, <2>2
<1>9. \A x \in Slots(c, i) : x \in Nat /\ x \in G!Span(G!Base(c), CS)
        /\ (G!Base(c) + rest <= x => x = G!Base(c) + rest)
  <2>. SUFFICES ASSUME NEW x \in Slots(c, i)
                PROVE  x \in Nat /\ x \in G!Span(G!Base(c), CS)
                       /\ x < G!Base(c) + G!Usable(i)
    BY <1>5, <1>7, <1>8
  <2>1. /\ x \in Nat /\ x \in G!Span(G!Base(c), CS)
        /\ G!Span(x, i) \subseteq G!Span(G!Base(c), G!Usable(i))
    BY <1>4, SlotsCut
  <2>2. x \in G!Span(x, i)
    BY <1>4, <2>1 DEF G!Span
  <2>. QED
    BY <1>5, <1>8, <2>1, <2>2 DEF G!Span
<1>. HIDE DEF rest, b, M
<1>10. g_failure' = "none"
  BY <1>1, <1>7
<1>11. /\ g_chunks' \in Seq(G!Chunks) /\ IsInjective(g_chunks')
       /\ Range(g_chunks') = Range(g_chunks) \union {c}
  BY <1>1, <1>3, InFront DEF GTyped
<1>12. /\ g_index'[c] = i /\ g_left'[c] = rest /\ g_init'[c] = (rest >= i)
       /\ \A d \in G!Chunks : d # c =>
            g_index'[d] = g_index[d] /\ g_left'[d] = g_left[d] /\ g_init'[d] = g_init[d]
       /\ g_index' \in [G!Chunks -> Nat] /\ g_left' \in [G!Chunks -> Nat]
       /\ g_init' \in [G!Chunks -> BOOLEAN]
  BY <1>1, <1>3, <1>4, <1>7 DEF GTyped
<1>13. /\ g_chunk_list' \in [G!Bins -> G!Chunks \union {G!NoChunk}]
       /\ \A j \in G!Bins : j # i => g_chunk_list'[j] = g_chunk_list[j]
       /\ g_chunk_list'[i] = IF rest < i THEN G!NoChunk ELSE c
  BY <1>1, <1>3 DEF GTyped
<1>14. GTyped'
  BY <1>1, <1>3, <1>11, <1>12, <1>13 DEF GTyped
<1>15. \A d \in Range(g_chunks) : d \in G!Chunks /\ d # c /\ GChunkOk(d)
  BY <1>1, ChunkIs DEF GSound
<1>16. c \notin g_dead
  BY <1>1, <1>3 DEF GTyped
<1>17. ASSUME NEW d \in Range(g_chunks') PROVE GChunkOk(d)'
  <2>1. CASE d = c
    <3>1. g_left'[d] = (M - 1) * i /\ M - 1 \in 0 .. CS \div i
      BY <1>7, <1>12, <2>1 DEF M
    <3>2. ~g_init'[d] => g_left'[d] = 0
      BY <1>4, <1>7, <1>12, <2>1
    <3>. QED
      BY <1>1, <1>4, <1>12, <2>1, <3>1, <3>2 DEF GChunkOk
  <2>2. CASE d # c
    <3>1. g_left'[d] = g_left[d] /\ g_init'[d] = g_init[d] /\ g_index'[d] = g_index[d]
          /\ GChunkOk(d)
      BY <1>11, <1>12, <1>15, <2>2
    <3>. QED
      BY <3>1 DEF GChunkOk
  <2>. QED
    BY <2>1, <2>2
<1>18. ASSUME NEW j \in G!Bins PROVE GBinOk(j)'
  <2>1. CASE j = i
    BY <1>4, <1>7, <1>11, <1>12, <1>13, <2>1 DEF GBinOk
  <2>2. CASE j # i
    <3>1. GBinOk(j)
      BY DEF GSound
    <3>2. g_chunk_list'[j] = g_chunk_list[j]
      BY <1>13, <2>2
    <3>. QED
      BY <1>11, <1>12, <1>15, <3>1, <3>2 DEF GBinOk
  <2>. QED
    BY <2>1, <2>2
<1>19. ASSUME NEW j \in G!Bins PROVE GFreeOk(j)'
  <2>1. GFreeOk(j)
    BY DEF GSound
  <2>. QED
    BY <1>1, <1>11, <1>12, <1>15, <2>1 DEF GFreeOk
<1>20. OwnedOk(g_owned, Range(g_chunks) \ g_dead, g_index, g_left)'
  <2>1. OwnedOk(g_owned, Range(g_chunks) \ g_dead, g_index, g_left)
    BY DEF GSound
  <2>2. c \in Range(g_chunks') \ g_dead'
    BY <1>1, <1>11, <1>16
  <2>3. b = [at |-> b.at, n |-> g_index'[c]] /\ b.at \in Slots(c, g_index'[c])
        /\ G!Base(c) + g_left'[c] <= b.at
    BY <1>7, <1>8, <1>12
  <2>4. ASSUME NEW d \in g_owned
        PROVE  \E e \in Range(g_chunks') \ g_dead' :
                 /\ d = [at |-> d.at, n |-> g_index'[e]]
                 /\ d.at \in Slots(e, g_index'[e]) /\ G!Base(e) + g_left'[e] <= d.at
    <3>1. PICK e \in Range(g_chunks) \ g_dead :
                 /\ d = [at |-> d.at, n |-> g_index[e]]
                 /\ d.at \in Slots(e, g_index[e]) /\ G!Base(e) + g_left[e] <= d.at
      BY <2>1 DEF OwnedOk
    <3>2. g_index'[e] = g_index[e] /\ g_left'[e] = g_left[e]
      BY <1>12, <1>15, <3>1
    <3>3. e \in Range(g_chunks') \ g_dead'
      BY <1>1, <1>11, <3>1
    <3>. QED
      BY <3>1, <3>2, <3>3
  <2>. QED
    BY <1>2, <2>2, <2>3, <2>4 DEF OwnedOk
<1>21. ASSUME NEW d \in g_owned PROVE d.at # b.at
  <2>1. OwnedOk(g_owned, Range(g_chunks) \ g_dead, g_index, g_left)
    BY DEF GSound
  <2>2. PICK e \in Range(g_chunks) : d.at \in Slots(e, g_index[e])
    BY <2>1 DEF OwnedOk
  <2>3. d.at \in G!Span(G!Base(e), CS) /\ e \in G!Chunks /\ e # c
    BY <1>15, <2>2, ChunkIs
  <2>4. b.at \in G!Span(G!Base(c), CS)
    BY <1>7, <1>8, <1>9
  <2>. QED
    BY <2>3, <2>4, GBases
<1>22. b \notin g_owned
  BY <1>21
<1>23. (g_live \subseteq g_owned)'
  BY <1>2 DEF GSound
<1>24. GApart'
  <2>. SUFFICES ASSUME NEW d \in g_owned', NEW j \in G!Bins, NEW x \in Range(g_free_list[j])
                PROVE  x # d.at
    BY <1>1 DEF GApart
  <2>1. CASE d \in g_owned
    BY <2>1 DEF GSound, GApart
  <2>2. CASE d = b
    <3>1. PICK e \in Range(g_chunks) : g_index[e] = j /\ ~g_init[e] /\ x \in Slots(e, j)
      BY DEF GSound, GFreeOk
    <3>2. x \in G!Span(G!Base(e), CS) /\ b.at \in G!Span(G!Base(c), CS) /\ e # c
          /\ e \in G!Chunks
      BY <1>7, <1>8, <1>9, <1>15, <3>1, ChunkIs
    <3>. QED
      BY <2>2, <3>2, GBases
  <2>. QED
    BY <1>2, <2>1, <2>2
<1>25. GCover'
  <2>. SUFFICES ASSUME g_dead = {}, NEW d \in Range(g_chunks'), NEW x \in Slots(d, g_index'[d]),
                       G!Base(d) + g_left'[d] <= x
                PROVE  \/ x \in Range(g_free_list[g_index'[d]])
                       \/ [at |-> x, n |-> g_index'[d]] \in g_owned'
    BY <1>1 DEF GCover
  <2>1. CASE d = c
    <3>1. x = G!Base(c) + rest
      BY <1>9, <1>12, <2>1
    <3>2. [at |-> x, n |-> g_index'[d]] = b
      BY <1>8, <1>12, <2>1, <3>1
    <3>. QED
      BY <1>2, <3>2
  <2>2. CASE d # c
    <3>1. d \in Range(g_chunks) /\ g_left'[d] = g_left[d] /\ g_index'[d] = g_index[d]
      BY <1>11, <1>12, <1>15, <2>2
    <3>2. \/ x \in Range(g_free_list[g_index[d]])
          \/ [at |-> x, n |-> g_index[d]] \in g_owned
      BY <3>1 DEF GSound, GCover
    <3>. QED
      BY <1>2, <3>1, <3>2
  <2>. QED
    BY <2>1, <2>2
<1>26. GSound'
  BY <1>14, <1>17, <1>18, <1>19, <1>20, <1>23, <1>24, <1>25 DEF GSound
<1>. QED
  BY <1>1, <1>10, <1>22, <1>26, HandOutKeeps

\* endGC() makes the free lists of the blocks that are not alive.
LEMMA GCollectStep ==
  ASSUME G!Parameters, GSound, G!doGC
  PROVE  IF Range(g_chunks) \intersect g_dead # {}
         THEN g_failure' = "deleted" /\ UNCHANGED <<g_live, g_owned, g_parity>>
         ELSE g_failure' = "none" /\ GSound' /\ G!Promise!GStep
<1>. SUFFICES ASSUME Range(g_chunks) \intersect g_dead = {}
              PROVE  g_failure' = "none" /\ GSound' /\ G!Promise!GStep
  BY GroupedOps DEF G!doGC
<1>1. /\ g_failure' = "none" /\ g_chunks' = g_chunks /\ g_index' = g_index
      /\ g_left' = g_left /\ g_init' = g_init /\ g_chunk_list' = g_chunk_list
      /\ g_live' = g_live /\ g_dead' = g_dead /\ g_parity' = g_parity
      /\ g_free_list' = [i \in G!Bins |-> G!FreeOf(i)]
      /\ g_owned' = g_live \union {b \in g_owned : g_init[G!ChunkOf(b.at)]}
  BY GroupedOps DEF G!doGC, G!chunkVars
<1>2. GTyped
  BY DEF GSound
<1>3. g_dead = {}
  BY <1>2 DEF GTyped
<1>4. ASSUME NEW i \in G!Bins
      PROVE  /\ g_free_list'[i] \in Seq(Nat) /\ IsInjective(g_free_list'[i])
             /\ \A a : a \in Range(g_free_list'[i]) <=>
                  /\ \E c \in Range(g_chunks) :
                       g_index[c] = i /\ ~g_init[c] /\ a \in Slots(c, i)
                  /\ \A b \in g_live : b.at # a
  <2>1. g_free_list'[i] = G!FreeOf(i)
    BY <1>1
  <2>. QED
    BY <2>1, FreeOfIs
<1>5. g_free_list' \in [G!Bins -> Seq(Nat)]
  <2>1. \A i \in G!Bins : G!FreeOf(i) \in Seq(Nat)
    BY FreeOfIs
  <2>. QED
    BY <1>1, <2>1
<1>6. GTyped'
  BY <1>1, <1>2, <1>5 DEF GTyped
<1>7. (\A d \in Range(g_chunks) : GChunkOk(d))' /\ (\A j \in G!Bins : GBinOk(j))'
  <2>1. (\A d \in Range(g_chunks) : GChunkOk(d)) /\ (\A j \in G!Bins : GBinOk(j))
    BY DEF GSound
  <2>. QED
    BY <1>1, <2>1 DEF GChunkOk, GBinOk
<1>8. ASSUME NEW j \in G!Bins PROVE GFreeOk(j)'
  BY <1>1, <1>4 DEF GFreeOk
<1>9. g_live \subseteq g_owned /\ g_owned' \subseteq g_owned
  BY <1>1 DEF GSound
<1>10. OwnedOk(g_owned, Range(g_chunks) \ g_dead, g_index, g_left)'
  <2>1. OwnedOk(g_owned, Range(g_chunks) \ g_dead, g_index, g_left)
    BY DEF GSound
  <2>. QED
    BY <1>1, <1>9, <2>1 DEF OwnedOk
<1>11. ASSUME NEW c \in Range(g_chunks), NEW a \in Slots(c, g_index[c])
       PROVE  /\ G!ChunkOf(a) = c /\ c \in G!Chunks
              /\ \A e \in Range(g_chunks) : a \in Slots(e, g_index[e]) => e = c
  <2>1. GChunkOk(c)
    BY DEF GSound
  <2>2. a \in G!Span(G!Base(c), CS) /\ c \in G!Chunks
    BY ChunkIs
  <2>3. \A e \in Range(g_chunks) : a \in Slots(e, g_index[e]) =>
          e \in G!Chunks /\ a \in G!Span(G!Base(e), CS)
    BY ChunkIs
  <2>. QED
    BY <1>2, <2>1, <2>2, <2>3, MarkFinds, GBases
<1>12. GApart'
  <2>. SUFFICES ASSUME NEW d \in g_owned', NEW j \in G!Bins, NEW x \in Range(g_free_list'[j]),
                       x = d.at
                PROVE  FALSE
    BY DEF GApart
  <2>1. PICK c \in Range(g_chunks) : g_index[c] = j /\ ~g_init[c] /\ x \in Slots(c, j)
    BY <1>4
  <2>5. \A b \in g_live : b.at # x
    BY <1>4
  <2>2. d \notin g_live
    BY <2>5
  <2>3. g_init[G!ChunkOf(d.at)]
    BY <1>1, <2>2
  <2>4. G!ChunkOf(d.at) = c
    BY <1>11, <2>1
  <2>. QED
    BY <2>1, <2>3, <2>4
<1>13. GCover'
  <2>. SUFFICES ASSUME NEW c \in Range(g_chunks), NEW x \in Slots(c, g_index[c]),
                       G!Base(c) + g_left[c] <= x
                PROVE  \/ x \in Range(g_free_list'[g_index[c]])
                       \/ [at |-> x, n |-> g_index[c]] \in g_owned'
    BY <1>1 DEF GCover
  <2>1. g_index[c] \in G!Bins
    BY ChunkIs
  <2>2. CASE g_init[c]
    <3>1. x \notin Range(g_free_list[g_index[c]])
      <4>1. ASSUME x \in Range(g_free_list[g_index[c]]) PROVE FALSE
        <5>1. PICK e \in Range(g_chunks) :
                g_index[e] = g_index[c] /\ ~g_init[e] /\ x \in Slots(e, g_index[c])
          BY <2>1, <4>1 DEF GSound, GFreeOk
        <5>2. e = c
          BY <1>11, <5>1
        <5>. QED
          BY <2>2, <5>1, <5>2
      <4>. QED
        BY <4>1
    <3>2. [at |-> x, n |-> g_index[c]] \in g_owned
      BY <1>3, <3>1 DEF GSound, GCover
    <3>3. g_init[G!ChunkOf([at |-> x, n |-> g_index[c]].at)]
      BY <1>11, <2>2
    <3>. QED
      BY <1>1, <3>2, <3>3
  <2>3. CASE ~g_init[c] /\ \A b \in g_live : b.at # x
    BY <1>4, <2>1, <2>3
  <2>4. CASE \E b \in g_live : b.at = x
    <3>1. PICK b \in g_live : b.at = x
      BY <2>4
    <3>2. OwnedOk(g_owned, Range(g_chunks) \ g_dead, g_index, g_left)
      BY DEF GSound
    <3>3. PICK e \in Range(g_chunks) : /\ b = [at |-> b.at, n |-> g_index[e]]
                                       /\ b.at \in Slots(e, g_index[e])
      BY <1>9, <3>1, <3>2 DEF OwnedOk
    <3>4. e = c
      BY <1>11, <3>1, <3>3
    <3>. QED
      BY <1>1, <3>1, <3>3, <3>4
  <2>. QED
    BY <2>2, <2>3, <2>4
<1>14. GSound'
  BY <1>1, <1>6, <1>7, <1>8, <1>9, <1>10, <1>12, <1>13 DEF GSound
<1>15. G!Promise!GReclaim
  BY <1>1, <1>9 DEF G!Promise!GReclaim, G!Promise!TakesBack
<1>. QED
  BY <1>1, <1>14, <1>15 DEF G!Promise!GStep, G!Promise!GNext

\* clear() leaves no block handed out; the free lists keep deleted blocks.
LEMMA GClearStep ==
  ASSUME G!Parameters, GSound, G!clear
  PROVE  GSound' /\ G!Promise!GStep /\ g_failure' \in {"none", "deleted"}
<1>1. /\ g_failure' \in {"none", "deleted"}
      /\ g_chunks' = g_chunks /\ g_index' = g_index /\ g_left' = g_left
      /\ g_init' = g_init /\ g_chunk_list' = g_chunk_list /\ g_parity' = g_parity
      /\ g_live' = {} /\ g_owned' = {}
      /\ g_dead' = g_dead \union Range(g_chunks)
      /\ g_free_list' = [g_free_list EXCEPT ![0] = <<>>]
  BY GroupedOps DEF G!clear, G!chunkVars
<1>2. GTyped
  BY DEF GSound
<1>3. ASSUME NEW i \in G!Bins
      PROVE  /\ g_free_list'[i] \in Seq(Nat) /\ IsInjective(g_free_list'[i])
             /\ Range(g_free_list'[i]) \subseteq Range(g_free_list[i])
  <2>1. g_free_list[i] \in Seq(Nat) /\ IsInjective(g_free_list[i])
    BY <1>2 DEF GTyped, GSound, GFreeOk
  <2>2. g_free_list'[i] = g_free_list[i] \/ g_free_list'[i] = <<>>
    BY <1>1, <1>2 DEF GTyped
  <2>3. 0 \in Nat
    OBVIOUS
  <2>. QED
    BY <2>1, <2>2, <2>3, AtMostOne
<1>4. g_free_list' \in [G!Bins -> Seq(Nat)]
  <2>1. DOMAIN g_free_list' = G!Bins /\ g_free_list' = [i \in G!Bins |-> g_free_list'[i]]
    BY <1>1, <1>2 DEF GTyped
  <2>. QED
    BY <1>3, <2>1
<1>5. GTyped'
  BY <1>1, <1>2, <1>4 DEF GTyped
<1>6. (\A d \in Range(g_chunks) : GChunkOk(d))' /\ (\A j \in G!Bins : GBinOk(j))'
  <2>1. (\A d \in Range(g_chunks) : GChunkOk(d)) /\ (\A j \in G!Bins : GBinOk(j))
    BY DEF GSound
  <2>. QED
    BY <1>1, <2>1 DEF GChunkOk, GBinOk
<1>7. ASSUME NEW j \in G!Bins PROVE GFreeOk(j)'
  <2>1. GFreeOk(j)
    BY DEF GSound
  <2>. QED
    BY <1>1, <1>3, <2>1 DEF GFreeOk
<1>8. OwnedOk(g_owned, Range(g_chunks) \ g_dead, g_index, g_left)' /\ GApart'
      /\ (g_live \subseteq g_owned)'
  BY <1>1 DEF OwnedOk, GApart
<1>9. GCover'
  <2>1. g_dead' = {} => Range(g_chunks') = {}
    BY <1>1
  <2>. QED
    BY <2>1 DEF GCover
<1>10. GSound'
  BY <1>5, <1>6, <1>7, <1>8, <1>9 DEF GSound
<1>. QED
  BY <1>1, <1>10 DEF G!Promise!GStep, G!Promise!GNext, G!Promise!GClean

\* A block forgotten stays handed out until the next collection.
LEMMA GDropStep ==
  ASSUME GSound, NEW b \in g_live, G!Drop(b)
  PROVE  GSound' /\ G!Promise!GStep /\ g_failure' = "none"
<1>1. /\ g_failure' = "none" /\ g_live' = g_live \ {b}
      /\ g_chunks' = g_chunks /\ g_index' = g_index /\ g_left' = g_left
      /\ g_init' = g_init /\ g_chunk_list' = g_chunk_list /\ g_parity' = g_parity
      /\ g_owned' = g_owned /\ g_dead' = g_dead /\ g_free_list' = g_free_list
  BY DEF G!Drop, G!chunkVars
<1>2. GTyped' /\ GApart' /\ GCover'
  BY <1>1 DEF GSound, GTyped, GApart, GCover
<1>3. /\ (\A d \in Range(g_chunks) : GChunkOk(d))'
      /\ (\A j \in G!Bins : GBinOk(j) /\ GFreeOk(j))'
  BY <1>1 DEF GSound, GChunkOk, GBinOk, GFreeOk
<1>4. OwnedOk(g_owned, Range(g_chunks) \ g_dead, g_index, g_left)' /\ (g_live \subseteq g_owned)'
  BY <1>1 DEF GSound, OwnedOk
<1>5. GSound'
  BY <1>2, <1>3, <1>4 DEF GSound
<1>6. G!Promise!GDrop
  BY <1>1 DEF G!Promise!GDrop
<1>. QED
  BY <1>1, <1>5, <1>6 DEF G!Promise!GStep, G!Promise!GNext

\* What a step does: the invariant goes on, and the application sees nothing
\* but the promise; an assertion fails only on a request past the tables.
LEMMA GStep ==
  ASSUME G!Parameters, GInv, [G!Next]_G!vars
  PROVE  /\ GInv' /\ G!Promise!GStep
         /\ g_failure # "assert" /\ Indexes \subseteq 0 .. MaxIndex => g_failure' # "assert"
<1>. DEFINE Silent == UNCHANGED <<g_live, g_owned, g_parity>>
            Asserts == g_failure # "assert" /\ Indexes \subseteq 0 .. MaxIndex
                         => g_failure' # "assert"
<1>1. Silent => G!Promise!GStep
  BY DEF G!Promise!GStep, G!Promise!gcVars
<1>2. CASE UNCHANGED G!vars
  <2>1. GInv'
    BY <1>2 DEF GInv, GSound, GTyped, GChunkOk, GBinOk, GFreeOk, OwnedOk, GApart, GCover,
                G!vars
  <2>. QED
    BY <1>1, <1>2, <2>1 DEF G!vars
<1>3. CASE g_failure # "none"
  <2>1. UNCHANGED G!vars
    BY <1>3 DEF G!Next, G!allocate, G!allocFree, G!allocChunk, G!allocateFails,
                G!allocateZero, G!allocatePast, G!allocateNew, G!doGC, G!clear,
                G!Halted, G!Drop
  <2>. QED
    BY <1>2, <2>1
<1>4. CASE g_failure = "none" /\ G!Next
  <2>. SUFFICES GInv' /\ G!Promise!GStep /\ Asserts
    OBVIOUS
  <2>1. GSound
    BY <1>4 DEF GInv
  <2>2. ASSUME g_failure' # "none" PROVE GInv'
    BY <2>2 DEF GInv
  <2>3. ASSUME NEW i \in Indexes, G!allocFree(i) PROVE GInv' /\ G!Promise!GStep /\ Asserts
    <3>1. CASE g_failure' = "none"
      BY <2>1, <2>3, <3>1, AllocFreeStep DEF GInv
    <3>2. CASE g_failure' # "none"
      <4>1. Silent /\ g_failure' = "deleted"
        BY <1>4, <2>3, <3>2 DEF G!allocFree
      <4>. QED
        BY <1>1, <2>2, <3>2, <4>1
    <3>. QED
      BY <3>1, <3>2
  <2>4. ASSUME NEW i \in Indexes, G!allocChunk(i) PROVE GInv' /\ G!Promise!GStep /\ Asserts
    <3>1. CASE g_chunk_list[i] \in g_dead
      <4>1. Silent /\ g_failure' = "deleted"
        BY <2>1, <2>4, <3>1, AllocChunkStep
      <4>. QED
        BY <1>1, <2>2, <4>1
    <3>2. CASE g_chunk_list[i] \notin g_dead
      <4>1. g_failure' = "none" /\ GSound' /\ G!Promise!GStep
        BY <2>1, <2>4, <3>2, AllocChunkStep
      <4>. QED
        BY <4>1 DEF GInv
    <3>. QED
      BY <3>1, <3>2
  <2>5. ASSUME NEW i \in Indexes, NEW c \in G!Chunks, G!allocateNew(i, c)
        PROVE  GInv' /\ G!Promise!GStep /\ Asserts
    <3>1. g_failure' = "none" /\ GSound' /\ G!Promise!GStep
      BY <2>1, <2>5, AllocateNewStep
    <3>. QED
      BY <3>1 DEF GInv
  <2>6. ASSUME NEW i \in Indexes, G!allocateFails(i) PROVE GInv' /\ G!Promise!GStep /\ Asserts
    <3>1. Silent /\ g_failure' = g_failure
      BY <2>6 DEF G!allocateFails
    <3>2. GSound'
      BY <2>1, <2>6 DEF G!allocateFails, G!chunkVars, GSound, GTyped, GChunkOk, GBinOk,
                        GFreeOk, OwnedOk, GApart, GCover
    <3>. QED
      BY <1>1, <1>4, <3>1, <3>2 DEF GInv
  <2>7. ASSUME NEW i \in Indexes, G!allocateZero(i) PROVE GInv' /\ G!Promise!GStep /\ Asserts
    <3>1. Silent /\ g_failure' = "divide"
      BY <2>7 DEF G!allocateZero
    <3>. QED
      BY <1>1, <2>2, <3>1
  <2>8. ASSUME NEW i \in Indexes, G!allocatePast(i) PROVE GInv' /\ G!Promise!GStep /\ Asserts
    <3>1. Silent /\ g_failure' = IF i <= MaxIndex THEN "bounds" ELSE "assert"
      BY <2>8 DEF G!allocatePast
    <3>2. Indexes \subseteq 0 .. MaxIndex => i <= MaxIndex
      BY DEF G!Parameters
    <3>3. GInv'
      BY <2>2, <3>1
    <3>4. Asserts
      BY <3>1, <3>2
    <3>. QED
      BY <1>1, <3>1, <3>3, <3>4
  <2>9. ASSUME G!doGC PROVE GInv' /\ G!Promise!GStep /\ Asserts
    <3>1. CASE Range(g_chunks) \intersect g_dead # {}
      <4>1. Silent /\ g_failure' = "deleted"
        BY <2>1, <2>9, <3>1, GCollectStep
      <4>. QED
        BY <1>1, <2>2, <4>1
    <3>2. CASE Range(g_chunks) \intersect g_dead = {}
      <4>1. g_failure' = "none" /\ GSound' /\ G!Promise!GStep
        BY <2>1, <2>9, <3>2, GCollectStep
      <4>. QED
        BY <4>1 DEF GInv
    <3>. QED
      BY <3>1, <3>2
  <2>10. ASSUME G!clear PROVE GInv' /\ G!Promise!GStep /\ Asserts
    <3>1. GSound' /\ G!Promise!GStep /\ g_failure' \in {"none", "deleted"}
      BY <2>1, <2>10, GClearStep
    <3>. QED
      BY <3>1 DEF GInv
  <2>11. ASSUME NEW b \in g_live, G!Drop(b) PROVE GInv' /\ G!Promise!GStep /\ Asserts
    <3>1. GSound' /\ G!Promise!GStep /\ g_failure' = "none"
      BY <2>1, <2>11, GDropStep
    <3>. QED
      BY <3>1 DEF GInv
  <2>12. ~G!Halted
    BY <1>4 DEF G!Halted
  <2>. HIDE DEF Asserts
  <2>. QED
    BY <1>4, <2>3, <2>4, <2>5, <2>6, <2>7, <2>8, <2>9, <2>10, <2>11, <2>12
    DEF G!Next, G!allocate
<1>. QED
  BY <1>2, <1>3, <1>4

\* The invariant holds of the empty allocator ...
LEMMA GFirst == ASSUME G!Parameters, G!GroupedGCInit PROVE GInv /\ g_failure # "assert"
<1>1. /\ g_chunks = <<>> /\ g_dead = {} /\ g_live = {} /\ g_owned = {} /\ g_failure = "none"
      /\ g_free_list = [i \in G!Bins |-> <<>>]
      /\ g_chunk_list = [i \in G!Bins |-> G!NoChunk]
      /\ g_index = [c \in G!Chunks |-> 0] /\ g_left = [c \in G!Chunks |-> 0]
      /\ g_init = [c \in G!Chunks |-> FALSE]
  BY DEF G!GroupedGCInit
<1>2. /\ Range(<<>>) = {} /\ IsInjective(<<>>)
  BY AtMostOne, 0 \in Nat
<1>3. GTyped
  BY <1>1, <1>2 DEF GTyped
<1>4. \A i \in G!Bins : GBinOk(i) /\ GFreeOk(i)
  BY <1>1, <1>2 DEF GBinOk, GFreeOk
<1>5. OwnedOk(g_owned, Range(g_chunks) \ g_dead, g_index, g_left) /\ GApart /\ GCover
  BY <1>1, <1>2 DEF OwnedOk, GApart, GCover
<1>. QED
  BY <1>1, <1>2, <1>3, <1>4, <1>5 DEF GInv, GSound

\* A block, free or handed out, is a block of a chunk, past what the chunk has
\* not served yet.
LEMMA BlockOfChunk ==
  ASSUME G!Parameters, GSound, g_dead = {}, NEW b \in G!FreeBlocks \union g_owned
  PROVE  \E c \in Range(g_chunks) :
           /\ b = [at |-> b.at, n |-> g_index[c]]
           /\ b.at \in Slots(c, g_index[c]) /\ G!Base(c) + g_left[c] <= b.at
<1>1. CASE b \in g_owned
  BY <1>1 DEF GSound, OwnedOk
<1>2. CASE b \in G!FreeBlocks
  <2>1. PICK i \in G!Bins : \E a \in Range(g_free_list[i]) : b = [at |-> a, n |-> i]
    BY <1>2, GroupedOps DEF G!FreeBlocks
  <2>7. PICK a \in Range(g_free_list[i]) : b = [at |-> a, n |-> i]
    BY <2>1
  <2>2. PICK c \in Range(g_chunks) : g_index[c] = i /\ ~g_init[c] /\ a \in Slots(c, i)
    BY DEF GSound, GFreeOk
  <2>3. GTyped /\ GChunkOk(c)
    BY DEF GSound
  <2>4. c \in G!Chunks /\ g_left[c] = 0 /\ G!Base(c) \in Nat /\ i \in Nat /\ 0 < i /\ i <= CS
        /\ CS \in Nat
    BY <2>2, <2>3, MarkFinds, GBases DEF GChunkOk, GTyped, G!Parameters
  <2>5. a \in G!Span(G!Base(c), CS) /\ a \in Nat
    BY <2>2, <2>4, SlotsCut
  <2>6. G!Base(c) + g_left[c] <= a
    BY <2>4, <2>5 DEF G!Span
  <2>. QED
    BY <2>2, <2>6, <2>7
<1>. QED
  BY <1>1, <1>2

\* A chunk is cut in its blocks and in what it has not served yet.
LEMMA ChunkIsCut ==
  ASSUME G!Parameters, GSound, g_dead = {}, NEW c \in Range(g_chunks)
  PROVE  /\ \A b \in G!Mine(c) :
              b.n = g_index[c] /\ G!BlockCells(b) \intersect G!Virgin(c) = {}
         /\ \A b, d \in G!Mine(c) :
              b # d => G!BlockCells(b) \intersect G!BlockCells(d) = {}
         /\ (UNION {G!BlockCells(b) : b \in G!Mine(c)}) \union G!Virgin(c)
              = G!Span(G!Base(c), G!Usable(g_index[c]))
<1>. DEFINE i == g_index[c]
            B == G!Base(c)
            L == g_left[c]
            M == CS \div i
<1>1. GTyped /\ GChunkOk(c)
  BY DEF GSound
<1>2. /\ c \in G!Chunks /\ i \in Nat /\ 0 < i /\ i <= CS /\ CS \in Nat
      /\ i \in G!Bins /\ B \in Nat /\ L \in Nat
  <2>1. c \in G!Chunks
    BY <1>1, MarkFinds
  <2>2. B \in Nat
    BY <2>1, GBases
  <2>3. i \in Indexes /\ i \in G!Bins /\ 0 < i
    BY <1>1 DEF GChunkOk
  <2>4. i \in Nat /\ L \in Nat
    BY <1>1, <2>1 DEF GTyped
  <2>5. i <= CS /\ CS \in Nat
    <3>1. CS \in Nat /\ Indexes \subseteq 0 .. CS
      BY DEF G!Parameters
    <3>. QED
      BY <2>3, <2>4, <3>1
  <2>. QED
    BY <2>1, <2>2, <2>3, <2>4, <2>5
<1>3. M \in Nat /\ G!Usable(i) = M * i /\ G!Usable(i) <= CS /\ G!Usable(i) \in Nat
  BY <1>2, UsableIs
<1>4. PICK m \in 0 .. M : L = m * i
  BY <1>1 DEF GChunkOk
<1>5. m \in Nat /\ L <= G!Usable(i)
  BY <1>2, <1>3, <1>4, MulMono
<1>6. ASSUME NEW b \in G!Mine(c)
      PROVE  /\ b = [at |-> b.at, n |-> i] /\ b.at \in Slots(c, i) /\ B + L <= b.at
             /\ b.at \in Nat /\ G!BlockCells(b) = G!Span(b.at, i) /\ b.n = i
  <2>1. b \in G!FreeBlocks \union g_owned /\ b.at \in G!Span(B, CS)
    BY DEF G!Mine
  <2>2. PICK d \in Range(g_chunks) :
           /\ b = [at |-> b.at, n |-> g_index[d]]
           /\ b.at \in Slots(d, g_index[d]) /\ G!Base(d) + g_left[d] <= b.at
    BY <2>1, BlockOfChunk
  <2>3. GChunkOk(d)
    BY DEF GSound
  <2>4. d \in G!Chunks /\ g_index[d] \in Nat /\ 0 < g_index[d] /\ g_index[d] <= CS
    BY <1>1, <2>3, MarkFinds DEF GChunkOk, GTyped, G!Parameters
  <2>5. b.at \in G!Span(G!Base(d), CS) /\ b.at \in Nat
    BY <2>2, <2>4, SlotsCut
  <2>6. d = c
    BY <1>2, <2>1, <2>4, <2>5, GBases
  <2>. QED
    BY <2>2, <2>5, <2>6 DEF G!BlockCells
<1>7. ASSUME NEW a \in Slots(c, i)
      PROVE  /\ a \in Nat /\ a \in G!Span(B, CS)
             /\ G!Span(a, i) \subseteq G!Span(B, G!Usable(i))
             /\ \A x \in Slots(c, i) : a # x => G!Span(a, i) \intersect G!Span(x, i) = {}
  BY <1>2, SlotsCut
<1>8. G!Virgin(c) \subseteq G!Span(B, L)
  BY DEF G!Virgin
<1>9. ASSUME NEW b \in G!Mine(c) PROVE G!BlockCells(b) \intersect G!Virgin(c) = {}
  <2>1. G!Span(b.at, i) \intersect G!Span(B, L) = {}
    BY <1>2, <1>6 DEF G!Span
  <2>. QED
    BY <1>6, <1>8, <2>1
<1>10. ASSUME NEW b \in G!Mine(c), NEW d \in G!Mine(c), b # d
       PROVE  G!BlockCells(b) \intersect G!BlockCells(d) = {}
  <2>1. b.at # d.at
    BY <1>6, <1>10
  <2>. QED
    BY <1>6, <1>7, <2>1
<1>11. ASSUME NEW x \in G!Span(B, G!Usable(i))
       PROVE  x \in G!Virgin(c) \/ \E b \in G!Mine(c) : x \in G!BlockCells(b)
  <2>1. PICK a \in Slots(c, i) : x \in G!Span(a, i)
    BY <1>2, SlotsCut
  <2>2. a \in Nat /\ a \in G!Span(B, CS)
    BY <1>7
  <2>3. CASE B + L <= a
    <3>. DEFINE b == [at |-> a, n |-> i]
    <3>1. a \in Range(g_free_list[i]) \/ b \in g_owned
      BY <2>3 DEF GSound, GCover
    <3>2. b \in G!FreeBlocks \union g_owned
      <4>1. CASE a \in Range(g_free_list[i])
        <5>1. b \in {[at |-> y, n |-> i] : y \in G!Range(g_free_list[i])}
          BY <4>1, GroupedOps
        <5>. QED
          BY <1>2, <5>1 DEF G!FreeBlocks
      <4>2. CASE b \in g_owned
        BY <4>2
      <4>. QED
        BY <3>1, <4>1, <4>2
    <3>3. b \in G!Mine(c) /\ x \in G!BlockCells(b)
      BY <2>1, <2>2, <3>2 DEF G!Mine, G!BlockCells
    <3>. QED
      BY <3>3
  <2>4. CASE ~(B + L <= a)
    <3>1. PICK k \in 0 .. M - 1 : a = B + k * i
      BY DEF Slots
    <3>2. k \in Nat /\ k * i \in Nat /\ k * i < L
      BY <1>2, <1>3, <2>4, <3>1, MulNext
    <3>3. k < m
      <4>1. m <= k => m * i <= k * i
        BY <1>2, <1>5, <3>2, MulMono
      <4>. QED
        BY <1>2, <1>4, <1>5, <3>2, <4>1
    <3>4. k * i + i <= L
      BY <1>2, <1>4, <1>5, <3>2, <3>3, MulApart
    <3>5. x \in G!Span(B, L)
      BY <1>2, <2>1, <3>1, <3>2, <3>4 DEF G!Span
    <3>6. g_init[c]
      BY <1>1, <1>2, <3>2 DEF GChunkOk
    <3>. QED
      BY <3>5, <3>6 DEF G!Virgin
  <2>. QED
    BY <2>3, <2>4
<1>12. G!Virgin(c) \subseteq G!Span(B, G!Usable(i))
  <2>1. G!Span(B, L) \subseteq G!Span(B, G!Usable(i))
    BY <1>2, <1>3, <1>5 DEF G!Span
  <2>. QED
    BY <1>8, <2>1
<1>13. \A b \in G!Mine(c) : G!BlockCells(b) \subseteq G!Span(B, G!Usable(i))
  BY <1>6, <1>7
<1>. HIDE DEF B, i
<1>14. (UNION {G!BlockCells(b) : b \in G!Mine(c)}) \union G!Virgin(c) = G!Span(B, G!Usable(i))
  <2>. DEFINE Cells == {G!BlockCells(b) : b \in G!Mine(c)}
              W == G!Span(B, G!Usable(i))
  <2>1. \A x \in W : x \in G!Virgin(c) \/ \E C \in Cells : x \in C
    BY <1>11
  <2>2. \A C \in Cells : C \subseteq W
    BY <1>13
  <2>3. G!Virgin(c) \subseteq W
    BY <1>12
  <2>. HIDE DEF Cells, W
  <2>4. (UNION Cells) \union G!Virgin(c) = W
    BY <2>1, <2>2, <2>3
  <2>. QED
    BY <2>4 DEF Cells, W
<1>. QED
  BY <1>6, <1>9, <1>10, <1>14 DEF B, i

\* ... and makes the memory exact.
LEMMA GExact == ASSUME G!Parameters, GInv PROVE G!BinsExact
<1>. SUFFICES ASSUME g_failure = "none", g_dead = {}
              PROVE  /\ \A i \in G!Bins : G!IsInjective(g_free_list[i])
                     /\ G!FreeBlocks \intersect g_owned = {}
                     /\ \A c \in Range(g_chunks) :
                          /\ \A b \in G!Mine(c) :
                               b.n = g_index[c] /\ G!BlockCells(b) \intersect G!Virgin(c) = {}
                          /\ \A b, d \in G!Mine(c) :
                               b # d => G!BlockCells(b) \intersect G!BlockCells(d) = {}
                          /\ (UNION {G!BlockCells(b) : b \in G!Mine(c)}) \union G!Virgin(c)
                               = G!Span(G!Base(c), G!Usable(g_index[c]))
  BY GroupedOps DEF G!BinsExact
<1>1. GSound
  BY DEF GInv
<1>2. \A i \in G!Bins : G!IsInjective(g_free_list[i])
  BY <1>1, GroupedOps DEF GSound, GFreeOk
<1>3. G!FreeBlocks \intersect g_owned = {}
  BY <1>1, GroupedOps DEF GSound, GApart, G!FreeBlocks
<1>. QED
  BY <1>1, <1>2, <1>3, ChunkIsCut

\* GroupedGC keeps the promise of the cooperative collectors for every size of
\* chunk, number of bins and requests: a block given overlaps none in use, and
\* endGC() takes back only blocks the application has forgotten; it is so even
\* for the chunks in their first use, which are not swept, and after clear().
THEOREM GroupedGCKeepsPromise ==
  ASSUME G!Parameters
  PROVE  G!Spec => G!Promise!GSpec
<1>1. G!GroupedGCInit => GInv /\ G!Promise!GInit
  BY GFirst DEF G!GroupedGCInit, G!Promise!GInit
<1>2. GInv /\ [G!Next]_G!vars => GInv' /\ G!Promise!GStep
  BY GStep
<1>. QED
  BY <1>1, <1>2, PTL DEF G!Spec, G!Promise!GSpec, G!Promise!GStep, G!Promise!gcVars

\* Before any clear(), a chunk is exactly cut in free blocks, blocks handed out
\* and what it never served: no granule is lost and no block is twice in a free
\* list, or there and handed out, whatever the collections.
THEOREM GroupedGCMemoryExact ==
  ASSUME G!Parameters
  PROVE  G!Spec => []G!BinsExact
<1>1. G!GroupedGCInit => GInv
  BY GFirst
<1>2. GInv /\ [G!Next]_G!vars => GInv'
  BY GStep
<1>3. GInv => G!BinsExact
  BY GExact
<1>. QED
  BY <1>1, <1>2, <1>3, PTL DEF G!Spec

\* The assertions of newChunk() and allocFromFreeList() hold when every request
\* has a bin of the tables, or the one just past them, which allocate() lets by.
THEOREM GroupedGCAssertions ==
  ASSUME G!Parameters, Indexes \subseteq 0 .. MaxIndex
  PROVE  G!Spec => []G!AssertionsHold
<1>1. G!GroupedGCInit => GInv /\ G!AssertionsHold
  BY GFirst DEF G!AssertionsHold
<1>2. GInv /\ G!AssertionsHold /\ [G!Next]_G!vars => GInv' /\ G!AssertionsHold'
  BY GStep DEF G!AssertionsHold
<1>. QED
  BY <1>1, <1>2, PTL DEF G!Spec

-----------------------------------------------------------------------------
(* SimpleGC.                                                                *)

CONSTANTS Granule, Size, Requests, SChunks

VARIABLES s_chunks, s_free, s_bits, s_roots, s_temps, s_phase, s_want, s_dead,
          s_failure, s_owned, s_parity

S == INSTANCE SimpleGC
  WITH MaxChunks <- SChunks,
       chunks <- s_chunks, free <- s_free, bits <- s_bits, roots <- s_roots,
       temps <- s_temps, phase <- s_phase, want <- s_want, dead <- s_dead,
       failure <- s_failure, owned <- s_owned, parity <- s_parity

\* The instance uses the operators of the library.
LEMMA SimpleOps ==
  ASSUME NEW s
  PROVE  /\ S!FlattenSeq(s) = FlattenSeq(s) /\ S!Reverse(s) = Reverse(s)
         /\ S!Range(s) = Range(s)
         /\ \A k : S!RemoveAt(s, k) = RemoveAt(s, k)
<1>1. S!FlattenSeq(s) = FlattenSeq(s)
  BY DEF S!FlattenSeq, FlattenSeq
<1>2. S!Reverse(s) = Reverse(s)
  BY DEF S!Reverse, Reverse
<1>3. S!Range(s) = Range(s)
  BY DEF S!Range, Range
<1>4. \A k : S!RemoveAt(s, k) = RemoveAt(s, k)
  BY DEF S!RemoveAt, RemoveAt
<1>. QED
  BY <1>1, <1>2, <1>3, <1>4

\* round() of a request: at least a granule, and no more than a chunk has.
LEMMA RoundIs ==
  ASSUME S!Parameters
  PROVE  /\ S!CS \in Nat
         /\ \A s \in Requests : s # 0 => /\ S!round(s) \in Nat /\ 1 <= S!round(s)
                                         /\ S!round(s) <= S!CS /\ s \in Nat
<1>. DEFINE quot(x) == (x + Granule - 1) \div Granule
<1>1. Granule \in Nat \ {0} /\ Size \in Nat
  BY DEF S!Parameters
<1>2. ASSUME NEW x \in Nat
      PROVE  /\ quot(x) \in Nat /\ quot(x) * Granule \in Nat
             /\ quot(x) * Granule <= x + Granule - 1
             /\ x + Granule - 1 < quot(x) * Granule + Granule
  <2>1. x + Granule - 1 \in Nat
    BY <1>1
  <2>2. quot(x) \in Nat /\ quot(x) * Granule <= x + Granule - 1
        /\ x + Granule - 1 < quot(x) * Granule + Granule
    BY <1>1, <2>1, DivDef
  <2>. HIDE DEF quot
  <2>3. quot(x) * Granule \in Nat
    BY <1>1, <2>2, MulNext
  <2>. QED
    BY <2>2, <2>3
<1>3. S!CS = quot(Size) /\ \A s : S!round(s) = quot(s)
  BY DEF S!CS, S!round
<1>. HIDE DEF quot
<1>4. ASSUME NEW s \in Requests, s # 0
      PROVE  /\ s \in Nat /\ quot(s) \in Nat /\ 1 <= quot(s) /\ quot(s) <= quot(Size)
  <2>1. s \in Nat /\ s < Size
    BY DEF S!Parameters
  <2>2. quot(s) # 0
    <3>1. quot(s) = 0 => quot(s) * Granule = 0
      BY <1>1
    <3>. QED
      BY <1>1, <1>2, <1>4, <2>1, <3>1
  <2>3. ~(quot(Size) < quot(s))
    <3>1. quot(Size) < quot(s) => quot(Size) * Granule + Granule <= quot(s) * Granule
      BY <1>1, <1>2, <2>1, MulApart
    <3>. QED
      BY <1>1, <1>2, <2>1, <3>1
  <2>. QED
    BY <1>1, <1>2, <2>1, <2>2, <2>3
<1>. QED
  BY <1>1, <1>2, <1>3, <1>4

\* The chunks lie apart.
LEMMA SBases ==
  ASSUME S!Parameters, NEW c \in S!Chunks
  PROVE  /\ S!Base(c) \in Nat /\ c \in Nat
         /\ \A d \in S!Chunks : c # d => S!Extent(c) \intersect S!Extent(d) = {}
<1>1. S!CS \in Nat /\ S!CS + 1 \in Nat /\ c \in Nat
  BY RoundIs DEF S!Parameters, S!Chunks
<1>. DEFINE W == S!CS + 1
<1>. HIDE DEF W
<1>2. S!Base(c) = c * W /\ \A d : S!Base(d) = d * W
  BY DEF S!Base, W
<1>3. S!Base(c) \in Nat
  BY <1>1, <1>2, MulNext DEF W
<1>4. ASSUME NEW d \in S!Chunks, c # d
      PROVE  S!Extent(c) \intersect S!Extent(d) = {}
  <2>1. d \in Nat /\ W \in Nat
    BY <1>1 DEF S!Chunks, S!Parameters, W
  <2>2. S!Base(d) \in Nat
    BY <1>2, <2>1, MulNext
  <2>3. S!Base(c) + W <= S!Base(d) \/ S!Base(d) + W <= S!Base(c)
    <3>1. CASE c < d
      BY <1>1, <1>2, <2>1, <3>1, MulApart
    <3>2. CASE d < c
      BY <1>1, <1>2, <2>1, <3>2, MulApart
    <3>. QED
      BY <1>1, <1>4, <2>1, <3>1, <3>2
  <2>. QED
    BY <1>1, <1>3, <2>2, <2>3 DEF S!Extent, S!Span, W
<1>. QED
  BY <1>1, <1>3, <1>4

-----------------------------------------------------------------------------
\* The memory of some chunks C is cut in free runs F and blocks handed out O.
Runs == [at : Nat, n : Nat]

Disjoint(A, B) == A \intersect B = {}

FreeGood(F, C) ==
  /\ F \subseteq Runs
  /\ \A r \in F : 1 <= r.n /\ \E c \in C : S!Span(r.at, r.n) \subseteq S!Extent(c)
  /\ \A r, t \in F : r # t => Disjoint(S!Span(r.at, r.n), S!Span(t.at, t.n))

OwnedGood(O, C) ==
  /\ \A b \in O : /\ b = [at |-> b.at, size |-> b.size]
                  /\ b.at \in Nat /\ b.size \in Requests
                  /\ \E c \in C : S!BlockCells(b) \subseteq S!Extent(c)
  /\ \A b, d \in O : b # d => Disjoint(S!BlockCells(b), S!BlockCells(d))

NothingShared(F, O) ==
  \A r \in F, b \in O : Disjoint(S!Span(r.at, r.n), S!BlockCells(b))

NothingLost(F, O, C) ==
  \A c \in C : \A x \in S!Extent(c) :
    (\E r \in F : x \in S!Span(r.at, r.n)) \/ (\E b \in O : x \in S!BlockCells(b))

SGood(F, O, C) ==
  FreeGood(F, C) /\ OwnedGood(O, C) /\ NothingShared(F, O) /\ NothingLost(F, O, C)

\* n granules taken from the end of a run.
Without(F, r, n) ==
  (F \ {r}) \union (IF r.n = n THEN {} ELSE {[at |-> r.at, n |-> r.n - n]})

\* The block allocFromFreeList() serves from a run overlaps no other.
EndOf(r, s) == [at |-> r.at + r.n - S!round(s), size |-> s]

LEMMA GoodServe ==
  ASSUME S!Parameters, 0 \notin Requests, NEW F, NEW O, NEW C \in SUBSET S!Chunks,
         SGood(F, O, C), NEW s \in Requests, NEW r \in F, S!round(s) <= r.n
  PROVE  /\ SGood(Without(F, r, S!round(s)), O \union {EndOf(r, s)}, C)
         /\ EndOf(r, s) \in S!Block /\ EndOf(r, s) \notin O
         /\ \A d \in O : Disjoint(S!BlockCells(EndOf(r, s)), S!BlockCells(d))
<1>0. PICK b : b = EndOf(r, s)
  OBVIOUS
<1>. DEFINE n == S!round(s)
            cut == [at |-> r.at, n |-> r.n - n]
            G1 == Without(F, r, n)
            cells(t) == S!Span(t.at, t.n)
<1>1. n \in Nat /\ 1 <= n /\ n <= S!CS /\ S!CS \in Nat
  BY RoundIs
<1>2. r \in Runs /\ r = [at |-> r.at, n |-> r.n] /\ r.at \in Nat /\ r.n \in Nat /\ n <= r.n
  BY DEF SGood, FreeGood, Runs
<1>. HIDE DEF n
<1>3. b.at = r.at + r.n - n /\ b.size = s /\ b = [at |-> b.at, size |-> b.size]
  BY <1>0 DEF n, EndOf
<1>4. S!BlockCells(b) = S!Span(r.at + r.n - n, n)
  BY <1>3 DEF S!BlockCells, n
<1>5. b.at \in Nat /\ S!BlockCells(b) \subseteq cells(r) /\ b.at \in S!BlockCells(b)
  BY <1>1, <1>2, <1>3, <1>4 DEF S!Span
<1>6. PICK c \in C : cells(r) \subseteq S!Extent(c)
  BY DEF SGood, FreeGood
<1>7. r.n # n => /\ cut \in Runs /\ 1 <= cut.n /\ cells(cut) \subseteq cells(r)
                 /\ Disjoint(cells(cut), S!BlockCells(b))
                 /\ cells(r) = cells(cut) \union S!BlockCells(b)
  <2>. SUFFICES ASSUME r.n # n PROVE
                 /\ cut \in Runs /\ 1 <= cut.n /\ cells(cut) \subseteq cells(r)
                 /\ Disjoint(cells(cut), S!BlockCells(b))
                 /\ cells(r) = cells(cut) \union S!BlockCells(b)
    OBVIOUS
  <2>1. cut.at = r.at /\ cut.n = r.n - n /\ cut.n \in Nat /\ 1 <= cut.n
    BY <1>1, <1>2
  <2>2. cut \in Runs
    BY <1>2, <2>1 DEF Runs
  <2>3. /\ cells(cut) = r.at .. r.at + (r.n - n) - 1 /\ cells(r) = r.at .. r.at + r.n - 1
        /\ S!BlockCells(b) = r.at + r.n - n .. r.at + r.n - n + n - 1
    BY <1>4, <2>1 DEF S!Span
  <2>4. \A x : /\ x \in cells(cut) => x \in cells(r) /\ x \notin S!BlockCells(b)
               /\ x \in S!BlockCells(b) => x \in cells(r)
               /\ x \in cells(r) => x \in cells(cut) \/ x \in S!BlockCells(b)
    BY <1>1, <1>2, <2>3
  <2>. HIDE DEF cells
  <2>. QED
    BY <2>1, <2>2, <2>4 DEF Disjoint
<1>8. r.n = n => S!BlockCells(b) = cells(r)
  BY <1>1, <1>2, <1>4
<1>9. \A t : t \in G1 <=> (t \in F /\ t # r) \/ (r.n # n /\ t = cut)
  BY DEF Without
<1>. HIDE DEF G1, cut
<1>10. /\ F \subseteq Runs
       /\ \A t \in F : 1 <= t.n /\ \E d \in C : cells(t) \subseteq S!Extent(d)
       /\ \A t, u \in F : t # u => Disjoint(cells(t), cells(u))
  BY DEF SGood, FreeGood
<1>11. \A d \in O : Disjoint(cells(r), S!BlockCells(d))
  BY DEF SGood, NothingShared
<1>. HIDE DEF cells
<1>12. \A t \in G1 : t \in F \/ (r.n # n /\ t = cut)
  BY <1>9
<1>13. FreeGood(G1, C)
  <2>1. G1 \subseteq Runs
    BY <1>7, <1>10, <1>12
  <2>2. \A t \in G1 : 1 <= t.n /\ \E d \in C : cells(t) \subseteq S!Extent(d)
    BY <1>6, <1>7, <1>10, <1>12
  <2>3. ASSUME NEW t \in G1, NEW u \in G1, t # u PROVE Disjoint(cells(t), cells(u))
    <3>1. CASE t # cut /\ u # cut
      BY <1>9, <1>10, <2>3, <3>1
    <3>2. CASE t = cut /\ r.n # n
      <4>1. u \in F /\ u # r
        BY <1>9, <2>3, <3>2
      <4>. QED
        BY <1>7, <1>10, <3>2, <4>1 DEF Disjoint
    <3>3. CASE u = cut /\ r.n # n
      <4>1. t \in F /\ t # r
        BY <1>9, <2>3, <3>3
      <4>. QED
        BY <1>7, <1>10, <3>3, <4>1 DEF Disjoint
    <3>4. CASE r.n = n
      BY <1>9, <1>10, <2>3, <3>4
    <3>. QED
      BY <3>1, <3>2, <3>3, <3>4
  <2>. QED
    BY <2>1, <2>2, <2>3 DEF FreeGood, cells
<1>14. \A d \in O : Disjoint(S!BlockCells(b), S!BlockCells(d))
  BY <1>5, <1>11 DEF Disjoint
<1>15. b \notin O
  BY <1>5, <1>14 DEF Disjoint
<1>16. OwnedGood(O \union {b}, C)
  <2>1. /\ \A d \in O : /\ d = [at |-> d.at, size |-> d.size]
                        /\ d.at \in Nat /\ d.size \in Requests
                        /\ \E e \in C : S!BlockCells(d) \subseteq S!Extent(e)
        /\ \A d, e \in O : d # e => Disjoint(S!BlockCells(d), S!BlockCells(e))
    BY DEF SGood, OwnedGood
  <2>2. S!BlockCells(b) \subseteq S!Extent(c)
    BY <1>5, <1>6
  <2>3. \A d, e \in O \union {b} : d # e => Disjoint(S!BlockCells(d), S!BlockCells(e))
    BY <1>14, <2>1 DEF Disjoint
  <2>. QED
    BY <1>3, <1>5, <1>6, <2>1, <2>2, <2>3 DEF OwnedGood
<1>17. NothingShared(G1, O \union {b})
  <2>1. \A t \in F, d \in O : Disjoint(cells(t), S!BlockCells(d))
    BY DEF SGood, NothingShared, cells
  <2>2. ASSUME NEW t \in G1, NEW d \in O \union {b} PROVE Disjoint(cells(t), S!BlockCells(d))
    <3>1. CASE t # cut \/ r.n = n
      <4>1. t \in F /\ t # r
        BY <1>9, <3>1
      <4>2. Disjoint(cells(t), cells(r))
        BY <1>10, <4>1
      <4>. QED
        BY <1>5, <2>1, <4>1, <4>2 DEF Disjoint
    <3>2. CASE t = cut /\ r.n # n
      BY <1>7, <1>11, <3>2 DEF Disjoint
    <3>. QED
      BY <3>1, <3>2
  <2>. QED
    BY <2>2 DEF NothingShared, cells
<1>18. NothingLost(G1, O \union {b}, C)
  <2>. SUFFICES ASSUME NEW d \in C, NEW x \in S!Extent(d)
                PROVE  (\E t \in G1 : x \in cells(t))
                       \/ (\E e \in O \union {b} : x \in S!BlockCells(e))
    BY DEF NothingLost, cells
  <2>1. (\E t \in F : x \in cells(t)) \/ (\E e \in O : x \in S!BlockCells(e))
    BY DEF SGood, NothingLost, cells
  <2>2. \A t \in F : t # r => t \in G1
    BY <1>9
  <2>3. x \in cells(r) => x \in S!BlockCells(b) \/ (cut \in G1 /\ x \in cells(cut))
    BY <1>7, <1>8, <1>9
  <2>. QED
    BY <2>1, <2>2, <2>3
<1>19. b \in S!Block
  <2>1. c \in S!Chunks /\ S!Base(c) \in Nat
    BY SBases
  <2>2. b.at \in S!Extent(c)
    BY <1>5, <1>6
  <2>3. b.at \in S!Base(c) .. S!Base(c) + S!CS
    BY <1>1, <2>1, <2>2 DEF S!Extent, S!Span
  <2>4. b.at \in UNION {S!Base(d) .. S!Base(d) + S!CS : d \in S!Chunks}
    BY <2>1, <2>3
  <2>. QED
    BY <1>3, <2>4 DEF S!Block
<1>20. SGood(G1, O \union {b}, C)
  BY <1>13, <1>16, <1>17, <1>18 DEF SGood
<1>. QED
  BY <1>0, <1>14, <1>15, <1>19, <1>20 DEF G1, n

\* A chunk the heap gives is free.
LEMMA GoodChunk ==
  ASSUME S!Parameters, 1 <= S!CS, NEW F, NEW O, NEW C \in SUBSET S!Chunks,
         SGood(F, O, C), NEW c \in S!Chunks \ C,
         NEW r, r = [at |-> S!Base(c), n |-> S!CS]
  PROVE  SGood(F \union {r}, O, C \union {c}) /\ r \notin F
<1>. DEFINE cells(t) == S!Span(t.at, t.n)
<1>1. S!Base(c) \in Nat /\ S!CS \in Nat
  BY RoundIs, SBases
<1>2. r \in Runs /\ r.n = S!CS /\ cells(r) = S!Extent(c) /\ S!Base(c) \in S!Extent(c)
  BY <1>1 DEF S!Extent, S!Span, Runs
<1>3. \A d \in C : Disjoint(S!Extent(c), S!Extent(d))
  BY SBases DEF Disjoint
<1>. HIDE DEF cells
<1>4. /\ F \subseteq Runs
      /\ \A t \in F : 1 <= t.n /\ \E d \in C : cells(t) \subseteq S!Extent(d)
      /\ \A t, u \in F : t # u => Disjoint(cells(t), cells(u))
  BY DEF SGood, FreeGood, cells
<1>5. \A t \in F : Disjoint(cells(r), cells(t))
  BY <1>2, <1>3, <1>4 DEF Disjoint
<1>6. r \notin F
  BY <1>2, <1>5 DEF Disjoint
<1>7. FreeGood(F \union {r}, C \union {c})
  <2>1. \A t, u \in F \union {r} : t # u => Disjoint(cells(t), cells(u))
    BY <1>4, <1>5 DEF Disjoint
  <2>2. \A t \in F \union {r} : 1 <= t.n /\ \E d \in C \union {c} : cells(t) \subseteq S!Extent(d)
    BY <1>2, <1>4
  <2>. QED
    BY <1>2, <1>4, <2>1, <2>2 DEF FreeGood, cells
<1>8. OwnedGood(O, C \union {c})
  BY DEF SGood, OwnedGood
<1>9. NothingShared(F \union {r}, O)
  <2>1. \A t \in F, b \in O : Disjoint(cells(t), S!BlockCells(b))
    BY DEF SGood, NothingShared, cells
  <2>2. \A b \in O : \E d \in C : S!BlockCells(b) \subseteq S!Extent(d)
    BY DEF SGood, OwnedGood
  <2>3. \A b \in O : Disjoint(cells(r), S!BlockCells(b))
    BY <1>2, <1>3, <2>2 DEF Disjoint
  <2>. QED
    BY <2>1, <2>3 DEF NothingShared, cells
<1>10. NothingLost(F \union {r}, O, C \union {c})
  <2>1. \A d \in C : \A x \in S!Extent(d) :
          (\E t \in F : x \in cells(t)) \/ (\E b \in O : x \in S!BlockCells(b))
    BY DEF SGood, NothingLost, cells
  <2>. QED
    BY <1>2, <2>1 DEF NothingLost, cells
<1>. QED
  BY <1>6, <1>7, <1>8, <1>9, <1>10 DEF SGood

\* What allocFromFreeList() finds and leaves.
LEMMA FitIs ==
  ASSUME NEW fl \in Seq(Runs), NEW n
  PROVE  \/ S!Fit(fl, n) = 0
         \/ S!Fit(fl, n) \in 1 .. Len(fl) /\ n <= fl[S!Fit(fl, n)].n
<1>. DEFINE I == {i \in 1 .. Len(fl) : fl[i].n >= n}
<1>1. S!Fit(fl, n) = IF I # {} THEN S!Min(I) ELSE 0
  BY DEF S!Fit, S!SelectInSeq
<1>2. CASE I = {}
  BY <1>1, <1>2
<1>3. CASE I # {}
  <2>1. I \subseteq Nat
    OBVIOUS
  <2>2. \E x \in I : \A y \in I : x <= y
    BY <1>3, <2>1, Least
  <2>3. S!Min(I) \in I
    BY <2>2 DEF S!Min
  <2>. QED
    BY <1>1, <1>3, <2>3
<1>. QED
  BY <1>2, <1>3

\* ... a run long enough, shortened, or removed when it is all taken.
LEMMA TakenIs ==
  ASSUME NEW C, NEW fl \in Seq(Runs), IsInjective(fl), FreeGood(Range(fl), C),
         NEW n \in Nat, 1 <= n, S!Fit(fl, n) > 0
  PROVE  \E r \in Range(fl) :
           /\ n <= r.n /\ S!Serve(fl, n) = r.at + r.n - n
           /\ S!Taken(fl, n) \in Seq(Runs) /\ IsInjective(S!Taken(fl, n))
           /\ Range(S!Taken(fl, n)) = Without(Range(fl), r, n)
<1>. DEFINE k == S!Fit(fl, n)
            r == fl[k]
            N == Len(fl)
            cut == [at |-> r.at, n |-> r.n - n]
            t == S!Taken(fl, n)
<1>1. k \in 1 .. N /\ n <= r.n
  <2>1. k # 0
    OBVIOUS
  <2>. QED
    BY <2>1, FitIs
<1>2. S!Serve(fl, n) = r.at + r.n - n
  BY DEF S!Serve
<1>3. t = IF r.n = n THEN RemoveAt(fl, k) ELSE [fl EXCEPT ![k].n = r.n - n]
  BY SimpleOps DEF S!Taken
<1>4. r \in Range(fl) /\ r \in Runs /\ N \in Nat
  BY <1>1 DEF Range
<1>. HIDE DEF k, t
<1>5. CASE r.n = n
  <2>1. t = RemoveAt(fl, k)
    BY <1>3, <1>5
  <2>2. t \in Seq(Runs) /\ IsInjective(t) /\ Range(t) = Range(fl) \ {r}
    BY <1>1, <2>1, RemoveIs
  <2>3. Range(t) = Without(Range(fl), r, n)
    BY <1>5, <2>2 DEF Without
  <2>. QED
    BY <1>1, <1>2, <1>4, <2>2, <2>3 DEF k, t
<1>6. CASE r.n # n
  <2>1. r = [at |-> r.at, n |-> r.n] /\ r.at \in Nat /\ r.n \in Nat
    BY <1>4 DEF Runs
  <2>2. cut \in Runs /\ 1 <= cut.n /\ cut.n < r.n
    BY <1>1, <1>6, <2>1 DEF Runs
  <2>3. t = [fl EXCEPT ![k] = cut]
    <3>1. t = [fl EXCEPT ![k] = [fl[k] EXCEPT !.n = r.n - n]]
      BY <1>3, <1>6
    <3>2. [r EXCEPT !.n = r.n - n] = cut
      BY <2>1
    <3>. QED
      BY <3>1, <3>2
  <2>4. t \in Seq(Runs) /\ Len(t) = N /\ t[k] = cut
        /\ \A i \in 1 .. N : i # k => t[i] = fl[i]
    <3>. HIDE DEF cut
    <3>. QED
      BY <1>1, <2>2, <2>3
  <2>5. \A i \in 1 .. N : fl[i] \in Range(fl)
    BY DEF Range
  <2>6. \A i, j \in 1 .. N : fl[i] = fl[j] => i = j
    BY DEF IsInjective
  <2>7. ASSUME NEW i \in 1 .. N, i # k PROVE fl[i] # cut
    <3>1. fl[i] # r
      BY <1>1, <2>6, <2>7
    <3>2. Disjoint(S!Span(r.at, r.n), S!Span(fl[i].at, fl[i].n))
      BY <1>4, <2>5, <3>1 DEF FreeGood
    <3>3. r.at \in S!Span(r.at, r.n) /\ r.at \in S!Span(cut.at, cut.n)
      BY <2>1, <2>2 DEF S!Span
    <3>. QED
      BY <3>2, <3>3 DEF Disjoint
  <2>. HIDE DEF cut, N, r
  <2>8. \A i, j \in 1 .. N : t[i] = t[j] => i = j
    BY <2>4, <2>6, <2>7
  <2>9. IsInjective(t)
    BY <2>4, <2>8 DEF IsInjective
  <2>10. Range(t) = {t[i] : i \in 1 .. N} /\ Range(fl) = {fl[i] : i \in 1 .. N}
    <3>1. N = Len(fl)
      BY DEF N
    <3>. QED
      BY <2>4, <3>1, RangeEquality
  <2>11. \A x : x \in Range(t) <=> x = cut \/ (x \in Range(fl) /\ x # r)
    <3>1. \A x \in Range(t) : x = cut \/ (x \in Range(fl) /\ x # r)
      <4>1. ASSUME NEW i \in 1 .. N
            PROVE  t[i] = cut \/ (t[i] \in Range(fl) /\ t[i] # r)
        <5>1. CASE i = k
          BY <2>4, <5>1
        <5>2. CASE i # k
          BY <1>1, <2>4, <2>6, <2>10, <5>2 DEF r
        <5>. QED
          BY <5>1, <5>2
      <4>. QED
        BY <2>10, <4>1
    <3>2. cut \in Range(t)
      BY <1>1, <2>4, <2>10
    <3>3. \A x \in Range(fl) : x # r => x \in Range(t)
      <4>1. ASSUME NEW i \in 1 .. N, fl[i] # r PROVE fl[i] \in Range(t)
        <5>1. i # k
          BY <4>1 DEF r
        <5>. QED
          BY <2>4, <2>10, <5>1
      <4>. QED
        BY <2>10, <4>1
    <3>. QED
      BY <3>1, <3>2, <3>3
  <2>12. Range(t) = Without(Range(fl), r, n)
    BY <1>6, <2>11 DEF Without, cut
  <2>. QED
    BY <1>1, <1>2, <1>4, <2>4, <2>9, <2>12 DEF t, k, r, N
<1>. QED
  BY <1>5, <1>6

-----------------------------------------------------------------------------
\* The runs of free granules of a chunk: the loops of endGC().
Starts(c) == {a \in S!Unset(c) : a - 1 \notin S!Unset(c)}

IsRun(c, a, m) ==
  m \in 1 .. S!CS /\ S!Span(a, m) \subseteq S!Unset(c) /\ a + m \notin S!Unset(c)

\* RunAt() gives the run that starts at a granule ...
LEMMA RunIs ==
  ASSUME S!Parameters, NEW c \in S!Chunks, NEW a \in Starts(c)
  PROVE  \E m : IsRun(c, a, m) /\ S!RunAt(c, a) = <<[at |-> a, n |-> m]>>
<1>. DEFINE B == S!Base(c)
            K == {k \in Nat : 1 <= k /\ a + k \notin S!Unset(c)}
<1>1. B \in Nat /\ S!CS \in Nat
  BY RoundIs, SBases
<1>2. a \in S!Unset(c) /\ S!Unset(c) \subseteq B .. B + S!CS - 1
  BY DEF Starts, S!Unset, S!Extent, S!Span
<1>3. a \in Nat /\ B <= a /\ a < B + S!CS
  BY <1>1, <1>2
<1>4. S!CS \in K
  BY <1>1, <1>2, <1>3
<1>5. PICK m \in K : \A k \in K : m <= k
  BY <1>4, Least
<1>6. m \in Nat /\ 1 <= m /\ m <= S!CS /\ a + m \notin S!Unset(c)
  BY <1>4, <1>5
<1>7. \A k \in 1 .. m - 1 : a + k \in S!Unset(c)
  BY <1>5, <1>6
<1>8. ASSUME NEW x \in S!Span(a, m) PROVE x \in S!Unset(c)
  <2>1. x \in a .. a + m - 1
    BY DEF S!Span
  <2>2. CASE x = a
    BY <1>2, <2>2
  <2>3. CASE x # a
    <3>1. x - a \in 1 .. m - 1 /\ a + (x - a) = x
      BY <1>3, <1>6, <2>1, <2>3
    <3>. QED
      BY <1>7, <3>1
  <2>. QED
    BY <2>2, <2>3
<1>. DEFINE Test(j) == S!Span(a, j) \subseteq S!Unset(c) /\ a + j \notin S!Unset(c)
            ch == CHOOSE j \in 1 .. S!CS : Test(j)
<1>9. m \in 1 .. S!CS /\ Test(m)
  BY <1>1, <1>6, <1>8
<1>10. S!RunAt(c, a) = <<[at |-> a, n |-> ch]>>
  BY DEF Starts, S!RunAt
<1>. HIDE DEF Test
<1>11. ch \in 1 .. S!CS /\ Test(ch)
  BY <1>9
<1>. HIDE DEF ch
<1>12. IsRun(c, a, ch)
  BY <1>11 DEF IsRun, Test
<1>. QED
  BY <1>10, <1>12

\* ... if one does.
LEMMA NoRun ==
  ASSUME NEW c, NEW a, a \notin Starts(c) PROVE S!RunAt(c, a) = <<>>
  BY DEF Starts, S!RunAt

\* Two runs of a chunk lie apart, and each granule not marked is in a run.
LEMMA RunsApart ==
  ASSUME S!Parameters, NEW c \in S!Chunks,
         NEW a \in Starts(c), NEW m, IsRun(c, a, m),
         NEW b \in Starts(c), NEW l, IsRun(c, b, l), a < b
  PROVE  Disjoint(S!Span(a, m), S!Span(b, l))
<1>1. /\ a \in Nat /\ b \in Nat /\ m \in Nat /\ l \in Nat
  BY RoundIs, SBases DEF Starts, S!Unset, S!Extent, S!Span, IsRun
<1>2. b - 1 \notin S!Unset(c) /\ S!Span(a, m) \subseteq S!Unset(c)
  BY DEF Starts, IsRun
<1>3. ~(b < a + m)
  <2>1. b < a + m => b - 1 \in S!Span(a, m)
    BY <1>1 DEF S!Span
  <2>. QED
    BY <1>2, <2>1
<1>. QED
  BY <1>1, <1>3 DEF Disjoint, S!Span

LEMMA RunsReach ==
  ASSUME S!Parameters, NEW c \in S!Chunks, NEW x \in S!Unset(c)
  PROVE  \E a \in Starts(c) : \A m : IsRun(c, a, m) => x \in S!Span(a, m)
<1>. DEFINE B == S!Base(c)
            K == {k \in Nat : 1 <= k /\ x - k \notin S!Unset(c)}
<1>1. B \in Nat /\ S!CS \in Nat
  BY RoundIs, SBases
<1>2. S!Unset(c) \subseteq B .. B + S!CS - 1
  BY DEF S!Unset, S!Extent, S!Span
<1>3. x \in Nat /\ B <= x
  BY <1>1, <1>2
<1>4. x - B + 1 \in K
  <2>1. x - B + 1 \in Nat /\ 1 <= x - B + 1 /\ x - (x - B + 1) = B - 1
    BY <1>1, <1>3
  <2>2. B - 1 \notin S!Unset(c)
    BY <1>1, <1>2
  <2>. QED
    BY <2>1, <2>2
<1>5. PICK k \in K : \A j \in K : k <= j
  BY <1>4, Least
<1>6. k \in Nat /\ 1 <= k /\ x - k \notin S!Unset(c)
  BY <1>5
<1>7. ASSUME NEW j \in 0 .. k - 1 PROVE x - j \in S!Unset(c)
  <2>1. CASE j = 0
    BY <1>3, <2>1
  <2>2. CASE j # 0
    BY <1>5, <1>6, <2>2
  <2>. QED
    BY <2>1, <2>2
<1>. DEFINE a == x - (k - 1)
<1>8. a \in S!Unset(c) /\ a - 1 = x - k
  BY <1>3, <1>6, <1>7
<1>9. a \in Starts(c)
  BY <1>6, <1>8 DEF Starts
<1>10. ASSUME NEW m, IsRun(c, a, m) PROVE x \in S!Span(a, m)
  <2>1. m \in Nat /\ a + m \notin S!Unset(c) /\ 1 <= m
    BY <1>1, <1>10 DEF IsRun
  <2>2. a \in Nat /\ a <= x
    BY <1>1, <1>2, <1>3, <1>6, <1>8
  <2>3. ~(a + m <= x)
    <3>1. a + m <= x => x - (a + m) \in 0 .. k - 1 /\ x - (x - (a + m)) = a + m
      BY <1>3, <1>6, <2>1, <2>2
    <3>. QED
      BY <1>7, <2>1, <3>1
  <2>. QED
    BY <1>3, <2>1, <2>2, <2>3 DEF S!Span
<1>. QED
  BY <1>9, <1>10

\* The items of FreeRuns(): the runs of the chunk, each once.
LEMMA FreeRunsIs ==
  ASSUME S!Parameters, NEW c \in S!Chunks
  PROVE  /\ S!FreeRuns(c) \in Seq(Runs) /\ IsInjective(S!FreeRuns(c))
         /\ \A r : r \in Range(S!FreeRuns(c)) <=>
              \E a \in Starts(c) : S!RunAt(c, a) = <<r>>
<1>. DEFINE N == S!CS
            at(k) == S!Base(c) + k - 1
            part(k) == S!RunAt(c, at(k))
            parts == [k \in 1 .. N |-> part(k)]
<1>1. N \in Nat /\ S!Base(c) \in Nat
  BY RoundIs, SBases
<1>2. \A k \in 1 .. N : at(k) \in Nat
  BY <1>1
<1>3. \A a \in Starts(c) : a \in Nat /\ \E k \in 1 .. N : a = at(k)
  <2>. SUFFICES ASSUME NEW a \in Starts(c)
                PROVE  a \in Nat /\ \E k \in 1 .. N : a = at(k)
    OBVIOUS
  <2>1. a \in S!Base(c) .. S!Base(c) + N - 1
    BY DEF Starts, S!Unset, S!Extent, S!Span
  <2>2. a - S!Base(c) + 1 \in 1 .. N /\ at(a - S!Base(c) + 1) = a
    BY <1>1, <2>1
  <2>. QED
    BY <1>1, <2>1, <2>2
<1>4. \A k, l \in 1 .. N : k # l => at(k) # at(l)
  BY <1>1
<1>. HIDE DEF at, N
<1>5. ASSUME NEW k \in 1 .. N
      PROVE  /\ part(k) \in Seq(Runs) /\ IsInjective(part(k))
             /\ \A r : r \in Range(part(k)) <=> at(k) \in Starts(c) /\ part(k) = <<r>>
             /\ \A r : r \in Range(part(k)) => r.at = at(k)
  <2>1. CASE at(k) \in Starts(c)
    <3>1. PICK m : IsRun(c, at(k), m) /\ part(k) = <<[at |-> at(k), n |-> m]>>
      BY <2>1, RunIs
    <3>. DEFINE r == [at |-> at(k), n |-> m]
    <3>2. r \in Runs /\ r.at = at(k)
      BY <1>1, <1>2, <3>1 DEF IsRun, Runs, N
    <3>3. part(k) = <<r>>
      BY <3>1
    <3>. HIDE DEF part, r
    <3>4. part(k) \in Seq(Runs) /\ IsInjective(part(k)) /\ Range(part(k)) = {r}
      BY <3>2, <3>3, AtMostOne
    <3>5. \A t : <<t>> = <<r>> => t = r
      OBVIOUS
    <3>. QED
      BY <2>1, <3>2, <3>3, <3>4, <3>5
  <2>2. CASE at(k) \notin Starts(c)
    <3>1. part(k) = <<>>
      BY <2>2, NoRun
    <3>2. [at |-> 0, n |-> 0] \in Runs
      BY DEF Runs
    <3>. HIDE DEF part
    <3>3. part(k) \in Seq(Runs) /\ IsInjective(part(k)) /\ Range(part(k)) = {}
      BY <3>1, <3>2, AtMostOne
    <3>. QED
      BY <2>2, <3>3
  <2>. QED
    BY <2>1, <2>2
<1>6. S!FreeRuns(c) = FlattenSeq(parts)
  BY SimpleOps DEF S!FreeRuns, parts, part, at, N
<1>7. \A a : S!RunAt(c, a) = S!RunAt(c, a) /\ \A k : a = at(k) => part(k) = S!RunAt(c, a)
  OBVIOUS
<1>. HIDE DEF part
<1>8. parts \in Seq(Seq(Runs)) /\ Len(parts) = N /\ \A k \in 1 .. N : parts[k] = part(k)
  <2>1. \A k \in 1 .. N : part(k) \in Seq(Runs)
    BY <1>5
  <2>. QED
    BY <1>1, <2>1
<1>. HIDE DEF parts
<1>9. \A k \in 1 .. Len(parts) : IsInjective(parts[k])
  BY <1>5, <1>8
<1>10. \A k, l \in 1 .. Len(parts) : k # l => Range(parts[k]) \intersect Range(parts[l]) = {}
  <2>. SUFFICES ASSUME NEW k \in 1 .. N, NEW l \in 1 .. N, k # l,
                       NEW r, r \in Range(part(k)), r \in Range(part(l))
                PROVE  FALSE
    BY <1>8
  <2>. QED
    BY <1>4, <1>5
<1>11. IsInjective(FlattenSeq(parts))
  BY <1>8, <1>9, <1>10, FlattenInjective
<1>12. FlattenSeq(parts) \in Seq(Runs)
       /\ \A r : r \in Range(FlattenSeq(parts)) <=> \E k \in 1 .. N : r \in Range(parts[k])
  BY <1>8, FlattenItems
<1>13. ASSUME NEW r PROVE (\E k \in 1 .. N : r \in Range(parts[k]))
                          <=> \E a \in Starts(c) : S!RunAt(c, a) = <<r>>
  <2>1. ASSUME NEW k \in 1 .. N, r \in Range(parts[k])
        PROVE  \E a \in Starts(c) : S!RunAt(c, a) = <<r>>
    <3>1. at(k) \in Starts(c) /\ part(k) = <<r>>
      BY <1>5, <1>8, <2>1
    <3>. QED
      BY <1>7, <3>1
  <2>2. ASSUME NEW a \in Starts(c), S!RunAt(c, a) = <<r>>
        PROVE  \E k \in 1 .. N : r \in Range(parts[k])
    <3>1. PICK k \in 1 .. N : a = at(k)
      BY <1>3
    <3>2. part(k) = <<r>>
      BY <1>7, <2>2, <3>1
    <3>. QED
      BY <1>5, <1>8, <3>1, <3>2
  <2>. QED
    BY <2>1, <2>2
<1>. QED
  BY <1>6, <1>11, <1>12, <1>13

\* What the runs of a chunk are.
LEMMA ChunkRuns ==
  ASSUME S!Parameters, NEW c \in S!Chunks
  PROVE  /\ \A r \in Range(S!FreeRuns(c)) :
              r \in Runs /\ 1 <= r.n /\ S!Span(r.at, r.n) \subseteq S!Unset(c)
         /\ \A r, t \in Range(S!FreeRuns(c)) :
              r # t => Disjoint(S!Span(r.at, r.n), S!Span(t.at, t.n))
         /\ \A x \in S!Unset(c) : \E r \in Range(S!FreeRuns(c)) : x \in S!Span(r.at, r.n)
<1>1. ASSUME NEW r \in Range(S!FreeRuns(c))
      PROVE  /\ r \in Runs /\ r.at \in Starts(c) /\ IsRun(c, r.at, r.n)
             /\ r = [at |-> r.at, n |-> r.n]
  <2>1. PICK a \in Starts(c) : S!RunAt(c, a) = <<r>>
    BY FreeRunsIs
  <2>2. PICK m : IsRun(c, a, m) /\ S!RunAt(c, a) = <<[at |-> a, n |-> m]>>
    BY RunIs
  <2>3. r = [at |-> a, n |-> m]
    BY <2>1, <2>2
  <2>4. a \in Nat /\ m \in Nat
    BY <2>2, RoundIs, SBases DEF Starts, S!Unset, S!Extent, S!Span, IsRun
  <2>. QED
    BY <2>2, <2>3, <2>4 DEF Runs
<1>2. ASSUME NEW r \in Range(S!FreeRuns(c))
      PROVE  1 <= r.n /\ S!Span(r.at, r.n) \subseteq S!Unset(c)
  BY <1>1, RoundIs DEF IsRun
<1>3. ASSUME NEW r \in Range(S!FreeRuns(c)), NEW t \in Range(S!FreeRuns(c)), r # t
      PROVE  Disjoint(S!Span(r.at, r.n), S!Span(t.at, t.n))
  <2>1. r.at \in Nat /\ t.at \in Nat /\ r.at \in Starts(c) /\ t.at \in Starts(c)
        /\ IsRun(c, r.at, r.n) /\ IsRun(c, t.at, t.n)
    BY <1>1 DEF Runs
  <2>2. CASE r.at < t.at
    BY <2>1, <2>2, RunsApart
  <2>3. CASE t.at < r.at
    <3>1. Disjoint(S!Span(t.at, t.n), S!Span(r.at, r.n))
      BY <2>1, <2>3, RunsApart
    <3>. QED
      BY <3>1 DEF Disjoint
  <2>4. CASE r.at = t.at
    <3>1. r.n # t.n
      BY <1>1, <1>3, <2>4
    <3>2. PICK a \in Starts(c) : S!RunAt(c, a) = <<r>>
      BY FreeRunsIs
    <3>3. PICK b \in Starts(c) : S!RunAt(c, b) = <<t>>
      BY FreeRunsIs
    <3>4. a = r.at
      <4>1. PICK m : S!RunAt(c, a) = <<[at |-> a, n |-> m]>>
        BY RunIs
      <4>2. r = [at |-> a, n |-> m]
        BY <3>2, <4>1
      <4>. QED
        BY <4>2
    <3>5. b = t.at
      <4>1. PICK m : S!RunAt(c, b) = <<[at |-> b, n |-> m]>>
        BY RunIs
      <4>2. t = [at |-> b, n |-> m]
        BY <3>3, <4>1
      <4>. QED
        BY <4>2
    <3>6. <<r>> = <<t>>
      BY <2>4, <3>2, <3>3, <3>4, <3>5
    <3>. QED
      BY <1>3, <3>6
  <2>. QED
    BY <2>1, <2>2, <2>3, <2>4
<1>4. ASSUME NEW x \in S!Unset(c)
      PROVE  \E r \in Range(S!FreeRuns(c)) : x \in S!Span(r.at, r.n)
  <2>1. PICK a \in Starts(c) : \A m : IsRun(c, a, m) => x \in S!Span(a, m)
    BY RunsReach
  <2>2. PICK m : IsRun(c, a, m) /\ S!RunAt(c, a) = <<[at |-> a, n |-> m]>>
    BY RunIs
  <2>. DEFINE r == [at |-> a, n |-> m]
  <2>3. r \in Range(S!FreeRuns(c))
    BY <2>2, FreeRunsIs
  <2>. QED
    BY <2>1, <2>2, <2>3
<1>. QED
  BY <1>1, <1>2, <1>3, <1>4

\* The free list of endGC(): exactly the granules not marked, cut in runs.
LEMMA SweptIs ==
  ASSUME S!Parameters, s_chunks \in Seq(S!Chunks), IsInjective(s_chunks)
  PROVE  /\ S!Swept \in Seq(Runs) /\ IsInjective(S!Swept)
         /\ FreeGood(Range(S!Swept), Range(s_chunks))
         /\ \A c \in Range(s_chunks) : \A x \in S!Unset(c) :
              \E r \in Range(S!Swept) : x \in S!Span(r.at, r.n)
         /\ \A r \in Range(S!Swept) : Disjoint(S!Span(r.at, r.n), s_bits)
<1>. DEFINE N == Len(s_chunks)
            part(k) == S!FreeRuns(s_chunks[k])
            parts == [k \in 1 .. N |-> part(k)]
<1>1. N \in Nat /\ Range(s_chunks) = {s_chunks[k] : k \in 1 .. N}
  BY RangeEquality
<1>2. \A k \in 1 .. N : s_chunks[k] \in S!Chunks
  OBVIOUS
<1>3. \A k, l \in 1 .. N : k # l => s_chunks[k] # s_chunks[l]
  BY DEF IsInjective
<1>4. S!Swept = Reverse(FlattenSeq(parts))
  BY SimpleOps DEF S!Swept
<1>5. ASSUME NEW k \in 1 .. N
      PROVE  part(k) \in Seq(Runs) /\ IsInjective(part(k))
  BY <1>2, FreeRunsIs
<1>6. ASSUME NEW k \in 1 .. N, NEW r \in Range(part(k))
      PROVE  /\ r \in Runs /\ 1 <= r.n
             /\ S!Span(r.at, r.n) \subseteq S!Unset(s_chunks[k])
             /\ S!Span(r.at, r.n) \subseteq S!Extent(s_chunks[k])
             /\ Disjoint(S!Span(r.at, r.n), s_bits)
             /\ r.at \in S!Span(r.at, r.n)
  <2>1. r \in Runs /\ 1 <= r.n /\ S!Span(r.at, r.n) \subseteq S!Unset(s_chunks[k])
    BY <1>2, ChunkRuns
  <2>2. r.at \in S!Span(r.at, r.n)
    BY <2>1 DEF Runs, S!Span
  <2>. QED
    BY <2>1, <2>2 DEF S!Unset, Disjoint
<1>7. ASSUME NEW k \in 1 .. N, NEW r \in Range(part(k)),
             NEW l \in 1 .. N, NEW t \in Range(part(l)), k # l
      PROVE  Disjoint(S!Span(r.at, r.n), S!Span(t.at, t.n))
  <2>1. Disjoint(S!Extent(s_chunks[k]), S!Extent(s_chunks[l]))
    BY <1>2, <1>3, <1>7, SBases DEF Disjoint
  <2>. QED
    BY <1>6, <2>1 DEF Disjoint
<1>8. ASSUME NEW k \in 1 .. N, NEW r \in Range(part(k)), NEW t \in Range(part(k)), r # t
      PROVE  Disjoint(S!Span(r.at, r.n), S!Span(t.at, t.n))
  BY <1>2, <1>8, ChunkRuns
<1>9. ASSUME NEW k \in 1 .. N, NEW x \in S!Unset(s_chunks[k])
      PROVE  \E r \in Range(part(k)) : x \in S!Span(r.at, r.n)
  BY <1>2, ChunkRuns
<1>. HIDE DEF part, N
<1>10. parts \in Seq(Seq(Runs)) /\ Len(parts) = N /\ \A k \in 1 .. N : parts[k] = part(k)
  BY <1>1, <1>5
<1>. HIDE DEF parts
<1>11. \A k, l \in 1 .. Len(parts) : k # l => Range(parts[k]) \intersect Range(parts[l]) = {}
  <2>. SUFFICES ASSUME NEW k \in 1 .. N, NEW l \in 1 .. N, k # l,
                       NEW r, r \in Range(part(k)), r \in Range(part(l))
                PROVE  FALSE
    BY <1>10
  <2>. QED
    BY <1>6, <1>7 DEF Disjoint
<1>. DEFINE fl == FlattenSeq(parts)
<1>12. fl \in Seq(Runs) /\ \A r : r \in Range(fl) <=> \E k \in 1 .. N : r \in Range(part(k))
  BY <1>10, FlattenItems
<1>13. IsInjective(fl)
  <2>1. \A k \in 1 .. Len(parts) : IsInjective(parts[k])
    BY <1>5, <1>10
  <2>. QED
    BY <1>10, <1>11, <2>1, FlattenInjective
<1>. HIDE DEF fl
<1>14. S!Swept \in Seq(Runs) /\ IsInjective(S!Swept) /\ Range(S!Swept) = Range(fl)
  BY <1>4, <1>12, <1>13, ReverseItems DEF fl
<1>15. FreeGood(Range(fl), Range(s_chunks))
  <2>1. Range(fl) \subseteq Runs
    BY <1>6, <1>12
  <2>2. ASSUME NEW r \in Range(fl)
        PROVE  1 <= r.n /\ \E c \in Range(s_chunks) : S!Span(r.at, r.n) \subseteq S!Extent(c)
    BY <1>1, <1>6, <1>12
  <2>3. ASSUME NEW r \in Range(fl), NEW t \in Range(fl), r # t
        PROVE  Disjoint(S!Span(r.at, r.n), S!Span(t.at, t.n))
    <3>1. PICK k \in 1 .. N : r \in Range(part(k))
      BY <1>12
    <3>2. PICK l \in 1 .. N : t \in Range(part(l))
      BY <1>12
    <3>. QED
      BY <1>7, <1>8, <2>3, <3>1, <3>2
  <2>. QED
    BY <2>1, <2>2, <2>3 DEF FreeGood
<1>16. \A c \in Range(s_chunks) : \A x \in S!Unset(c) :
         \E r \in Range(fl) : x \in S!Span(r.at, r.n)
  BY <1>1, <1>9, <1>12
<1>17. \A r \in Range(fl) : Disjoint(S!Span(r.at, r.n), s_bits)
  BY <1>6, <1>12
<1>. QED
  BY <1>14, <1>15, <1>16, <1>17

-----------------------------------------------------------------------------
\* The types of the variables; what clear() deletes is the whole memory.
STyped ==
  /\ s_chunks \in Seq(S!Chunks) /\ IsInjective(s_chunks)
  /\ s_free \in Seq(Runs) /\ IsInjective(s_free)
  /\ s_want \in Requests \union {S!NoSize}
  /\ s_roots \subseteq s_owned /\ s_temps \subseteq s_owned
  /\ s_dead = {} \/ (s_dead = Range(s_chunks) /\ s_phase = "run")

Marks(L) == UNION {S!MarkedBits(b) : b \in L}

\* What is marked, phase by phase.
SMarked ==
  /\ s_phase = "temps" => s_bits = {}
  /\ s_phase = "collect" => s_bits = Marks(s_temps)
  /\ s_phase = "end" => s_bits = Marks(S!live)

SSound ==
  /\ STyped
  /\ SGood(Range(s_free), s_owned, Range(s_chunks) \ s_dead)
  /\ SMarked

\* The inductive invariant.
SInv == /\ s_failure = "none" \/ (s_failure = "deleted" /\ s_dead # {})
        /\ s_failure = "none" => SSound

\* A request served from a free list.
Given(fl, s) == [at |-> S!Serve(fl, S!round(s)), size |-> s]

LEMMA FitStep ==
  ASSUME S!Parameters, 0 \notin Requests, NEW C \in SUBSET S!Chunks, NEW O,
         NEW fl \in Seq(Runs), IsInjective(fl), SGood(Range(fl), O, C),
         NEW s \in Requests, S!Fit(fl, S!round(s)) > 0
  PROVE  /\ S!Taken(fl, S!round(s)) \in Seq(Runs) /\ IsInjective(S!Taken(fl, S!round(s)))
         /\ SGood(Range(S!Taken(fl, S!round(s))), O \union {Given(fl, s)}, C)
         /\ Given(fl, s) \in S!Block /\ Given(fl, s) \notin O
         /\ \A d \in O : Disjoint(S!BlockCells(Given(fl, s)), S!BlockCells(d))
<1>1. S!round(s) \in Nat /\ 1 <= S!round(s)
  BY RoundIs
<1>2. FreeGood(Range(fl), C)
  BY DEF SGood
<1>3. PICK r \in Range(fl) :
         /\ S!round(s) <= r.n /\ S!Serve(fl, S!round(s)) = r.at + r.n - S!round(s)
         /\ S!Taken(fl, S!round(s)) \in Seq(Runs) /\ IsInjective(S!Taken(fl, S!round(s)))
         /\ Range(S!Taken(fl, S!round(s))) = Without(Range(fl), r, S!round(s))
  BY <1>1, <1>2, TakenIs
<1>4. Given(fl, s) = EndOf(r, s)
  BY <1>3 DEF Given, EndOf
<1>5. /\ SGood(Without(Range(fl), r, S!round(s)), O \union {EndOf(r, s)}, C)
      /\ EndOf(r, s) \in S!Block /\ EndOf(r, s) \notin O
      /\ \A d \in O : Disjoint(S!BlockCells(EndOf(r, s)), S!BlockCells(d))
  BY <1>3, GoodServe
<1>. QED
  BY <1>3, <1>4, <1>5

\* A block handed out after the collector kept only some of those it had.
LEMMA SHandOutStep ==
  ASSUME NEW K, NEW b, S!HandOut(K, b), b \in S!Block, b \notin K,
         K \subseteq s_owned, S!live \subseteq K,
         \A d \in K : Disjoint(S!BlockCells(b), S!BlockCells(d))
  PROVE  /\ S!Promise!GStep
         /\ s_owned' = K \union {b} /\ s_roots' \subseteq s_owned' /\ s_temps' \subseteq s_owned'
<1>1. /\ s_owned' = K \union {b} /\ s_parity' = 1 - s_parity
      /\ \/ s_roots' = s_roots \union {b} /\ s_temps' = s_temps
         \/ s_temps' = s_temps \union {b} /\ s_roots' = s_roots
  BY DEF S!HandOut
<1>2. (S!live)' = S!live \union {b}
  BY <1>1 DEF S!live
<1>3. s_owned' \ {b} = K
  BY <1>1
<1>4. S!Promise!GAlloc(b)
  BY <1>1, <1>2, <1>3 DEF S!Promise!GAlloc, S!Promise!TakesBack, Disjoint
<1>5. b \in S!Block \intersect (S!live)'
  BY <1>2
<1>6. S!Promise!GNext
  BY <1>4, <1>5 DEF S!Promise!GNext
<1>7. s_roots \subseteq K /\ s_temps \subseteq K
  BY DEF S!live
<1>. QED
  BY <1>1, <1>6, <1>7 DEF S!Promise!GStep

\* allocate() served by the free list.
LEMMA SAllocStep ==
  ASSUME S!Parameters, 0 \notin Requests, SSound, NEW s \in Requests, S!allocateFree(s)
  PROVE  SSound' /\ S!Promise!GStep /\ s_failure' = "none"
<1>. DEFINE n == S!round(s)
            b == Given(s_free, s)
            C == Range(s_chunks) \ s_dead
<1>1. /\ s_phase = "run" /\ S!Fit(s_free, n) > 0 /\ S!HandOut(s_owned, b)
      /\ s_free' = S!Taken(s_free, n) /\ s_chunks' = s_chunks /\ s_phase' = s_phase
      /\ s_want' = s_want /\ s_dead' = s_dead /\ s_failure' = "none"
  BY DEF S!allocateFree, Given
<1>2. STyped /\ SGood(Range(s_free), s_owned, C)
  BY DEF SSound
<1>3. C \in SUBSET S!Chunks
  BY <1>2, RangeOfSeq DEF STyped
<1>. HIDE DEF C
<1>4. /\ s_free' \in Seq(Runs) /\ IsInjective(s_free')
      /\ SGood(Range(s_free'), s_owned \union {b}, C)
      /\ b \in S!Block /\ b \notin s_owned
      /\ \A d \in s_owned : Disjoint(S!BlockCells(b), S!BlockCells(d))
  <2>1. s_free \in Seq(Runs) /\ IsInjective(s_free)
    BY <1>2 DEF STyped
  <2>2. S!Fit(s_free, S!round(s)) > 0
    BY <1>1
  <2>3. /\ S!Taken(s_free, n) \in Seq(Runs) /\ IsInjective(S!Taken(s_free, n))
        /\ SGood(Range(S!Taken(s_free, n)), s_owned \union {b}, C)
        /\ b \in S!Block /\ b \notin s_owned
        /\ \A d \in s_owned : Disjoint(S!BlockCells(b), S!BlockCells(d))
    BY <1>2, <1>3, <2>1, <2>2, FitStep
  <2>. QED
    BY <1>1, <2>3
<1>. HIDE DEF b
<1>5. S!live \subseteq s_owned
  BY <1>2 DEF STyped, S!live
<1>6. /\ S!Promise!GStep /\ s_owned' = s_owned \union {b}
      /\ s_roots' \subseteq s_owned' /\ s_temps' \subseteq s_owned'
  BY <1>1, <1>4, <1>5, SHandOutStep
<1>7. STyped'
  BY <1>1, <1>2, <1>4, <1>6 DEF STyped
<1>8. SGood(Range(s_free), s_owned, Range(s_chunks) \ s_dead)'
  BY <1>1, <1>4, <1>6 DEF C
<1>9. SMarked'
  BY <1>1 DEF SMarked
<1>. QED
  BY <1>1, <1>6, <1>7, <1>8, <1>9 DEF SSound

\* beginGC(), whoever called it.
LEMMA SBeginStep ==
  ASSUME SSound, s_failure = "none", s_phase = "run",
         NEW s \in Requests \union {S!NoSize}, S!beginGC(s),
         UNCHANGED <<s_chunks, s_free, s_roots, s_temps, s_dead, s_owned, s_parity>>
  PROVE  SInv' /\ S!Promise!GStep
<1>1. /\ s_want' = s /\ s_bits' = {}
      /\ \/ s_failure' = "deleted" /\ s_dead # {}
         \/ s_failure' = "none" /\ s_phase' = "temps" /\ Range(s_chunks) \intersect s_dead = {}
  BY SimpleOps DEF S!beginGC
<1>2. S!Promise!GStep
  BY DEF S!Promise!GStep, S!Promise!gcVars, S!live
<1>3. CASE s_failure' = "deleted" /\ s_dead # {}
  BY <1>2, <1>3 DEF SInv
<1>4. CASE s_failure' = "none" /\ s_phase' = "temps" /\ Range(s_chunks) \intersect s_dead = {}
  <2>1. s_dead = {}
    BY <1>4 DEF SSound, STyped
  <2>2. STyped'
    BY <1>1, <2>1 DEF SSound, STyped
  <2>3. SMarked'
    BY <1>1, <1>4 DEF SMarked
  <2>4. SGood(Range(s_free), s_owned, Range(s_chunks) \ s_dead)'
    BY DEF SSound
  <2>. QED
    BY <1>2, <1>4, <2>2, <2>3, <2>4 DEF SInv, SSound
<1>. QED
  BY <1>1, <1>3, <1>4

\* mark() finds the chunk of every block handed out.
LEMMA MarkFindsIt ==
  ASSUME S!Parameters, 0 \notin Requests, SSound, NEW b \in s_owned
  PROVE  S!Found(b.at)
<1>1. /\ b.at \in Nat /\ b.size \in Requests
      /\ \E c \in Range(s_chunks) : S!BlockCells(b) \subseteq S!Extent(c)
  BY DEF SSound, SGood, OwnedGood
<1>2. PICK c \in Range(s_chunks) : S!BlockCells(b) \subseteq S!Extent(c)
  BY <1>1
<1>3. S!round(b.size) \in Nat /\ 1 <= S!round(b.size)
  BY <1>1, RoundIs
<1>4. b.at \in S!Extent(c)
  BY <1>1, <1>2, <1>3 DEF S!BlockCells, S!Span
<1>5. \E k \in 1 .. Len(s_chunks) : s_chunks[k] = c
  BY RangeEquality DEF SSound, STyped
<1>. QED
  BY <1>4, <1>5 DEF S!Found

\* The callbacks mark the blocks of the Temp objects, then those of collect().
LEMMA SMarkStep ==
  ASSUME S!Parameters, 0 \notin Requests, SSound, s_failure = "none",
         S!CollectTemps \/ S!collect
  PROVE  SInv' /\ S!Promise!GStep
<1>. DEFINE L == IF s_phase = "temps" THEN s_temps ELSE s_roots
<1>1. /\ \/ s_phase = "temps" /\ s_phase' = "collect"
         \/ s_phase = "collect" /\ s_phase' = "end"
      /\ S!markAll(L)
      /\ s_chunks' = s_chunks /\ s_free' = s_free /\ s_roots' = s_roots
      /\ s_temps' = s_temps /\ s_want' = s_want /\ s_dead' = s_dead
      /\ s_owned' = s_owned /\ s_parity' = s_parity
  BY DEF S!CollectTemps, S!collect
<1>2. STyped /\ s_dead = {}
  BY <1>1 DEF SSound, STyped
<1>3. \A b \in L : S!Found(b.at)
  BY <1>2, MarkFindsIt DEF STyped
<1>. HIDE DEF L
<1>4. s_failure' = "none" /\ s_bits' = s_bits \union Marks(L)
  <2>1. s_failure' = s_failure
    BY <1>1, <1>3 DEF S!markAll
  <2>2. s_bits' = s_bits \union UNION {S!MarkedBits(b) : b \in L}
    BY <1>1 DEF S!markAll
  <2>. QED
    BY <2>1, <2>2 DEF Marks
<1>5. SMarked'
  <2>1. CASE s_phase = "temps"
    <3>1. s_bits = {} /\ s_phase' = "collect" /\ L = s_temps
      BY <1>1, <2>1 DEF SSound, SMarked, L
    <3>. QED
      BY <1>1, <1>4, <3>1 DEF SMarked
  <2>2. CASE s_phase = "collect"
    <3>1. s_bits = Marks(s_temps) /\ s_phase' = "end" /\ L = s_roots
      BY <1>1, <2>2 DEF SSound, SMarked, L
    <3>2. Marks(s_temps) \union Marks(s_roots) = Marks(S!live)
      BY DEF Marks, S!live
    <3>3. (S!live)' = S!live
      BY <1>1 DEF S!live
    <3>. QED
      BY <1>4, <3>1, <3>2, <3>3 DEF SMarked, Marks
  <2>. QED
    BY <1>1, <2>1, <2>2
<1>6. STyped' /\ SGood(Range(s_free), s_owned, Range(s_chunks) \ s_dead)'
  BY <1>1, <1>2 DEF SSound, STyped
<1>7. S!Promise!GStep
  BY <1>1 DEF S!Promise!GStep, S!Promise!gcVars, S!live
<1>. QED
  BY <1>4, <1>5, <1>6, <1>7 DEF SInv, SSound

\* What endGC() leaves: the memory is cut in the blocks alive and the others.
LEMMA SweepGood ==
  ASSUME S!Parameters, SSound, s_phase = "end"
  PROVE  /\ S!Swept \in Seq(Runs) /\ IsInjective(S!Swept)
         /\ SGood(Range(S!Swept), S!live, Range(s_chunks))
         /\ S!live \subseteq s_owned /\ s_dead = {}
<1>1. STyped /\ s_dead = {} /\ s_bits = Marks(S!live)
  BY DEF SSound, STyped, SMarked
<1>2. S!live \subseteq s_owned
  BY <1>1 DEF STyped, S!live
<1>3. /\ S!Swept \in Seq(Runs) /\ IsInjective(S!Swept)
      /\ FreeGood(Range(S!Swept), Range(s_chunks))
      /\ \A c \in Range(s_chunks) : \A x \in S!Unset(c) :
           \E r \in Range(S!Swept) : x \in S!Span(r.at, r.n)
      /\ \A r \in Range(S!Swept) : Disjoint(S!Span(r.at, r.n), s_bits)
  BY <1>1, SweptIs DEF STyped
<1>4. OwnedGood(s_owned, Range(s_chunks))
  BY <1>1 DEF SSound, SGood
<1>5. OwnedGood(S!live, Range(s_chunks))
  BY <1>2, <1>4 DEF OwnedGood
<1>6. \A b \in S!live : S!BlockCells(b) \subseteq s_bits
  BY <1>1 DEF Marks, S!MarkedBits
<1>7. \A x \in s_bits : \E b \in S!live : x \in S!BlockCells(b)
  BY <1>1 DEF Marks, S!MarkedBits
<1>8. NothingShared(Range(S!Swept), S!live)
  BY <1>3, <1>6 DEF NothingShared, Disjoint
<1>9. NothingLost(Range(S!Swept), S!live, Range(s_chunks))
  <2>1. \A c : \A x \in S!Extent(c) : x \in s_bits \/ x \in S!Unset(c)
    BY DEF S!Unset
  <2>. QED
    BY <1>3, <1>7, <2>1 DEF NothingLost
<1>. QED
  BY <1>1, <1>2, <1>3, <1>5, <1>8, <1>9 DEF SGood

\* endGC(), alone or before the block allocate() waits for, in a new chunk or not.
LEMMA SEndStep ==
  ASSUME S!Parameters, 0 \notin Requests, SSound, s_failure = "none", S!endGC
  PROVE  SInv' /\ S!Promise!GStep
<1>. DEFINE n == S!round(s_want)
            grown(c) == S!newChunk(c, S!Swept)
            Quiet == /\ s_free' = S!Swept /\ s_owned' = S!live /\ s_chunks' = s_chunks
                     /\ s_roots' = s_roots /\ s_temps' = s_temps /\ s_parity' = s_parity
            Serves == /\ s_want \in Requests /\ S!Fit(S!Swept, n) > 0
                      /\ s_free' = S!Taken(S!Swept, n)
                      /\ S!HandOut(S!live, Given(S!Swept, s_want)) /\ s_chunks' = s_chunks
            Grows(c) == /\ s_want \in Requests /\ c \in S!Chunks \ Range(s_chunks)
                        /\ s_chunks' = <<c>> \o s_chunks
                        /\ S!Fit(S!Swept, n) = 0
                        /\ s_free' = S!Taken(grown(c), n)
                        /\ S!HandOut(S!live, Given(grown(c), s_want))
<1>1. /\ s_phase = "end" /\ s_phase' = "run" /\ s_want' = S!NoSize
      /\ s_dead' = s_dead /\ s_failure' = "none"
  BY DEF S!endGC
<1>2. STyped
  BY DEF SSound
<1>3. /\ S!Swept \in Seq(Runs) /\ IsInjective(S!Swept)
      /\ SGood(Range(S!Swept), S!live, Range(s_chunks))
      /\ S!live \subseteq s_owned /\ s_dead = {}
  BY <1>1, SweepGood
<1>4. Range(s_chunks) \in SUBSET S!Chunks
  BY <1>2, RangeOfSeq DEF STyped
<1>5. Quiet \/ Serves \/ \E c : Grows(c)
  <2>1. s_want \in Requests \/ s_want = S!NoSize
    BY <1>2 DEF STyped
  <2>2. S!Fit(S!Swept, n) = 0 \/ S!Fit(S!Swept, n) > 0
    BY <1>3, FitIs
  <2>. QED
    BY <2>1, <2>2, SimpleOps DEF S!endGC, Given
<1>6. SMarked'
  BY <1>1 DEF SMarked
<1>. SUFFICES SSound' /\ S!Promise!GStep
  BY <1>1 DEF SInv
<1>7. CASE Quiet
  <2>1. s_roots \subseteq S!live /\ s_temps \subseteq S!live /\ (S!live)' = S!live
    BY <1>7 DEF S!live
  <2>2. STyped'
    BY <1>1, <1>2, <1>3, <1>7, <2>1 DEF STyped
  <2>3. SGood(Range(s_free), s_owned, Range(s_chunks) \ s_dead)'
    <3>1. Range(s_chunks) \ {} = Range(s_chunks)
      OBVIOUS
    <3>. QED
      BY <1>1, <1>3, <1>7, <3>1
  <2>4. S!Promise!GReclaim
    BY <1>3, <1>7, <2>1 DEF S!Promise!GReclaim, S!Promise!TakesBack
  <2>. QED
    BY <1>6, <2>2, <2>3, <2>4 DEF SSound, S!Promise!GStep, S!Promise!GNext
<1>8. CASE Serves
  <2>. DEFINE b == Given(S!Swept, s_want)
  <2>2. S!HandOut(S!live, b)
    BY <1>8
  <2>. HIDE DEF b
  <2>3. /\ S!Taken(S!Swept, n) \in Seq(Runs) /\ IsInjective(S!Taken(S!Swept, n))
        /\ SGood(Range(S!Taken(S!Swept, n)), S!live \union {b}, Range(s_chunks))
        /\ b \in S!Block /\ b \notin S!live
        /\ \A d \in S!live : Disjoint(S!BlockCells(b), S!BlockCells(d))
    BY <1>3, <1>4, <1>8, FitStep DEF b
  <2>4. /\ S!Promise!GStep /\ s_owned' = S!live \union {b}
        /\ s_roots' \subseteq s_owned' /\ s_temps' \subseteq s_owned'
    BY <1>3, <2>2, <2>3, SHandOutStep
  <2>5. STyped'
    BY <1>1, <1>2, <1>3, <1>8, <2>3, <2>4 DEF STyped
  <2>6. SGood(Range(s_free), s_owned, Range(s_chunks) \ s_dead)'
    <3>1. Range(s_chunks) \ {} = Range(s_chunks)
      OBVIOUS
    <3>. QED
      BY <1>1, <1>3, <1>8, <2>3, <2>4, <3>1
  <2>. QED
    BY <1>6, <2>4, <2>5, <2>6 DEF SSound
<1>9. ASSUME NEW c, Grows(c) PROVE SSound' /\ S!Promise!GStep
  <2>. DEFINE r == [at |-> S!Base(c), n |-> S!CS]
              fl == grown(c)
              b == Given(fl, s_want)
              C == Range(s_chunks) \union {c}
  <2>1. c \in S!Chunks /\ c \notin Range(s_chunks) /\ s_want \in Requests
    BY <1>9
  <2>2. n \in Nat /\ 1 <= n /\ n <= S!CS /\ S!CS \in Nat
    BY <2>1, RoundIs
  <2>3. r \in Runs /\ r.n = S!CS
    BY <2>1, <2>2, SBases DEF Runs
  <2>4. fl = <<r>> \o S!Swept
    BY DEF S!newChunk
  <2>5. r = [at |-> S!Base(c), n |-> S!CS]
    OBVIOUS
  <2>7. S!HandOut(S!live, b) /\ s_free' = S!Taken(fl, n)
    BY <1>9
  <2>. HIDE DEF r, fl, b
  <2>8. SGood(Range(S!Swept) \union {r}, S!live, C) /\ r \notin Range(S!Swept)
    <3>1. c \in S!Chunks \ Range(s_chunks) /\ 1 <= S!CS
      BY <2>1, <2>2
    <3>. QED
      BY <1>3, <1>4, <2>5, <3>1, GoodChunk
  <2>9. /\ fl \in Seq(Runs) /\ IsInjective(fl)
        /\ Range(fl) = Range(S!Swept) \union {r}
    BY <1>3, <2>3, <2>4, <2>8, InFront
  <2>10. S!Fit(fl, n) > 0
    <3>. DEFINE I == {i \in 1 .. Len(fl) : fl[i].n >= n}
    <3>1. S!Fit(fl, n) = IF I # {} THEN S!Min(I) ELSE 0
      BY DEF S!Fit, S!SelectInSeq
    <3>2. Len(fl) \in Nat /\ 1 <= Len(fl) /\ fl[1] = r
      BY <1>3, <2>3, <2>4
    <3>3. 1 \in I
      BY <2>2, <2>3, <3>2
    <3>4. \E x \in I : \A y \in I : x <= y
      BY <3>3, Least
    <3>5. S!Min(I) \in I
      BY <3>4 DEF S!Min
    <3>. QED
      BY <3>1, <3>3, <3>5
  <2>11. C \in SUBSET S!Chunks
    BY <1>4, <2>1
  <2>. HIDE DEF C
  <2>6. SGood(Range(fl), S!live, C)
    BY <2>8, <2>9
  <2>12. /\ S!Taken(fl, n) \in Seq(Runs) /\ IsInjective(S!Taken(fl, n))
         /\ SGood(Range(S!Taken(fl, n)), S!live \union {b}, C)
         /\ b \in S!Block /\ b \notin S!live
         /\ \A d \in S!live : Disjoint(S!BlockCells(b), S!BlockCells(d))
    BY <2>1, <2>6, <2>9, <2>10, <2>11, FitStep DEF b
  <2>13. /\ S!Promise!GStep /\ s_owned' = S!live \union {b}
         /\ s_roots' \subseteq s_owned' /\ s_temps' \subseteq s_owned'
    BY <1>3, <2>7, <2>12, SHandOutStep
  <2>14. /\ s_chunks' \in Seq(S!Chunks) /\ IsInjective(s_chunks')
         /\ Range(s_chunks') = C
    <3>1. s_chunks' = <<c>> \o s_chunks
      BY <1>9
    <3>. QED
      BY <1>2, <2>1, <3>1, InFront DEF STyped, C
  <2>15. STyped'
    BY <1>1, <1>3, <2>7, <2>12, <2>13, <2>14 DEF STyped
  <2>16. SGood(Range(s_free), s_owned, Range(s_chunks) \ s_dead)'
    <3>1. C \ {} = C
      OBVIOUS
    <3>. QED
      BY <1>1, <1>3, <2>7, <2>12, <2>13, <2>14, <3>1
  <2>. QED
    BY <1>6, <2>13, <2>15, <2>16 DEF SSound
<1>. HIDE DEF Quiet, Serves, Grows
<1>. QED
  BY <1>5, <1>7, <1>8, <1>9

\* clear() leaves no memory to cut, and no block handed out.
LEMMA SClearStep ==
  ASSUME SSound, S!clear
  PROVE  SInv' /\ S!Promise!GStep
<1>1. /\ s_phase = "run"
      /\ s_failure' = "none" \/ (s_failure' = "deleted" /\ s_dead' # {})
      /\ s_dead' = s_dead \union Range(s_chunks)
      /\ s_free' = <<>> /\ s_roots' = {} /\ s_temps' = {} /\ s_owned' = {}
      /\ s_chunks' = s_chunks /\ s_phase' = s_phase /\ s_want' = s_want
      /\ s_bits' = s_bits /\ s_parity' = s_parity
  BY SimpleOps DEF S!clear
<1>2. STyped
  BY DEF SSound
<1>3. s_dead' = Range(s_chunks)
  BY <1>1, <1>2 DEF STyped
<1>4. [at |-> 0, n |-> 0] \in Runs
  BY DEF Runs
<1>5. <<>> \in Seq(Runs) /\ IsInjective(<<>>) /\ Range(<<>>) = {}
  BY <1>4, AtMostOne
<1>6. STyped'
  BY <1>1, <1>2, <1>3, <1>5 DEF STyped
<1>7. SGood({}, {}, {})
  BY DEF SGood, FreeGood, OwnedGood, NothingShared, NothingLost
<1>8. SGood(Range(s_free), s_owned, Range(s_chunks) \ s_dead)'
  <2>1. Range(s_chunks) \ Range(s_chunks) = {}
    OBVIOUS
  <2>. QED
    BY <1>1, <1>3, <1>5, <1>7, <2>1
<1>9. SMarked'
  BY <1>1 DEF SMarked
<1>10. S!Promise!GClean
  BY <1>1 DEF S!Promise!GClean, S!live
<1>. QED
  BY <1>1, <1>6, <1>8, <1>9, <1>10 DEF SInv, SSound, S!Promise!GStep, S!Promise!GNext

\* The application moves or forgets a block.
LEMMA SKeepStep ==
  ASSUME SSound, NEW b \in S!live, S!Link(b) \/ S!Drop(b)
  PROVE  SInv' /\ S!Promise!GStep
<1>1. /\ s_phase = "run" /\ s_failure' = "none"
      /\ s_chunks' = s_chunks /\ s_free' = s_free /\ s_phase' = s_phase
      /\ s_want' = s_want /\ s_dead' = s_dead /\ s_owned' = s_owned /\ s_parity' = s_parity
      /\ s_temps' = s_temps \ {b}
      /\ s_roots' = s_roots \union {b} \/ s_roots' = s_roots \ {b}
  BY DEF S!Link, S!Drop
<1>2. b \in s_owned
  BY DEF SSound, STyped, S!live
<1>3. STyped' /\ SMarked'
  BY <1>1, <1>2 DEF SSound, STyped, SMarked
<1>4. SGood(Range(s_free), s_owned, Range(s_chunks) \ s_dead)'
  BY <1>1 DEF SSound
<1>5. (S!live)' \subseteq S!live
  BY <1>1 DEF S!live
<1>6. S!Promise!GDrop
  BY <1>1, <1>5 DEF S!Promise!GDrop
<1>. QED
  BY <1>1, <1>3, <1>4, <1>6 DEF SInv, SSound, S!Promise!GStep, S!Promise!GNext

\* What a step does: the invariant goes on, and the application sees nothing
\* but the promise.
LEMMA SStep ==
  ASSUME S!Parameters, 0 \notin Requests, SInv, [S!Next]_S!vars
  PROVE  SInv' /\ S!Promise!GStep
<1>1. CASE UNCHANGED S!vars
  <2>1. SInv'
    BY <1>1 DEF SInv, SSound, STyped, SMarked, S!live, S!vars
  <2>2. S!Promise!GStep
    BY <1>1 DEF S!Promise!GStep, S!Promise!gcVars, S!live, S!vars
  <2>. QED
    BY <2>1, <2>2
<1>2. CASE s_failure # "none"
  <2>1. UNCHANGED S!vars
    BY <1>2 DEF S!Next, S!allocateFree, S!allocateGC, S!doGC, S!collection,
                S!CollectTemps, S!collect, S!endGC, S!clear, S!Halted, S!Link, S!Drop
  <2>. QED
    BY <1>1, <2>1
<1>3. CASE s_failure = "none" /\ S!Next
  <2>1. SSound
    BY <1>3 DEF SInv
  <2>2. ASSUME NEW s \in Requests, S!allocateFree(s) PROVE SInv' /\ S!Promise!GStep
    <3>1. SSound' /\ S!Promise!GStep /\ s_failure' = "none"
      BY <2>1, <2>2, SAllocStep
    <3>. QED
      BY <3>1 DEF SInv
  <2>3. ASSUME NEW s \in Requests, S!allocateGC(s) PROVE SInv' /\ S!Promise!GStep
    <3>1. /\ s_phase = "run" /\ S!beginGC(s)
          /\ UNCHANGED <<s_chunks, s_free, s_roots, s_temps, s_dead, s_owned, s_parity>>
      BY <2>3 DEF S!allocateGC
    <3>. QED
      BY <1>3, <2>1, <3>1, SBeginStep
  <2>4. ASSUME S!doGC PROVE SInv' /\ S!Promise!GStep
    <3>1. /\ s_phase = "run" /\ S!beginGC(S!NoSize)
          /\ UNCHANGED <<s_chunks, s_free, s_roots, s_temps, s_dead, s_owned, s_parity>>
      BY <2>4 DEF S!doGC
    <3>. QED
      BY <1>3, <2>1, <3>1, SBeginStep
  <2>5. ASSUME S!CollectTemps \/ S!collect PROVE SInv' /\ S!Promise!GStep
    BY <1>3, <2>1, <2>5, SMarkStep
  <2>6. ASSUME S!endGC PROVE SInv' /\ S!Promise!GStep
    BY <1>3, <2>1, <2>6, SEndStep
  <2>7. ASSUME S!clear PROVE SInv' /\ S!Promise!GStep
    BY <2>1, <2>7, SClearStep
  <2>8. ASSUME NEW b \in S!live, S!Link(b) \/ S!Drop(b) PROVE SInv' /\ S!Promise!GStep
    BY <2>1, <2>8, SKeepStep
  <2>9. ~S!Halted
    BY <1>3 DEF S!Halted
  <2>. QED
    BY <1>3, <2>2, <2>3, <2>4, <2>5, <2>6, <2>7, <2>8, <2>9 DEF S!Next, S!collection
<1>. QED
  BY <1>1, <1>2, <1>3

\* The invariant holds of the empty allocator ...
LEMMA SFirst == ASSUME S!SimpleGCInit PROVE SInv
<1>1. /\ s_chunks = <<>> /\ s_free = <<>> /\ s_roots = {} /\ s_temps = {} /\ s_phase = "run"
      /\ s_want = S!NoSize /\ s_dead = {} /\ s_failure = "none" /\ s_owned = {}
  BY DEF S!SimpleGCInit
<1>2. IsInjective(<<>>) /\ Range(<<>>) = {}
  BY AtMostOne, 0 \in Nat
<1>3. STyped /\ SMarked
  BY <1>1, <1>2 DEF STyped, SMarked
<1>4. SGood(Range(s_free), s_owned, Range(s_chunks) \ s_dead)
  BY <1>1, <1>2 DEF SGood, FreeGood, OwnedGood, NothingShared, NothingLost
<1>. QED
  BY <1>1, <1>3, <1>4 DEF SInv, SSound

\* ... and makes the memory exact.
LEMMA SExact == ASSUME SInv PROVE S!MemoryPartition
<1>. SUFFICES ASSUME s_dead = {}
              PROVE  /\ S!FreeCells \union S!OwnedCells = S!AllCells
                     /\ S!FreeCells \intersect S!OwnedCells = {}
                     /\ \A j, k \in DOMAIN s_free : j # k =>
                          S!Span(s_free[j].at, s_free[j].n)
                            \intersect S!Span(s_free[k].at, s_free[k].n) = {}
  BY DEF S!MemoryPartition
<1>. DEFINE F == Range(s_free)
            C == Range(s_chunks)
<1>1. STyped /\ SGood(F, s_owned, C)
  BY DEF SInv, SSound
<1>2. F = {s_free[k] : k \in 1 .. Len(s_free)} /\ DOMAIN s_free = 1 .. Len(s_free)
  BY <1>1, RangeEquality DEF STyped
<1>3. \A j, k \in 1 .. Len(s_free) : j # k => s_free[j] # s_free[k]
  BY <1>1 DEF STyped, IsInjective
<1>. HIDE DEF F
<1>4. \A x : x \in S!FreeCells <=> \E r \in F : x \in S!Span(r.at, r.n)
  BY <1>2 DEF S!FreeCells
<1>5. \A x : x \in S!OwnedCells <=> \E b \in s_owned : x \in S!BlockCells(b)
  BY DEF S!OwnedCells
<1>6. \A x : x \in S!AllCells <=> \E c \in C : x \in S!Extent(c)
  BY SimpleOps DEF S!AllCells
<1>. HIDE DEF C
<1>7. \A x \in S!FreeCells \union S!OwnedCells : x \in S!AllCells
  BY <1>1, <1>4, <1>5, <1>6 DEF SGood, FreeGood, OwnedGood
<1>8. \A x \in S!AllCells : x \in S!FreeCells \union S!OwnedCells
  BY <1>1, <1>4, <1>5, <1>6 DEF SGood, NothingLost
<1>9. S!FreeCells \intersect S!OwnedCells = {}
  BY <1>1, <1>4, <1>5 DEF SGood, NothingShared, Disjoint
<1>10. \A j, k \in 1 .. Len(s_free) : j # k =>
         S!Span(s_free[j].at, s_free[j].n) \intersect S!Span(s_free[k].at, s_free[k].n) = {}
  BY <1>1, <1>2, <1>3 DEF SGood, FreeGood, Disjoint
<1>. QED
  BY <1>2, <1>7, <1>8, <1>9, <1>10

\* SimpleGC keeps the promise of the cooperative collectors for every size of
\* granule and chunk and every request of a byte or more: allocFromFreeList()
\* gives memory that overlaps no block in use, and a collection takes back only
\* what neither collect() nor a Temp marks.
THEOREM SimpleGCKeepsPromise ==
  ASSUME S!Parameters, 0 \notin Requests
  PROVE  S!Spec => S!Promise!GSpec
<1>1. S!SimpleGCInit => SInv /\ S!Promise!GInit
  BY SFirst DEF S!SimpleGCInit, S!Promise!GInit, S!live
<1>2. SInv /\ [S!Next]_S!vars => SInv' /\ S!Promise!GStep
  BY SStep
<1>. QED
  BY <1>1, <1>2, PTL DEF S!Spec, S!Promise!GSpec, S!Promise!GStep, S!Promise!gcVars, S!live

\* Until clear(), the memory of the chunks is exactly the free list and the
\* blocks handed out, whatever was split, served and swept: no granule is lost,
\* used twice or free twice.
THEOREM SimpleGCMemoryExact ==
  ASSUME S!Parameters, 0 \notin Requests
  PROVE  S!Spec => []S!MemoryPartition
<1>1. S!SimpleGCInit => SInv
  BY SFirst
<1>2. SInv /\ [S!Next]_S!vars => SInv'
  BY SStep
<1>3. SInv => S!MemoryPartition
  BY SExact
<1>. QED
  BY <1>1, <1>2, <1>3, PTL DEF S!Spec

\* mark() finds the chunk of every block of a byte or more it is given: the
\* assertion that fails for a block of no byte fails for no other.
THEOREM SimpleGCMarks ==
  ASSUME S!Parameters, 0 \notin Requests
  PROVE  S!Spec => []S!MarkFindsChunk
<1>1. S!SimpleGCInit => SInv
  BY SFirst
<1>2. SInv /\ [S!Next]_S!vars => SInv'
  BY SStep
<1>3. SInv => S!MarkFindsChunk
  BY DEF SInv, S!MarkFindsChunk
<1>. QED
  BY <1>1, <1>2, <1>3, PTL DEF S!Spec
=============================================================================
