------------------------------- MODULE ListGC -------------------------------
(***************************************************************************)
(* elm::ListGC (include/elm/alloc/ListGC.h, src/alloc_ListGC.cpp): a       *)
(* cooperative mark-and-sweep collector that chains its blocks through     *)
(* their header and keeps the mark in the lowest bit of the next pointer.  *)
(*                                                                         *)
(* A cycle calls the application back: GCManager::collect() marks the      *)
(* living blocks one by one and GCManager::clean() is called for each      *)
(* block before it is freed, so that a cycle is several steps.             *)
(***************************************************************************)
EXTENDS Integers, FiniteSets

CONSTANTS
  Blocks,      \* addresses the heap can give
  Null,        \* the null pointer
  Limit,       \* argument limit of the constructor
  MaxAllocs    \* bound on the number of allocations

ASSUME BlocksAssumption == Null \notin Blocks
ASSUME LimitAssumption  == Limit \in Nat
ASSUME BoundAssumption  == MaxAllocs \in Nat

VARIABLES
  head, next,  \* the list of blocks (the pointer part of next)
  tag,         \* the mark bit of each block
  cnt, lcnt,   \* number of blocks: now, at the end of the last cycle
  lim, dis,    \* current limit, automatic cycles disabled
  phase,       \* "run", or inside runGC(): "mark" then "sweep"
  fresh,       \* the block allocate() is about to return, if any
  p, q,        \* sweep: current block, block whose next is to be patched
  heap,        \* history: addresses allocated from the heap and not deleted
  live,        \* history: blocks the application uses
  stamp, clock,\* history: allocation order
  kept         \* history: blocks marked in this cycle

listVars == <<head, next, tag, cnt, lcnt, lim, dis>>
gcState  == <<phase, fresh, p, q>>
history  == <<heap, live, stamp, clock, kept>>
vars == <<listVars, gcState, history>>

-----------------------------------------------------------------------------
\* The constructor.
ListGCInit ==
  /\ head = Null /\ next = [b \in Blocks |-> Null]
  /\ tag = [b \in Blocks |-> FALSE]
  /\ cnt = 0 /\ lcnt = 0 /\ lim = Limit /\ dis = FALSE
  /\ phase = "run" /\ fresh = Null /\ p = Null /\ q = Null
  /\ heap = {} /\ live = {} /\ kept = {}
  /\ stamp = [b \in Blocks |-> 0] /\ clock = 0

gcNeeded(n, disabled) == ~disabled /\ n - lcnt > lim

\* Mutant: the new block is not marked before the cycle.
allocateUnmarked(b) ==
  /\ phase = "run" /\ clock < MaxAllocs
  /\ b \in Blocks \ heap
  /\ next' = [next EXCEPT ![b] = head]
  /\ head' = b
  /\ cnt' = cnt + 1
  /\ heap' = heap \union {b}
  /\ clock' = clock + 1
  /\ stamp' = [stamp EXCEPT ![b] = clock + 1]
  /\ IF gcNeeded(cnt + 1, dis)
     THEN /\ lim' = 2 * lim
          /\ tag' = [tag EXCEPT ![b] = FALSE]
          /\ phase' = "mark" /\ fresh' = b /\ kept' = {}
          /\ UNCHANGED live
     ELSE /\ live' = live \union {b}
          /\ tag' = [tag EXCEPT ![b] = FALSE]
          /\ UNCHANGED <<lim, phase, fresh, kept>>
  /\ UNCHANGED <<lcnt, dis, p, q>>

\* A block is chained in front; when too many were allocated since the last
\* cycle it is marked, as nobody knows it yet, and a cycle starts.
allocate(b) ==
  /\ phase = "run" /\ clock < MaxAllocs
  /\ b \in Blocks \ heap
  /\ next' = [next EXCEPT ![b] = head]
  /\ head' = b
  /\ cnt' = cnt + 1
  /\ heap' = heap \union {b}
  /\ clock' = clock + 1
  /\ stamp' = [stamp EXCEPT ![b] = clock + 1]
  /\ IF gcNeeded(cnt + 1, dis)
     THEN /\ lim' = 2 * lim
          /\ tag' = [tag EXCEPT ![b] = TRUE]
          /\ phase' = "mark" /\ fresh' = b /\ kept' = {b}
          /\ UNCHANGED live
     ELSE /\ live' = live \union {b}
          /\ tag' = [tag EXCEPT ![b] = FALSE]
          /\ UNCHANGED <<lim, phase, fresh, kept>>
  /\ UNCHANGED <<lcnt, dis, p, q>>

\* runGC() called by the application.
runGC ==
  /\ phase = "run"
  /\ phase' = "mark" /\ kept' = {}
  /\ UNCHANGED <<listVars, fresh, p, q, heap, live, stamp, clock>>

\* mark(), called by GCManager::collect() for a living block.
mark(b) ==
  /\ phase = "mark" /\ b \in live
  /\ tag' = [tag EXCEPT ![b] = TRUE]
  /\ kept' = kept \union {b}
  /\ UNCHANGED <<head, next, cnt, lcnt, lim, dis, gcState, heap, live,
                 stamp, clock>>

\* collect() returns after every living block was marked.
SweepStart ==
  /\ phase = "mark" /\ live \subseteq kept
  /\ phase' = "sweep" /\ p' = head /\ q' = Null
  /\ UNCHANGED <<listVars, fresh, history>>

\* Mutant: the loop does not move to the next block.
SweepKeepStuck ==
  /\ phase = "sweep" /\ p # Null /\ tag[p]
  /\ q' = p
  /\ UNCHANGED <<head, next, tag, cnt, lcnt, lim, dis, p, phase, fresh, history>>

\* A marked block is unmarked and skipped.
SweepKeep ==
  /\ phase = "sweep" /\ p # Null /\ tag[p]
  /\ tag' = [tag EXCEPT ![p] = FALSE]
  /\ q' = p /\ p' = next[p]
  /\ UNCHANGED <<head, next, cnt, lcnt, lim, dis, phase, fresh, history>>

\* Mutant: the block is deleted but stays in the chain.
SweepFreeUnlinked ==
  /\ phase = "sweep" /\ p # Null /\ ~tag[p]
  /\ p' = next[p]
  /\ cnt' = cnt - 1
  /\ heap' = heap \ {p}
  /\ UNCHANGED <<head, next, tag, lcnt, lim, dis, phase, fresh, q, live, stamp,
                 clock, kept>>

\* Mutant: the counter is not decremented.
SweepFreeUncounted ==
  /\ phase = "sweep" /\ p # Null /\ ~tag[p]
  /\ head' = IF q = Null THEN next[p] ELSE head
  /\ next' = IF q = Null THEN next ELSE [next EXCEPT ![q] = next[p]]
  /\ p' = next[p]
  /\ heap' = heap \ {p}
  /\ UNCHANGED <<tag, cnt, lcnt, lim, dis, phase, fresh, q, live, stamp, clock,
                 kept>>

\* An unmarked block is unlinked, cleaned and deleted.
SweepFree ==
  /\ phase = "sweep" /\ p # Null /\ ~tag[p]
  /\ head' = IF q = Null THEN next[p] ELSE head
  /\ next' = IF q = Null THEN next ELSE [next EXCEPT ![q] = next[p]]
  /\ p' = next[p]
  /\ cnt' = cnt - 1
  /\ heap' = heap \ {p}
  /\ UNCHANGED <<tag, lcnt, lim, dis, phase, fresh, q, live, stamp, clock, kept>>

\* End of runGC(); allocate() returns its block if it started the cycle.
SweepEnd ==
  /\ phase = "sweep" /\ p = Null
  /\ lcnt' = cnt
  /\ phase' = "run"
  /\ fresh' = Null
  /\ live' = IF fresh = Null THEN live ELSE live \union {fresh}
  /\ UNCHANGED <<head, next, tag, cnt, lim, dis, p, q, heap, stamp, clock, kept>>

disable ==
  /\ phase = "run" /\ dis' = TRUE
  /\ UNCHANGED <<head, next, tag, cnt, lcnt, lim, gcState, history>>

\* enable() runs a cycle at once when one is due.
enable ==
  /\ phase = "run" /\ dis' = FALSE
  /\ IF gcNeeded(cnt, FALSE)
     THEN phase' = "mark" /\ kept' = {}
     ELSE UNCHANGED <<phase, kept>>
  /\ UNCHANGED <<head, next, tag, cnt, lcnt, lim, fresh, p, q, heap, live,
                 stamp, clock>>

\* clean(), also called by the destructor: every block of the list is
\* cleaned and deleted.
clean ==
  /\ phase = "run"
  /\ heap' = {} /\ live' = {}
  /\ head' = Null /\ cnt' = 0 /\ lcnt' = 0
  /\ UNCHANGED <<next, tag, lim, dis, gcState, stamp, clock, kept>>

\* The application forgets a block, on its own or in the clean() callback.
Drop(b) ==
  /\ phase = "run" \/ (phase = "sweep" /\ p # Null /\ ~tag[p])
  /\ b \in live
  /\ live' = live \ {b}
  /\ UNCHANGED <<listVars, gcState, heap, stamp, clock, kept>>

cycle == \/ \E b \in Blocks : mark(b)
         \/ SweepStart \/ SweepKeep \/ SweepFree \/ SweepEnd

Next ==
  \/ \E b \in Blocks : allocate(b) \/ Drop(b)
  \/ runGC \/ cycle \/ disable \/ enable \/ clean

Spec == ListGCInit /\ [][Next]_vars

\* The collector's own loops end, and collect() marks every living block.
Fairness == WF_vars(cycle /\ vars' # vars)

FairSpec == Spec /\ Fairness

-----------------------------------------------------------------------------
(* Properties.                                                              *)

\* Type correctness of the fields of the collector.
TypeOK ==
  /\ head \in Blocks \union {Null}
  /\ next \in [Blocks -> Blocks \union {Null}]
  /\ tag \in [Blocks -> BOOLEAN]
  /\ cnt \in Nat /\ lcnt \in Nat /\ lim \in Nat /\ dis \in BOOLEAN
  /\ phase \in {"run", "mark", "sweep"}
  /\ {fresh, p, q} \subseteq Blocks \union {Null}
  /\ heap \subseteq Blocks /\ live \subseteq Blocks /\ kept \subseteq Blocks
  /\ stamp \in [Blocks -> Nat] /\ clock \in Nat

\* No block the application uses, or is about to receive from allocate(),
\* is ever deleted by a cycle.
LiveKept == live \subseteq heap /\ (fresh # Null => fresh \in heap)

\* When runGC() is over every block it did not mark is deleted, every
\* surviving block is unmarked again and the counter is exact.
CycleComplete ==
  [][SweepEnd => /\ heap = kept
                 /\ \A b \in heap : ~tag[b]
                 /\ cnt = Cardinality(heap)]_vars

\* Between two cycles the list threads exactly the blocks of the heap, from
\* the newest to the oldest, and none of them carries a mark.
OldestAfter(b) == {c \in heap : stamp[c] < stamp[b]}

ChainExact ==
  phase = "run" =>
    /\ head = Null <=> heap = {}
    /\ head # Null => head \in heap /\ \A b \in heap : stamp[b] <= stamp[head]
    /\ \A b \in heap : ~tag[b]
    /\ \A b \in heap :
         IF next[b] = Null THEN OldestAfter(b) = {}
         ELSE /\ next[b] \in OldestAfter(b)
              /\ \A c \in OldestAfter(b) : stamp[c] <= stamp[next[b]]

\* What the application sees is the promise of module CooperativeGC.
Promise == INSTANCE CooperativeGC
  WITH Cells <- LAMBDA b : {b},
       owned <- IF fresh = Null THEN heap ELSE heap \ {fresh},
       parity <- (IF fresh = Null THEN clock ELSE clock - 1) % 2

\* Every cycle ends, and with it the allocate() that started it.
CycleEnds == phase # "run" ~> phase = "run"

-----------------------------------------------------------------------------
(* What the documentation says and the code does not do.                    *)

\* "The GC is automatically triggered when the difference of the number of
\* allocated object since the last GC cycle is bigger than a configuration
\* limit": with automatic cycles enabled the difference stays under Limit.
GarbageBounded == phase = "run" /\ ~dis => cnt - lcnt <= Limit

\* clean() will "reset it to its initial state": the limit is the configured
\* one again.
CleanResets == [][clean => lim' = Limit]_vars
=============================================================================
