--------------------------- MODULE CooperativeGC ---------------------------
(***************************************************************************)
(* What every cooperative garbage collector of ELM promises to the         *)
(* application (include/elm/alloc/AbstractGC.h and the classes SimpleGC,   *)
(* GroupedGC and BlockAllocatorWithGC): allocate() hands out memory that   *)
(* overlaps no block the application still uses, and memory goes back to   *)
(* the collector only when the application no longer uses it.              *)
(***************************************************************************)
EXTENDS Integers

CONSTANTS
  Blocks,    \* the blocks allocate() can return
  Cells(_)   \* Cells(b): the memory a block occupies

VARIABLES
  live,      \* blocks the application uses and would mark in collect()
  owned,     \* blocks handed out and not taken back by the collector
  parity     \* parity of the number of blocks handed out: no grant stutters

gcVars == <<live, owned, parity>>

GInit == live = {} /\ owned = {} /\ parity = 0

\* The collector takes back blocks, but none the application uses.
TakesBack(kept) == kept \subseteq owned /\ live \subseteq kept

\* allocate() returns memory disjoint from every block still handed out;
\* before, a cycle may have taken blocks back.
GAlloc(b) ==
  LET kept == owned' \ {b} IN
  /\ TakesBack(kept)
  /\ \A c \in kept : Cells(b) \intersect Cells(c) = {}
  /\ b \in owned'
  /\ live' = live \union {b}
  /\ parity' = 1 - parity

\* The application forgets blocks.
GDrop == live' \subseteq live /\ UNCHANGED <<owned, parity>>

\* A cycle takes back blocks the application has forgotten.
GReclaim == TakesBack(owned') /\ UNCHANGED <<live, parity>>

\* clean() or clear(): everything is released, with the application's consent.
GClean == live' = {} /\ owned' = {} /\ UNCHANGED parity

GNext == \/ \E b \in Blocks \intersect live' : GAlloc(b)
         \/ GDrop \/ GReclaim \/ GClean

\* A step the application sees, or one it does not.
GStep == [GNext]_gcVars

GSpec == GInit /\ [][GNext]_gcVars
=============================================================================
