------------------------------ MODULE MCMemory ------------------------------
(***************************************************************************)
(* Finite instances of the garbage collectors, of the pointers that count  *)
(* and of the strings that share buffers.  A behaviour exercises one of    *)
(* them, chosen in the first state; the others stay as they were made.     *)
(***************************************************************************)
EXTENDS ListGC

CONSTANTS
  c1, c2, c3, None,   \* cells and the absence of one
  Subjects,           \* what the run exercises
  AnyToC              \* toCString() is called on any string, see Strings

VARIABLES
  subject,     \* what is exercised
  g_chunks, g_index, g_left, g_init, g_free_list, g_chunk_list, g_chunk_init,
  g_needGC, g_live, g_dead, g_failure, g_owned, g_parity,
  s_chunks, s_free, s_bits, s_roots, s_temps, s_phase, s_want, s_dead,
  s_failure, s_owned, s_parity,
  b_chunks, b_total, b_next, b_free_list, b_free_cnt, b_SYNC, b_NEED, b_live,
  b_owned, b_parity,
  c_at, c_cnt, c_obj, c_alive, c_used, c_broken,
  x_heap, x_str, x_val, x_last

gvars == <<g_chunks, g_index, g_left, g_init, g_free_list, g_chunk_list,
           g_chunk_init, g_needGC, g_live, g_dead, g_failure, g_owned, g_parity>>
svars == <<s_chunks, s_free, s_bits, s_roots, s_temps, s_phase, s_want, s_dead,
           s_failure, s_owned, s_parity>>
bvars == <<b_chunks, b_total, b_next, b_free_list, b_free_cnt, b_SYNC, b_NEED,
           b_live, b_owned, b_parity>>
cvars == <<c_at, c_cnt, c_obj, c_alive, c_used, c_broken>>
xvars == <<x_heap, x_str, x_val, x_last>>

\* Chunks of five granules, bins that divide them and bins that do not.
Grouped == INSTANCE GroupedGC
  WITH CS <- 5, Indexes <- {0, 2, 3, 5}, MaxIndex <- 5, MaxChunks <- 3,
       chunks <- g_chunks, index <- g_index, left <- g_left, init <- g_init,
       free_list <- g_free_list, chunk_list <- g_chunk_list,
       chunk_init <- g_chunk_init, needGC <- g_needGC, live <- g_live,
       dead <- g_dead, failure <- g_failure, owned <- g_owned,
       parity <- g_parity

\* Two chunks of three granules; requests of one, two and three granules.
Simple == INSTANCE SimpleGC
  WITH Granule <- 2, Size <- 6, Requests <- {1, 4, 5}, MaxChunks <- 2,
       chunks <- s_chunks, free <- s_free, bits <- s_bits, roots <- s_roots,
       temps <- s_temps, phase <- s_phase, want <- s_want, dead <- s_dead,
       failure <- s_failure, owned <- s_owned, parity <- s_parity

\* Two chunks of two blocks, collected only when needsCollect() asks for it.
Block == INSTANCE BlockAllocatorWithGC
  WITH PerChunk <- 2, MaxChunks <- 2, AnyTime <- FALSE,
       chunks <- b_chunks, total <- b_total, next <- b_next,
       free_list <- b_free_list, free_cnt <- b_free_cnt, SYNC <- b_SYNC,
       NEED <- b_NEED, live <- b_live, owned <- b_owned, parity <- b_parity

\* Two variables and three objects that hold a pointer each, with counters
\* of their own or in the objects.
Shared == INSTANCE CountedPtr
  WITH Vars <- {"x", "y"}, Objects <- {"o1", "o2", "o3"}, None <- None,
       Intrusive <- FALSE, Cells <- {c1, c2, c3}, Careful <- TRUE,
       at <- c_at, cnt <- c_cnt, obj <- c_obj, alive <- c_alive,
       used <- c_used, broken <- c_broken
Lock == INSTANCE CountedPtr
  WITH Vars <- {"x", "y"}, Objects <- {"o1", "o2", "o3"}, None <- None,
       Intrusive <- TRUE, Cells <- {"o1", "o2", "o3"}, Careful <- TRUE,
       at <- c_at, cnt <- c_cnt, obj <- c_obj, alive <- c_alive,
       used <- c_used, broken <- c_broken

\* Two strings, of which one may be a part of the other, and texts with a
\* blank (3) at the start and with a pattern that comes twice.
Text == INSTANCE Strings
  WITH Vars <- {"x", "y"}, Texts <- {<<>>, <<3, 1, 2>>, <<1, 2, 1>>},
       Patterns <- {<<1>>, <<1, 2>>}, Blank <- 3, UseMod <- 8, MaxLen <- 3,
       Careful <- ~AnyToC,
       heap <- x_heap, str <- x_str, val <- x_val, last <- x_last

ASSUME MemoryAssumption ==
  /\ Grouped!Parameters /\ Simple!Parameters /\ Block!Parameters
  /\ Shared!Parameters /\ Lock!Parameters /\ Text!Parameters

mcvars == <<subject, vars, gvars, svars, bvars, cvars, xvars>>

MCInit ==
  /\ subject \in Subjects
  /\ ListGCInit /\ Grouped!GroupedGCInit /\ Simple!SimpleGCInit /\ Block!Init
  /\ IF subject = "lock" THEN Lock!Init ELSE Shared!Init
  /\ Text!Init

MCNext ==
  \/ /\ subject = "list" /\ Next
     /\ UNCHANGED <<subject, gvars, svars, bvars, cvars, xvars>>
  \/ /\ subject = "grouped" /\ Grouped!Next
     /\ UNCHANGED <<subject, vars, svars, bvars, cvars, xvars>>
  \/ /\ subject = "simple" /\ Simple!Next
     /\ UNCHANGED <<subject, vars, gvars, bvars, cvars, xvars>>
  \/ /\ subject = "block" /\ Block!Next
     /\ UNCHANGED <<subject, vars, gvars, svars, cvars, xvars>>
  \/ /\ subject = "shared" /\ Shared!Next
     /\ UNCHANGED <<subject, vars, gvars, svars, bvars, xvars>>
  \/ /\ subject = "lock" /\ Lock!Next
     /\ UNCHANGED <<subject, vars, gvars, svars, bvars, xvars>>
  \/ /\ subject = "strings" /\ Text!Next
     /\ UNCHANGED <<subject, vars, gvars, svars, bvars, cvars>>

MCSpec ==
  MCInit /\ [][MCNext]_mcvars /\ (subject = "list" => Fairness)

-----------------------------------------------------------------------------
(* What is checked besides the properties of ListGC, see the modules.       *)

\* No collector hands out, overwrites or deletes a block that is alive: not
\* ListGC's sweep, the free lists GroupedGC::endGC() and SimpleGC::endGC()
\* rebuild, nor BlockAllocatorWithGC::collectGarbage().
CollectorsKeepPromise ==
  /\ Promise!GInit /\ [][subject = "list" => Promise!GStep]_vars
  /\ Grouped!Promise!GInit /\ [][subject = "grouped" => Grouped!Promise!GStep]_gvars
  /\ Simple!Promise!GInit /\ [][subject = "simple" => Simple!Promise!GStep]_svars
  /\ Block!Promise!GInit /\ [][subject = "block" => Block!Promise!GStep]_bvars

\* The memory not handed out is exactly what the collectors can still give:
\* the chunks of GroupedGC are cut in blocks of their bin, as its assertions
\* say, those of SimpleGC are the free runs and the blocks in use, and the
\* free list of BlockAllocatorWithGC threads every block not handed out, and
\* is empty when needsCollect() asks for a collection.
FreeMemoryExact ==
  /\ subject = "grouped" => Grouped!AssertionsHold /\ Grouped!BinsExact
  /\ subject = "simple" => Simple!MemoryPartition
  /\ subject = "block" => Block!FreeListExact /\ Block!NeedIsSafe

\* SharedPtr, LockPtr and String: a counter is the number of the pointers or
\* strings on its object, and an object lives exactly as long as it is pointed
\* to, although a deletion releases the pointers of the object in turn.  What
\* is done with a string changes no string that shares its buffer.
PointersExact ==
  /\ subject = "shared" => Shared!CountExact /\ Shared!AliveIffUsed
  /\ subject = "lock" => Lock!CountExact /\ Lock!AliveIffUsed
  /\ subject = "strings" => Text!StringsAreValues /\ Text!UseIsExact /\ Text!FoundInValue

\* A string is an immutable value: toCString(), which String::toc() implements,
\* only sees to the '\0' that ends it.
StringsKeepValues ==
  subject = "strings" => Text!StringsAreValues
=============================================================================
