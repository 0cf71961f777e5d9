------------------------------- MODULE MCData -------------------------------
(***************************************************************************)
(* Finite instances of the vectors of bits, of the linked lists and of the *)
(* growing arrays.  A behaviour uses two containers of one kind, chosen in *)
(* the first state.                                                        *)
(***************************************************************************)
EXTENDS BitVector

CONSTANT Subjects     \* the kinds of containers

VARIABLES
  subject,
  w_vec, w_ref, w_mem,
  l_kind, l_m, l_op, l_it, l_j, l_ref, l_at, l_leaked,
  v_kind, v_h, v_frag, v_stack, v_ref, v_bad

wvars == <<w_vec, w_ref, w_mem>>
lvars == <<l_kind, l_m, l_op, l_it, l_j, l_ref, l_at, l_leaked>>
vvars == <<v_kind, v_h, v_frag, v_stack, v_ref, v_bad>>

\* Seven bits in words of three: two whole words and a part of one.
Ragged == INSTANCE WAHVector
  WITH W <- 3, N <- 7, Avoid <- {"fix", "make", "all"},
       vec <- w_vec, ref <- w_ref, mem <- w_mem

\* Six bits, two whole words: the only case where the maker functions are used.
Whole == INSTANCE WAHVector
  WITH W <- 3, N <- 6, Avoid <- {"fix", "make", "all"},
       vec <- w_vec, ref <- w_ref, mem <- w_mem

\* Four bits in a word of five: no whole word.
OneWord == INSTANCE WAHVector
  WITH W <- 5, N <- 4, Avoid <- {"fix", "make", "all"},
       vec <- w_vec, ref <- w_ref, mem <- w_mem

\* Two lists that share three or four nodes: one long list, or two short ones.
Lists == INSTANCE Lists
  WITH Kinds <- {"list", "sorted", "set", "map", "queue", "bidi"},
       Limit <- [list |-> 3, sorted |-> 4, set |-> 4, map |-> 4, queue |-> 4, bidi |-> 3],
       Keys <- [list |-> {1, 2}, sorted |-> {1, 2}, set |-> {1, 2, 3}, map |-> {1, 2},
                queue |-> {1, 2}, bidi |-> {1, 2}],
       Data <- {1, 2},
       kind <- l_kind, m <- l_m, op <- l_op, it <- l_it, j <- l_j, ref <- l_ref,
       at <- l_at, leaked <- l_leaked

\* Vectors that grow at the second item, a table of three pages of two items.
\* The items that setLength() and alloc() uncover are a second value.
Tables == INSTANCE Vectors
  WITH Kinds <- {"vector", "frag", "anyfrag", "stack"},
       Values <- [vector |-> {"x"}, frag |-> {"x", "y"}, anyfrag |-> {"x", "y"},
                  stack |-> {"x", "y"}],
       MaxLen <- [vector |-> 2, frag |-> 5, anyfrag |-> 5, stack |-> 3],
       FirstCap <- 1, PageSize <- 2, StackSize <- 3, Buffers <- 1 .. 4,
       kind <- v_kind, h <- v_h, frag <- v_frag, stack <- v_stack, ref <- v_ref,
       bad <- v_bad

ASSUME DataAssumption ==
  /\ Ragged!Parameters /\ Whole!Parameters /\ OneWord!Parameters
  /\ Lists!Parameters /\ Tables!Parameters

mcvars == <<subject, vars, wvars, lvars, vvars>>

\* A component that is not exercised has one initial state.
MCInit ==
  /\ subject \in Subjects
  /\ l_kind \in IF subject = "lists" THEN {"list", "sorted", "set", "map", "queue", "bidi"}
                ELSE {"list"}
  /\ v_kind \in CASE subject = "vectors" -> {"vector", "frag", "stack"}
                  [] subject = "anyfrag" -> {"anyfrag"}
                  [] OTHER -> {"stack"}
  /\ Init /\ Lists!Init /\ Tables!Init
  /\ CASE subject = "whole" -> Whole!Init
       [] subject = "word"  -> OneWord!Init
       [] OTHER             -> Ragged!Init
  /\ subject \in {"ragged", "whole", "word"} \/ w_ref["a"] = {}

MCNext ==
  \/ subject = "plain" /\ Next /\ UNCHANGED <<subject, wvars, lvars, vvars>>
  \/ subject = "ragged" /\ Ragged!Next /\ UNCHANGED <<subject, vars, lvars, vvars>>
  \/ subject = "whole" /\ Whole!Next /\ UNCHANGED <<subject, vars, lvars, vvars>>
  \/ subject = "word" /\ OneWord!Next /\ UNCHANGED <<subject, vars, lvars, vvars>>
  \/ subject = "lists" /\ Lists!Next /\ UNCHANGED <<subject, vars, wvars, vvars>>
  \/ /\ subject \in {"vectors", "anyfrag"} /\ Tables!Next
     /\ UNCHANGED <<subject, vars, wvars, lvars>>

MCSpec == MCInit /\ [][MCNext]_mcvars

-----------------------------------------------------------------------------
(* What is checked besides the properties of BitVector.                     *)

\* WAHVector: bit() is what the operations make of each bit, whatever fills
\* are split and joined; size() and countOnes() do not count the unused bits;
\* the form of a vector does not depend on how it was made, so that equals(),
\* which compares words, compares the bits; includes() is the inclusion.
WahExact ==
  /\ subject = "ragged" =>
       /\ Ragged!BitIsMember
       /\ Ragged!CountsExact /\ Ragged!EqualsIsEquality /\ Ragged!IncludesIsSubset
  /\ subject = "whole" => Whole!BitIsMember /\ Whole!EqualsIsEquality
  /\ subject = "word" => OneWord!BitIsMember /\ OneWord!CountsExact

\* List, SortedList, ListSet, ListMap, ListQueue, BiDiList: whatever was added,
\* removed, copied, merged or changed through an iterator, a list holds the
\* items asked for in their order, searches that stop early miss none, both
\* directions and both ends of a list agree.
ListsExact ==
  subject = "lists" => Lists!ItemsExact /\ Lists!EndsExact /\ Lists!SearchesExact

\* The nodes of the lists: none is shared, none is lost but by BiDiList::remove(),
\* and no iterator, PrecIter and those of join(), meet() and diff() included,
\* stands on a node that was freed.
ListNodesExact == subject = "lists" => Lists!NodesExact /\ Lists!IteratorsLive

\* Vector, AllocArray, FragTable, StaticStack: the items are those asked for,
\* no write goes outside of a table or a page, and a table has one owner, also
\* when it is detached.
VectorsExact ==
  subject = "vectors" =>
    /\ Tables!WritesInside /\ Tables!BuffersExact /\ Tables!ItemsExact
    /\ Tables!StackSearch

\* FragTable::add(), "Add an item to the table" (src/data_FragTable.cpp:130):
\* after any calls, insert() and alloc() that fill a page included, the item is
\* written in the table.
AddedIsThere == subject = "anyfrag" => Tables!AddedIsThere
=============================================================================
