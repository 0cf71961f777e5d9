---------------------------- MODULE MCContainers ----------------------------
(***************************************************************************)
(* Finite instances of the containers, each compared with the abstract     *)
(* collection it stands for.  A behaviour exercises one of them, chosen in *)
(* the first state; the others stay empty.                                 *)
(***************************************************************************)
EXTENDS VectorQueue

CONSTANTS Nil, NoItem   \* null pointers

VARIABLES
  subject,                   \* the container that is exercised
  a_tree, a_cnt, a_last,     \* AVL tree
  e_tree, e_cnt, e_last,     \* AVL sets
  h_tab, h_it, h_last,       \* hash tables
  m_tab, m_it, m_last,       \* hash map
  b_head, b_ret,             \* binomial queue
  t_kind, t_segs, t_marks, t_nodes, t_room, t_root,   \* segment tree
  r_kind, r_tree, r_log, r_twisted, r_freed, r_first, r_sib, r_kids   \* other trees

avars == <<a_tree, a_cnt, a_last>>
evars == <<e_tree, e_cnt, e_last>>
hvars == <<h_tab, h_it, h_last>>
mvars == <<m_tab, m_it, m_last>>
bvars == <<b_head, b_ret>>
tvars == <<t_kind, t_segs, t_marks, t_nodes, t_room, t_root>>
rvars == <<r_kind, r_tree, r_log, r_twisted, r_freed, r_first, r_sib, r_kids>>

\* One tree with enough keys for every rotation of a removal; two small sets.
OneTree == INSTANCE AVLTree
  WITH Ids <- {1}, Keys <- 1 .. 8, Vals <- {0}, Nil <- Nil, NoItem <- NoItem,
       IsMap <- FALSE, tree <- a_tree, cnt <- a_cnt, last <- a_last
TwoSets == INSTANCE AVLTree
  WITH Ids <- {1, 2}, Keys <- 1 .. 4, Vals <- {0}, Nil <- Nil,
       NoItem <- NoItem, IsMap <- FALSE,
       tree <- e_tree, cnt <- e_cnt, last <- e_last

\* Two tables of two chains and one chain; one map whose loops are disturbed.
TwoTables == INSTANCE HashTable
  WITH Ids <- {1, 2}, Keys <- {1, 2, 3}, Vals <- {0}, NoItem <- NoItem,
       Size <- <<2, 1>>, Hash <- [k \in {1, 2, 3} |-> k], Interfere <- FALSE,
       tab <- h_tab, it <- h_it, last <- h_last
OneMap == INSTANCE HashTable
  WITH Ids <- {1}, Keys <- {1, 2, 3}, Vals <- {0, 1}, NoItem <- NoItem,
       Size <- <<2>>, Hash <- [k \in {1, 2, 3} |-> k], Interfere <- TRUE,
       tab <- m_tab, it <- m_it, last <- m_last

\* Nine items: a forest of four trees and a carry over three of them.
Heap == INSTANCE BinomialQueue
  WITH Values <- {1, 2, 3}, None <- 0, MaxItems <- 9,
       head <- b_head, ret <- b_ret

Segments == INSTANCE SegmentTree
  WITH MaxKey <- 6, Vals <- {"u", "v"}, Def <- "none",
       kind <- t_kind, segs <- t_segs, marks <- t_marks, nodes <- t_nodes,
       room <- t_room, root <- t_root

\* Bags of four items with twins; five items, the least number for which a
\* removal from a SortedBinTree may have to choose; four nodes of any degree.
Bags == INSTANCE Trees
  WITH Keys <- {1, 2, 3}, Vals <- {1, 2}, MaxItems <- 4, Nodes <- {}, NoNode <- Nil,
       kind <- r_kind, tree <- r_tree, log <- r_log, twisted <- r_twisted,
       freed <- r_freed, first <- r_first, sib <- r_sib, kids <- r_kids
Trees == INSTANCE Trees
  WITH Keys <- {1, 2, 3}, Vals <- {1}, MaxItems <- 5, Nodes <- 1 .. 4, NoNode <- Nil,
       kind <- r_kind, tree <- r_tree, log <- r_log, twisted <- r_twisted,
       freed <- r_freed, first <- r_first, sib <- r_sib, kids <- r_kids

ASSUME ContainerAssumption ==
  /\ OneTree!Parameters /\ TwoSets!Parameters
  /\ TwoTables!Parameters /\ OneMap!Parameters
  /\ Heap!Parameters /\ Segments!Parameters /\ Bags!Parameters /\ Trees!Parameters

mcvars == <<subject, vars, avars, evars, hvars, mvars, bvars, tvars, rvars>>

MCInit ==
  /\ subject \in {"ring", "tree", "sets", "tables", "map", "heap", "segments",
                 "bags", "trees"}
  /\ Init /\ Heap!Init /\ Segments!Init
  /\ OneTree!Init /\ TwoSets!Init /\ TwoTables!Init /\ OneMap!Init
  /\ subject # "ring" => cap = 1
  /\ subject # "segments" => t_kind = "segment"
  /\ IF subject = "trees" THEN Trees!Init /\ r_kind # "bag"
     ELSE Bags!Init /\ r_kind = "bag"

MCNext ==
  \/ /\ subject = "ring" /\ Next
     /\ UNCHANGED <<subject, avars, evars, hvars, mvars, bvars, tvars, rvars>>
  \/ /\ subject = "tree" /\ OneTree!Next
     /\ UNCHANGED <<subject, vars, evars, hvars, mvars, bvars, tvars, rvars>>
  \/ /\ subject = "sets" /\ TwoSets!Next
     /\ UNCHANGED <<subject, vars, avars, hvars, mvars, bvars, tvars, rvars>>
  \/ /\ subject = "tables" /\ TwoTables!Next
     /\ UNCHANGED <<subject, vars, avars, evars, mvars, bvars, tvars, rvars>>
  \/ /\ subject = "map" /\ OneMap!Next
     /\ UNCHANGED <<subject, vars, avars, evars, hvars, bvars, tvars, rvars>>
  \/ /\ subject = "heap" /\ Heap!Next
     /\ UNCHANGED <<subject, vars, avars, evars, hvars, mvars, tvars, rvars>>
  \/ /\ subject = "segments" /\ Segments!Next
     /\ UNCHANGED <<subject, vars, avars, evars, hvars, mvars, bvars, rvars>>
  \/ /\ \/ subject = "bags" /\ Bags!Next
        \/ subject = "trees" /\ Trees!Next
     /\ UNCHANGED <<subject, vars, avars, evars, hvars, mvars, bvars, tvars>>

MCSpec == MCInit /\ [][MCNext]_mcvars

-----------------------------------------------------------------------------
(* What is checked of the containers, see their modules.                    *)

\* avl::GenTree and Set: in every shape that insertions and removals give, a
\* tree is balanced as AbstractTree::invariant() tests, count() is its number
\* of items, the iterator visits the keys once and in order, and subsetOf(),
\* read off two iterators, is the inclusion.
TreesExact ==
  /\ subject = "tree" =>
       OneTree!Balanced /\ OneTree!CountIsExact /\ OneTree!WalkIsSorted
  /\ subject = "sets" => TwoSets!CountIsExact /\ TwoSets!SubsetIsInclusion

\* HashTable: one item per key, in the chain where it is looked for, although
\* look-ups relink the chains during iterations; an undisturbed traversal
\* visits every item exactly once.
TablesExact ==
  /\ TwoTables!OneItemPerKey /\ OneMap!OneItemPerKey
  /\ subject = "tables" => TwoTables!WalkIsExact

\* avl::GenTree, Queue and Set, HashTable and HashMap: the items are those of
\* an abstract collection through add(), put(), remove(), copy, join(), diff()
\* and meet(), and through what iterators replace or remove.
CollectionsAreStores ==
  /\ OneTree!Store!StoreInit
  /\ [][subject = "tree" => OneTree!Store!StoreStep]_avars
  /\ TwoSets!Store!StoreInit
  /\ [][subject = "sets" => TwoSets!Store!StoreStep]_evars
  /\ TwoTables!Store!StoreInit
  /\ [][subject = "tables" => TwoTables!Store!StoreStep]_hvars
  /\ OneMap!Store!StoreInit
  /\ [][subject = "map" => OneMap!Store!StoreStep]_mvars

\* BinomialQueue: put(), get() and head() are those of a priority queue, and
\* the roots stay binomial trees of increasing degrees.
HeapIsQueue ==
  /\ Heap!Promise!Init
  /\ [][subject = "heap" => Heap!Promise!Step]_bvars
  /\ [](subject = "heap" => Heap!Shape)

\* TreeBag, TreeMap, SortedBinTree and inhstruct::Tree: what was put first is
\* found first, as long as the order is kept; no removal takes anything else
\* with it; every walk and every clear() meets each node once.
OtherTreesExact ==
  /\ subject = "bags" =>
       Bags!FirstPutFirstFound /\ Bags!IterVisitsAll /\ Bags!FreedOnce
  /\ subject = "trees" =>
       /\ Trees!FirstPutFirstFound /\ Trees!NothingElseRemoved
       /\ Trees!FreedOnce /\ Trees!ChildrenExact

\* The trees and the tables are exact in every state, whatever sequence of
\* calls led to it.
StructuresExact == TreesExact /\ TablesExact /\ OtherTreesExact

\* Every call on a tree, a set, a table, a map or a heap does to it what the
\* same call does to the abstract collection.
CollectionsKeepPromise == CollectionsAreStores /\ HeapIsQueue

\* stree::Tree and Builder: a look-up finds the segment of its key, and make()
\* stays inside the array that allocate() reserved.
SegmentFound ==
  subject = "segments" => Segments!GetsSegment /\ Segments!FitsAllocation
=============================================================================
