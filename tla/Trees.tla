------------------------------- MODULE Trees -------------------------------
(***************************************************************************)
(* The trees that are not balanced: elm::TreeBag and TreeMap,              *)
(* inhstruct::SortedBinTree, both over inhstruct::BinTree, and the trees   *)
(* of any degree inhstruct::Tree and elm::Tree.                            *)
(*                                                                         *)
(* A binary tree is NoTree or <<item, left, right>>; a node is named by    *)
(* the path that leads to it, a sequence of the indices 2 (left) and 3     *)
(* (right).  An item is a pair of a key, which is compared, and a value.   *)
(***************************************************************************)
EXTENDS Integers, SequencesExt, FiniteSetsExt

CONSTANTS Keys, Vals,
          MaxItems,    \* bound on the items of a binary tree
          Nodes,       \* the nodes of the trees of any degree
          NoNode       \* the null pointer to one of them

\* What the constants are assumed to be.
Parameters == Keys \subseteq Int /\ MaxItems \in Nat /\ NoNode \notin Nodes

VARIABLES
  kind,     \* "bag" (TreeBag, TreeMap), "sorted" (SortedBinTree) or "degree"
  tree,     \* the binary tree
  log,      \* history: the items put and not removed, the oldest first
  twisted,  \* history: relink() moved a right subtree to the left
  freed,    \* the items clear() has freed, in order; the object is then dead
  first,    \* first[n]: _children of the node n
  sib,      \* sib[n]: _sibling of the node n
  kids      \* history: the children each node should have

binVars == <<tree, log, twisted, freed>>
degVars == <<first, sib, kids>>
vars == <<kind, binVars, degVars>>

NoTree == <<>>

Node(x) == <<x, NoTree, NoTree>>

Init ==
  /\ kind \in {"bag", "sorted", "degree"}
  /\ tree = NoTree /\ log = <<>> /\ twisted = FALSE /\ freed = <<>>
  /\ first = [n \in Nodes |-> NoNode] /\ sib = [n \in Nodes |-> NoNode]
  /\ kids = [n \in Nodes |-> <<>>]

-----------------------------------------------------------------------------
(* Binary trees.                                                            *)

\* TreeBag::add(), SortedBinTree::insert(): equal items go to the right.
RECURSIVE Added(_, _)
Added(t, x) ==
  IF t = NoTree THEN Node(x)
  ELSE IF x[1] >= t[1][1] THEN [t EXCEPT ![3] = Added(@, x)]
  ELSE [t EXCEPT ![2] = Added(@, x)]

\* TreeBag::find(), SortedBinTree::get(): the first node on the way down, or NoTree.
RECURSIVE Find(_, _)
Find(t, k) ==
  IF t = NoTree \/ t[1][1] = k THEN t
  ELSE Find(IF k > t[1][1] THEN t[3] ELSE t[2], k)

\* TreeBag::remove(): the right subtree goes under the last node of the left one.
RECURSIVE Hung(_, _)
Hung(l, r) == IF l = NoTree THEN r ELSE [l EXCEPT ![3] = Hung(@, r)]

\* SortedBinTree::relink() and the case in which it changes the order.
RECURSIVE Relinked(_, _)
Relinked(l, r) ==
  CASE l = NoTree -> r
    [] l # NoTree /\ r = NoTree -> l
    [] l # NoTree /\ r # NoTree /\ l[3] = NoTree -> [l EXCEPT ![3] = r]
    [] l # NoTree /\ r # NoTree /\ l[3] # NoTree /\ r[2] = NoTree -> [r EXCEPT ![2] = l]
    [] OTHER -> <<l[1], Relinked(l[2], l[3]), r>>

Twists(l, r) == l # NoTree /\ r # NoTree /\ l[3] # NoTree /\ r[2] # NoTree

\* remove(): the node found is replaced by what is made of its subtrees.
RECURSIVE Removed(_, _)
Removed(t, k) ==
  IF t = NoTree THEN NoTree
  ELSE IF t[1][1] = k THEN IF kind = "bag" THEN Hung(t[2], t[3]) ELSE Relinked(t[2], t[3])
  ELSE IF k > t[1][1] THEN [t EXCEPT ![3] = Removed(@, k)]
  ELSE [t EXCEPT ![2] = Removed(@, k)]

\* BinTree::visit(), BinTree::count().
RECURSIVE Visited(_)
Visited(t) == IF t = NoTree THEN <<>> ELSE Visited(t[2]) \o <<t[1]>> \o Visited(t[3])

RECURSIVE Count(_)
Count(t) == IF t = NoTree THEN 0 ELSE 1 + Count(t[2]) + Count(t[3])

-----------------------------------------------------------------------------
(* TreeBag::Iter: a stack of nodes, the current one on top.                 *)

At(t, path) == FoldLeft(LAMBDA u, d : u[d], t, path)
Right(t, path) == At(t, path)[3] # NoTree
Top(s) == s[Len(s)]
RightOf(path) == Append(path, 3)

RECURSIVE DownLeft(_, _, _)
DownLeft(t, s, path) ==
  IF At(t, path)[2] = NoTree THEN Append(s, path)
  ELSE DownLeft(t, Append(s, path), Append(path, 2))

\* upRight(): pops while n is the right child of the top.
RECURSIVE UpRight(_, _)
UpRight(s, n) ==
  IF s # <<>> /\ RightOf(Top(s)) = n THEN UpRight(Front(s), Top(s)) ELSE s

IterBegin(t) == IF t = NoTree THEN <<>> ELSE DownLeft(t, <<>>, <<>>)

IterNext(t, s) ==
  IF Right(t, Top(s)) THEN DownLeft(t, s, RightOf(Top(s)))
  ELSE UpRight(Front(s), Top(s))

RECURSIVE Walk(_, _)
Walk(t, s) ==
  IF s = <<>> THEN <<>> ELSE <<At(t, Top(s))[1]>> \o Walk(t, IterNext(t, s))

Items(t) == Walk(t, IterBegin(t))

-----------------------------------------------------------------------------
(* Operations of the binary trees.                                          *)

Alive == kind # "degree" /\ freed = <<>>

Oldest(k) == SelectInSeq(log, LAMBDA x : x[1] = k)

add(x) ==
  /\ Alive /\ Len(log) < MaxItems
  /\ tree' = Added(tree, x) /\ log' = Append(log, x)
  /\ UNCHANGED <<twisted, freed>>

\* TreeMap::put() is add(): an item with the same key is kept.
put(k, v) == add(<<k, v>>)

\* TreeBag::remove() asserts that the item is there.
remove(k) ==
  LET n == Find(tree, k) IN
  /\ Alive
  /\ kind = "bag" => n # NoTree
  /\ tree' = Removed(tree, k)
  /\ log' = IF n = NoTree THEN log ELSE RemoveAt(log, Oldest(k))
  /\ twisted' = (twisted \/ (kind = "sorted" /\ n # NoTree /\ Twists(n[2], n[3])))
  /\ UNCHANGED freed

\* remove(iter): by the key of the item the iterator stands on.
removeIter ==
  /\ kind = "bag" /\ Alive
  /\ \E i \in 1 .. Len(Items(tree)) : remove(Items(tree)[i][1])

\* The copy constructor: addAll() in the order of the iterator.
copy ==
  /\ kind = "bag" /\ Alive /\ tree # NoTree
  /\ tree' = FoldLeft(Added, NoTree, Items(tree))
  /\ UNCHANGED <<log, twisted, freed>>

\* TreeBag::clear() frees the nodes through a queue, BinTree::clear() the
\* children before their parent.  Neither sets the root to null: the object
\* cannot be used any more, and a new one takes its place.
RECURSIVE FreedByQueue(_)
FreedByQueue(todo) ==
  IF todo = <<>> THEN <<>>
  ELSE LET t == Head(todo)
       IN  <<t[1]>> \o FreedByQueue(Tail(todo)
                         \o (IF t[2] = NoTree THEN <<>> ELSE <<t[2]>>)
                         \o (IF t[3] = NoTree THEN <<>> ELSE <<t[3]>>))

RECURSIVE FreedInDepth(_)
FreedInDepth(t) ==
  IF t = NoTree THEN <<>> ELSE FreedInDepth(t[2]) \o FreedInDepth(t[3]) \o <<t[1]>>

clear ==
  /\ Alive /\ tree # NoTree
  /\ freed' = IF kind = "bag" THEN FreedByQueue(<<tree>>) ELSE FreedInDepth(tree)
  /\ UNCHANGED <<tree, log, twisted>>

renew ==
  /\ freed # <<>>
  /\ tree' = NoTree /\ log' = <<>> /\ twisted' = FALSE /\ freed' = <<>>

-----------------------------------------------------------------------------
(* Trees of any degree.                                                     *)

Listed(n) == \E p \in Nodes : Contains(kids[p], n)

RECURSIVE Below(_)
Below(n) == {n} \union UNION {Below(kids[n][i]) : i \in 1 .. Len(kids[n])}

\* A node the program may put under p.
Loose(n, p) == ~Listed(n) /\ p \notin Below(n)

\* Tree::Iter from the child c.
RECURSIVE Siblings(_)
Siblings(c) == IF c = NoNode THEN <<>> ELSE <<c>> \o Siblings(sib[c])

prependChild(p, c) ==
  /\ Loose(c, p)
  /\ sib' = [sib EXCEPT ![c] = first[p]]
  /\ first' = [first EXCEPT ![p] = c]
  /\ kids' = [kids EXCEPT ![p] = <<c>> \o @]

\* The sibling of the child is left as it is: a child that was removed from the
\* middle of a list would bring the rest of that list with it.
appendChild(p, c) ==
  /\ Loose(c, p) /\ sib[c] = NoNode
  /\ IF first[p] = NoNode
     THEN first' = [first EXCEPT ![p] = c] /\ UNCHANGED sib
     ELSE sib' = [sib EXCEPT ![Last(Siblings(first[p]))] = c] /\ UNCHANGED first
  /\ kids' = [kids EXCEPT ![p] = Append(@, c)]

addSibling(n, c) ==
  \E p \in Nodes :
    /\ Contains(kids[p], n) /\ Loose(c, p)
    /\ sib' = [sib EXCEPT ![c] = sib[n], ![n] = c]
    /\ kids' = [kids EXCEPT ![p] = InsertAt(@, 1 + CHOOSE i \in 1 .. Len(@) : @[i] = n, c)]
    /\ UNCHANGED first

removeChild(p, c) ==
  /\ Contains(kids[p], c)
  /\ IF first[p] = c
     THEN first' = [first EXCEPT ![p] = sib[c]] /\ UNCHANGED sib
     ELSE LET s == Siblings(first[p])
              before == s[(CHOOSE i \in 1 .. Len(s) : s[i] = c) - 1]
          IN  sib' = [sib EXCEPT ![before] = sib[c]] /\ UNCHANGED first
  /\ kids' = [kids EXCEPT ![p] = SelectSeq(@, LAMBDA n : n # c)]

clearChildren(p) ==
  /\ first' = [first EXCEPT ![p] = NoNode] /\ kids' = [kids EXCEPT ![p] = <<>>]
  /\ UNCHANGED sib

-----------------------------------------------------------------------------
Next ==
  \/ /\ \/ \E k \in Keys, v \in Vals : put(k, v)
        \/ \E k \in Keys : remove(k)
        \/ removeIter \/ copy \/ clear \/ renew
     /\ UNCHANGED <<kind, degVars>>
  \/ /\ kind = "degree"
     /\ \E p \in Nodes :
          \/ clearChildren(p)
          \/ \E c \in Nodes : \/ prependChild(p, c) \/ appendChild(p, c)
                              \/ addSibling(p, c) \/ removeChild(p, c)
     /\ UNCHANGED <<kind, binVars>>

Spec == Init /\ [][Next]_vars

-----------------------------------------------------------------------------
Of(s, k) == SelectSeq(s, LAMBDA x : x[1] = k)

\* TreeBag, TreeMap and, as long as relink() does not move a right subtree to
\* the left, SortedBinTree: in any shape the calls lead to, the walk is sorted,
\* the items of one key come in the order they were put, and find() and get()
\* return the oldest of them, if there is one.
FirstPutFirstFound ==
  kind # "degree" /\ ~twisted =>
    /\ \A i \in 1 .. Count(tree) - 1 : Visited(tree)[i][1] <= Visited(tree)[i + 1][1]
    /\ \A k \in Keys :
         /\ Of(Visited(tree), k) = Of(log, k)
         /\ Find(tree, k) = NoTree <=> Of(log, k) = <<>>
         /\ Find(tree, k) # NoTree => Find(tree, k)[1] = Head(Of(log, k))

\* No removal loses another item, not even the one that breaks the order.
NothingElseRemoved ==
  kind # "degree" => \A k \in Keys : Len(Of(Visited(tree), k)) = Len(Of(log, k))

\* TreeBag::Iter visits the items that BinTree::visit() visits, in its order.
IterVisitsAll == kind = "bag" => Items(tree) = Visited(tree)

\* clear() frees every node once.
FreedOnce ==
  freed # <<>> =>
    /\ Len(freed) = Count(tree)
    /\ \A x \in Keys \X Vals :
         Len(SelectSeq(freed, LAMBDA y : y = x)) = Len(SelectSeq(log, LAMBDA y : y = x))

\* inhstruct::Tree: the chain of the siblings is the list of the children, for
\* every node, whatever nodes were moved from one parent to another.
ChildrenExact == kind = "degree" => \A n \in Nodes : Siblings(first[n]) = kids[n]
=============================================================================
