------------------------------ MODULE AVLTree ------------------------------
(***************************************************************************)
(* elm::avl::GenTree and the Set, Map and Queue built on it                *)
(* (include/elm/avl, src/avl_GenTree.cpp).                                 *)
(*                                                                         *)
(* A tree is Nil or a node: key, value, children and the balance factor    *)
(* the code stores.  The code walks down with a stack of (node, direction) *)
(* and walks up through it until a rotation or a balance stops it; here    *)
(* the stack is the recursion, and "high" tells the caller whether the     *)
(* walk up goes on (the subtree has grown, or has shrunk).                 *)
(***************************************************************************)
EXTENDS Integers, SequencesExt

CONSTANTS Ids,       \* the collections
          Keys, Vals, Nil, NoItem,
          IsMap      \* values are written by put() of Map

\* What the constants are assumed to be.
Parameters ==
  /\ Keys \subseteq Int
  /\ NoItem \notin Vals /\ IsMap \in BOOLEAN

VARIABLES tree, cnt, last
vars == <<tree, cnt, last>>

Leaf(k, v) == [k |-> k, v |-> v, l |-> Nil, r |-> Nil, b |-> 0]

-----------------------------------------------------------------------------
\* rotateRight() and rotateLeft(), with the update of the balance factors.
RotateRight(n) ==
  LET nr == n.l
      r  == [n EXCEPT !.l = nr.r, !.b = @ + 1 - Min({nr.b, 0})]
  IN  [nr EXCEPT !.r = r, !.b = @ + 1 + Max({r.b, 0})]

\* Mutant: the balance factor of the new root is computed as for the left.
RotateLeftWrong(n) ==
  LET nr == n.r
      r  == [n EXCEPT !.r = nr.l, !.b = @ - 1 - Max({nr.b, 0})]
  IN  [nr EXCEPT !.l = r, !.b = @ - 1]

RotateLeft(n) ==
  LET nr == n.r
      r  == [n EXCEPT !.r = nr.l, !.b = @ - 1 - Max({nr.b, 0})]
  IN  [nr EXCEPT !.l = r, !.b = @ - 1 + Min({r.b, 0})]

\* The step up of insert(): the child of n has grown on side d.
Grown(n, d) ==
  LET p == [n EXCEPT !.b = @ + d] IN
  CASE p.b = 0  -> [t |-> p, high |-> FALSE]
    [] p.b < -1 -> [t |-> RotateRight(IF p.l.b > 0 THEN [p EXCEPT !.l = RotateLeft(@)]
                                      ELSE p), high |-> FALSE]
    [] p.b > 1  -> [t |-> RotateLeft(IF p.r.b < 0 THEN [p EXCEPT !.r = RotateRight(@)]
                                     ELSE p), high |-> FALSE]
    [] OTHER    -> [t |-> p, high |-> TRUE]

\* The step up of remove(): the child of n has shrunk on side d.
Shrunk(n, d) ==
  LET p == [n EXCEPT !.b = @ - d] IN
  CASE p.b = 0                  -> [t |-> p, high |-> TRUE]
    [] p.b \in {-1, 1}          -> [t |-> p, high |-> FALSE]
    [] p.b = 2 /\ p.r.b = 0     -> [t |-> RotateLeft(p), high |-> FALSE]
    [] p.b = 2 /\ p.r.b = 1     -> [t |-> RotateLeft(p), high |-> TRUE]
    [] p.b = 2 /\ p.r.b = -1    -> [t |-> RotateLeft([p EXCEPT !.r = RotateRight(@)]),
                                    high |-> TRUE]
    [] p.b = -2 /\ p.l.b = 0    -> [t |-> RotateRight(p), high |-> FALSE]
    [] p.b = -2 /\ p.l.b = -1   -> [t |-> RotateRight(p), high |-> TRUE]
    [] p.b = -2 /\ p.l.b = 1    -> [t |-> RotateRight([p EXCEPT !.l = RotateLeft(@)]),
                                    high |-> TRUE]

\* link() of the new child on side d, and the step up when its height changed.
Up(r, n, d, grows) ==
  LET p == IF d = -1 THEN [n EXCEPT !.l = r.t] ELSE [n EXCEPT !.r = r.t]
  IN  IF ~r.high THEN [t |-> p, high |-> FALSE]
      ELSE IF grows THEN Grown(p, d) ELSE Shrunk(p, d)

\* lookup() then insert(): a key that is present is not added again.
RECURSIVE Insert(_, _, _)
Insert(n, k, v) ==
  IF n = Nil THEN [t |-> Leaf(k, v), high |-> TRUE]
  ELSE IF k = n.k THEN [t |-> n, high |-> FALSE]
  ELSE IF k < n.k THEN Up(Insert(n.l, k, v), n, -1, TRUE)
  ELSE Up(Insert(n.r, k, v), n, 1, TRUE)

RECURSIVE LeftMost(_)
LeftMost(n) == IF n.l = Nil THEN n ELSE LeftMost(n.l)

\* remove() of the leftmost node of a subtree.
RECURSIVE RemoveLeftMost(_)
RemoveLeftMost(n) ==
  IF n.l = Nil THEN [t |-> n.r, high |-> TRUE]
  ELSE Up(RemoveLeftMost(n.l), n, -1, FALSE)

\* lookup() then GenTree::remove(): a node with two children exchanges its
\* data with the leftmost node at its right, which is removed instead.
RECURSIVE RemoveFrom(_, _)
RemoveFrom(n, k) ==
  IF n = Nil THEN [t |-> Nil, high |-> FALSE]
  ELSE IF k < n.k THEN Up(RemoveFrom(n.l, k), n, -1, FALSE)
  ELSE IF k > n.k THEN Up(RemoveFrom(n.r, k), n, 1, FALSE)
  ELSE IF n.l = Nil THEN [t |-> n.r, high |-> TRUE]
  ELSE IF n.r = Nil THEN [t |-> n.l, high |-> TRUE]
  ELSE LET p == LeftMost(n.r)
       IN  Up(RemoveLeftMost(n.r), [n EXCEPT !.k = p.k, !.v = p.v], 1, FALSE)

RECURSIVE Find(_, _)
Find(n, k) ==
  IF n = Nil THEN Nil
  ELSE IF k < n.k THEN Find(n.l, k) ELSE IF k > n.k THEN Find(n.r, k) ELSE n

-----------------------------------------------------------------------------
(* The iterator: a stack of nodes, the current one twice on its top.       *)

RECURSIVE LeftSpine(_)
LeftSpine(n) == IF n = Nil THEN <<>> ELSE <<n>> \o LeftSpine(n.l)

Visit(s, n) == LET p == s \o LeftSpine(n) IN Append(p, p[Len(p)])

RECURSIVE IterNext(_)
IterNext(s) ==
  LET x == s[Len(s)] p == Front(s) IN
  IF p = <<>> THEN <<>>
  ELSE IF x = p[Len(p)].l THEN Append(p, p[Len(p)])
  ELSE IF x = p[Len(p)] /\ p[Len(p)].r # Nil THEN Visit(p, p[Len(p)].r)
  ELSE IterNext(p)

RECURSIVE WalkFrom(_)
WalkFrom(s) == IF s = <<>> THEN <<>>
               ELSE <<s[Len(s)].k>> \o WalkFrom(IterNext(s))

Walk(n) == IF n = Nil THEN <<>> ELSE WalkFrom(Visit(<<>>, n))

(* The loop of copy(): a node is a path of sides from the root; the stacks *)
(* of the source and of the copy hold the same path.                       *)

RECURSIVE Sub(_, _)
Sub(n, path) == IF path = <<>> THEN n
                ELSE Sub(IF Head(path) = "l" THEN n.l ELSE n.r, Tail(path))

\* Up to the first node left from its left child that has a right child.
RECURSIVE ClimbLeft(_, _)
ClimbLeft(n, path) ==
  IF Sub(n, path).r # Nil THEN [end |-> FALSE, path |-> path]
  ELSE LET lefts == {x \in DOMAIN path : path[x] = "l"}
       IN  IF lefts = {} THEN [end |-> TRUE, path |-> <<>>]
           ELSE ClimbLeft(n, SubSeq(path, 1, Max(lefts) - 1))

RECURSIVE CopyLoop(_, _, _)
CopyLoop(n, path, done) ==
  LET up == ClimbLeft(n, path) IN
  IF Sub(n, path).l # Nil
  THEN CopyLoop(n, Append(path, "l"), done \union {Append(path, "l")})
  ELSE IF up.end THEN done
  ELSE CopyLoop(n, Append(up.path, "r"), done \union {Append(up.path, "r")})

RECURSIVE Rebuilt(_, _, _)
Rebuilt(n, done, path) ==
  IF path \notin done THEN Nil
  ELSE [Sub(n, path) EXCEPT !.l = Rebuilt(n, done, Append(path, "l")),
                            !.r = Rebuilt(n, done, Append(path, "r"))]

Copied(n) == IF n = Nil THEN Nil ELSE Rebuilt(n, CopyLoop(n, <<>>, {<<>>}), <<>>)

\* Set::subsetOf(): two iterators in step.
RECURSIVE SubsetOf(_, _)
SubsetOf(s, t) ==
  IF s = <<>> \/ t = <<>> THEN s = <<>>
  ELSE IF s[1] < t[1] THEN FALSE
  ELSE SubsetOf(IF s[1] = t[1] THEN Tail(s) ELSE s, Tail(t))

RECURSIVE Nodes(_)
Nodes(n) == IF n = Nil THEN {} ELSE {n} \union Nodes(n.l) \union Nodes(n.r)

RECURSIVE Height(_)
Height(n) == IF n = Nil THEN 0 ELSE 1 + Max({Height(n.l), Height(n.r)})

Items(n) == {<<m.k, m.v>> : m \in Nodes(n)}

-----------------------------------------------------------------------------
Init ==
  /\ tree = [i \in Ids |-> Nil]
  /\ cnt = [i \in Ids |-> 0]
  /\ last = <<"init">>

Self(i) == [t |-> tree[i], c |-> cnt[i]]

Becomes(i, new, call) ==
  /\ tree' = [tree EXCEPT ![i] = new.t]
  /\ cnt' = [cnt EXCEPT ![i] = new.c]
  /\ last' = call

\* insert() increments _cnt, remove() decrements it, when they are called.
Inserted(x, k, v) ==
  [t |-> Insert(x.t, k, v).t, c |-> IF Find(x.t, k) = Nil THEN x.c + 1 ELSE x.c]

Removed(x, k) ==
  [t |-> RemoveFrom(x.t, k).t, c |-> IF Find(x.t, k) = Nil THEN x.c ELSE x.c - 1]

\* add(), insert(), Queue::put() and Map::put(), which calls set(), then add().
Add(i, k, v) == Becomes(i, Inserted(Self(i), k, v),
                        <<IF IsMap THEN "put" ELSE "add", i, k, v>>)

RemoveByKey(i, k) == Becomes(i, Removed(Self(i), k), <<"remove", i, k>>)

\* Queue::get().
Get(i) ==
  /\ tree[i] # Nil
  /\ Becomes(i, [t |-> RemoveLeftMost(tree[i]).t, c |-> cnt[i] - 1],
             <<"get", i, LeftMost(tree[i]).k>>)

Clear(i) == Becomes(i, [t |-> Nil, c |-> 0], <<"clear", i>>)

Copy(i, j) ==
  i # j /\ Becomes(i, [t |-> Copied(tree[j]), c |-> cnt[j]], <<"copy", i, j>>)

InsertAll(x, n, keys) ==
  FoldLeft(LAMBDA y, k : Inserted(y, k, Find(n, k).v), x, keys)

\* Set::join(), diff() and meet(), which builds a third set and copies it.
Join(i, j) ==
  i # j /\ Becomes(i, InsertAll(Self(i), tree[j], Walk(tree[j])), <<"join", i, j>>)

Diff(i, j) ==
  i # j /\ Becomes(i, FoldLeft(Removed, Self(i), Walk(tree[j])), <<"diff", i, j>>)

Meet(i, j) ==
  LET both == SelectSeq(Walk(tree[i]), LAMBDA k : Find(tree[j], k) # Nil)
  IN  i # j /\ Becomes(i, InsertAll([t |-> Nil, c |-> 0], tree[i], both),
                       <<"meet", i, j>>)

Next ==
  \E i \in Ids :
    \/ Clear(i) \/ Get(i)
    \/ \E k \in Keys : RemoveByKey(i, k)
    \/ \E k \in Keys, v \in Vals : Add(i, k, v)
    \/ \E j \in Ids : Copy(i, j) \/ Join(i, j) \/ Diff(i, j) \/ Meet(i, j)

Spec == Init /\ [][Next]_vars

-----------------------------------------------------------------------------
(* Properties.                                                             *)

\* The types of the variables.
TypeOK ==
  /\ cnt \in [Ids -> 0 .. Cardinality(Keys)]
  /\ \A i \in Ids : \A n \in Nodes(tree[i]) :
       n.k \in Keys /\ n.v \in Vals /\ n.b \in {-1, 0, 1}

\* What AbstractTree::invariant() of the code checks after each removal: the
\* balance factor of every node is the difference of the heights of its
\* subtrees, so that the factor never drifts from the shape it summarises.
Balanced == \A i \in Ids : \A n \in Nodes(tree[i]) :
  n.b = Height(n.r) - Height(n.l)

\* count() is the number of nodes.
CountIsExact == \A i \in Ids : cnt[i] = Cardinality(Nodes(tree[i]))

\* The iterator, a stack that holds the current node twice, visits every key
\* once and in order in every shape the rotations can give to the tree.
WalkIsSorted == \A i \in Ids :
  /\ Range(Walk(tree[i])) = {n.k : n \in Nodes(tree[i])}
  /\ \A x, y \in DOMAIN Walk(tree[i]) : x < y => Walk(tree[i])[x] < Walk(tree[i])[y]

\* Set::subsetOf() is the inclusion.
SubsetIsInclusion == \A i, j \in Ids :
  SubsetOf(Walk(tree[i]), Walk(tree[j]))
    <=> {n.k : n \in Nodes(tree[i])} \subseteq {n.k : n \in Nodes(tree[j])}

\* Every operation has the effect and the result of the abstract collection.
Store == INSTANCE MapStore WITH items <- [i \in Ids |-> Items(tree[i])]

\* "the item is still added even if it is already contained in the tree,
\* leading to duplicates": add() always adds one item.
AddAdds == [][last'[1] = "add" => cnt'[last'[2]] = cnt[last'[2]] + 1]_vars

\* "Put a new value in the map": what put() wrote is what get() finds.
PutIsFound ==
  last[1] = "put" => Find(tree[last[2]], last[3]).v = last[4]

\* "True if the item is in the collection, false else": Map::contains().
MapContains(i, x) == \A n \in Nodes(tree[i]) : n.v = x
ContainsIsMembership == \A i \in Ids, x \in Vals :
  MapContains(i, x) <=> \E n \in Nodes(tree[i]) : n.v = x

=============================================================================
