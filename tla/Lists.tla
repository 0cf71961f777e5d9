------------------------------- MODULE Lists -------------------------------
(***************************************************************************)
(* The linked lists of ELM, node by node: List over inhstruct::SLList, the *)
(* sorted lists made of it (SortedList, ListSet, ListMap), ListQueue, and  *)
(* BiDiList over inhstruct::DLList.                                        *)
(*                                                                         *)
(* Two lists of one kind share a heap of nodes.  The user adds, removes    *)
(* and copies, walks a list with an iterator through which it inserts and  *)
(* removes (PrecIter, or Iter for BiDiList), or merges two sets: join(),   *)
(* meet() and diff() are loops over the nodes, one step per turn.          *)
(*                                                                         *)
(* An item is <<key, datum>>; only the key is compared.                    *)
(***************************************************************************)
EXTENDS Integers, Sequences, SequencesExt, FiniteSets, FiniteSetsExt

CONSTANTS
  Kinds,     \* the kinds of list, of those below
  Limit,     \* for each kind, the number of nodes of the heap
  Keys,      \* for each kind, a set of integers
  Data

VARIABLES
  kind,      \* "list", "sorted", "set", "map", "queue" or "bidi"
  m,         \* the memory: the nodes, and the fields of the two lists
  op,        \* what runs: "idle", "walk", "join", "meet" or "diff", and on which lists
  it,        \* the iterator of the walk, or i of a merge: PrecIter::node and prev
  j,         \* j of a merge
  ref,       \* what the calls ask each list to hold, in order
  at,        \* how many items of the list the walk has passed
  leaked     \* the nodes that BiDiList::remove() unlinked and did not free

vars == <<kind, m, op, it, j, ref, at, leaked>>

Parameters ==
  /\ Kinds \subseteq {"list", "sorted", "set", "map", "queue", "bidi"}
  /\ Limit \in [Kinds -> Nat] /\ Data # {}
  /\ \A k \in Kinds : Keys[k] \subseteq Int

L == {1, 2}
Nil == 0
N == Limit[kind]
Nodes == 1 .. N
Freed == <<-1, -1>>                     \* what a freed node holds
Hd(l) == -l                             \* DLList::hd and tl, nodes without value
Tl(l) == -l - 2
Cells == Nodes \union {Hd(l) : l \in L} \union {Tl(l) : l \in L}
Items == Keys[kind] \X (IF kind = "map" THEN Data ELSE {CHOOSE d \in Data : TRUE})

Idle == [do |-> "idle", l |-> 1, s |-> 1]
NoIter == [node |-> Nil, prev |-> Nil]
Room(k) == Cardinality(m.live) + k <= N

-----------------------------------------------------------------------------
(* inhstruct::SLList and SLNode, and the allocation of List::Node.          *)

Fresh(h) == Min(Nodes \ h.live)

New(h, v) == [h EXCEPT !.live = @ \union {Fresh(h)}, !.val[Fresh(h)] = v]

free(h, n) ==
  [h EXCEPT !.live = @ \ {n}, !.val[n] = Freed, !.nxt[n] = Nil, !.prv[n] = Nil]

\* The nodes of a list, from the first to the last; of a cycle, N + 1 nodes.
Chain(h, l) ==
  LET walk[k \in 1 .. N + 1] ==
        IF k = 1 THEN h.fst[l] ELSE IF walk[k - 1] = Nil THEN Nil ELSE h.nxt[walk[k - 1]]
  IN SelectSeq(walk, LAMBDA n : n # Nil)

Values(h, l) == [k \in DOMAIN Chain(h, l) |-> h.val[Chain(h, l)[k]]]

addFirst(h, l, v) ==
  LET n == Fresh(h) IN [New(h, v) EXCEPT !.nxt[n] = h.fst[l], !.fst[l] = n]

insertAfter(h, p, v) ==
  LET n == Fresh(h) IN [New(h, v) EXCEPT !.nxt[n] = h.nxt[p], !.nxt[p] = n]

addLast(h, l, v) ==
  IF h.fst[l] = Nil THEN addFirst(h, l, v) ELSE insertAfter(h, Last(Chain(h, l)), v)

removeNext(h, p) == [h EXCEPT !.nxt[p] = h.nxt[h.nxt[p]]]

removeFirst(h, l) == free([h EXCEPT !.fst[l] = h.nxt[h.fst[l]]], h.fst[l])

removeLast(h, l) ==
  LET c == Chain(h, l)
  IN IF Len(c) = 1 THEN removeFirst(h, l) ELSE free(removeNext(h, c[Len(c) - 1]), Last(c))

-----------------------------------------------------------------------------
(* List: the operations on values, and through a PrecIter.                  *)

clear(h, l) == FoldLeft(LAMBDA a, n : removeFirst(a, l), h, Chain(h, l))

\* The list is emptied first: the copy of a list to itself is empty.
copy(h, l, s) ==
  LET c == clear(h, l) IN FoldLeft(LAMBDA a, v : addLast(a, l, v), c, Values(c, s))

addAll(h, l, s) == FoldLeft(LAMBDA a, v : addFirst(a, l, v), h, Values(h, s))

\* remove(PrecIter&): unlink and free the current node, go to the next one.
removeAt(h, l, i) ==
  IF i.prev = Nil THEN removeFirst(h, l) ELSE free(removeNext(h, i.prev), i.node)

\* Mutation: the iterator stays on the node that was removed.
AfterRemovalStays(h, l, i) == i

AfterRemoval(h, l, i) ==
  [i EXCEPT !.node = IF i.prev = Nil THEN h.fst[l] ELSE h.nxt[i.prev]]

\* The first item that holds, 0 when there is none.
IndexOf(s, v) ==
  LET K == {k \in DOMAIN s : s[k][1] = v[1]} IN IF K = {} THEN 0 ELSE Min(K)

remove(h, l, v) ==
  LET k == IndexOf(Values(h, l), v) c == Chain(h, l)
  IN IF k = 0 THEN h
     ELSE removeAt(h, l, [node |-> c[k], prev |-> IF k = 1 THEN Nil ELSE c[k - 1]])

removeAll(h, l, s) == FoldLeft(LAMBDA a, v : remove(a, l, v), h, Values(h, s))

addBefore(h, l, i, v) ==
  IF i.prev = Nil THEN addFirst(h, l, v) ELSE insertAfter(h, i.prev, v)

AfterAddition(h, i) == [i EXCEPT !.prev = Fresh(h)]

PrecIter(h, l) == [node |-> h.fst[l], prev |-> Nil]

next(h, i) == [node |-> h.nxt[i.node], prev |-> i.node]

-----------------------------------------------------------------------------
(* SortedList, ListSet and ListMap.                                         *)

\* The search stops at the first item that is not below; 0 stands for end().
find(s, v) ==
  LET K == {k \in DOMAIN s : s[k][1] >= v[1]}
  IN IF K # {} /\ s[Min(K)][1] = v[1] THEN Min(K) ELSE 0

\* Mutation: the item goes after the first one above it.
SortedAddAfter(h, l, v) ==
  LET c == Chain(h, l)
      K == {k \in DOMAIN c : v[1] < h.val[c[k]][1]}
  IN IF K = {} THEN addLast(h, l, v) ELSE insertAfter(h, c[Min(K)], v)

SortedAdd(h, l, v) ==
  LET c == Chain(h, l)
      K == {k \in DOMAIN c : v[1] < h.val[c[k]][1]}
      i == [node |-> c[Min(K)], prev |-> IF Min(K) = 1 THEN Nil ELSE c[Min(K) - 1]]
  IN IF K = {} THEN addLast(h, l, v) ELSE addBefore(h, l, i, v)

insert(h, l, v) == IF find(Values(h, l), v) # 0 THEN h ELSE SortedAdd(h, l, v)

put(h, l, v) ==
  LET k == find(Values(h, l), v)
  IN IF k # 0 THEN [h EXCEPT !.val[Chain(h, l)[k]] = v] ELSE SortedAdd(h, l, v)

\* ListMap::remove(key).
removeKey(h, l, v) == IF find(Values(h, l), v) = 0 THEN h ELSE remove(h, l, v)

\* s.subsetOf(l): one walk over both lists.
subsetOf(s, l) ==
  LET f[a \in 1 .. Len(l) + 1, b \in 1 .. Len(s) + 1] ==
        IF a > Len(l) \/ b > Len(s) THEN b > Len(s)
        ELSE /\ l[a][1] <= s[b][1]
             /\ f[a + 1, IF l[a][1] = s[b][1] THEN b + 1 ELSE b]
  IN f[1, 1]

\* What the items of S are as a sorted list without duplicates.
Sorted(S) == SetToSortSeq(S, LAMBDA x, y : x[1] < y[1])

\* One turn of the loops of join(), meet() and diff(), on lists l and s.
Turn ==
  LET l == op.l
      both == it.node # Nil /\ j # Nil
      c == IF both THEN m.val[it.node][1] - m.val[j][1] ELSE 0
      forward == it' = next(m, it) /\ UNCHANGED m
      add == m' = addBefore(m, l, it, m.val[j]) /\ it' = AfterAddition(m, it)
      cut == m' = removeAt(m, l, it) /\ it' = AfterRemoval(m', l, it)
      advance == j' = m.nxt[j]
  IN CASE op.do = "join" ->
            \/ both /\ c = 0 /\ forward /\ advance
            \/ both /\ c < 0 /\ forward /\ UNCHANGED j
            \/ both /\ c > 0 /\ add /\ advance
            \/ ~both /\ j # Nil /\ add /\ advance
       [] op.do = "meet" ->
            \/ both /\ c = 0 /\ forward /\ advance
            \/ both /\ c < 0 /\ cut /\ UNCHANGED j
            \/ both /\ c > 0 /\ advance /\ UNCHANGED <<it, m>>
            \/ ~both /\ it.node # Nil /\ cut /\ UNCHANGED j
       [] op.do = "diff" ->
            \/ both /\ c = 0 /\ cut /\ advance
            \/ both /\ c < 0 /\ forward /\ UNCHANGED j
            \/ both /\ c > 0 /\ advance /\ UNCHANGED <<it, m>>

\* The loop goes on.
Turning ==
  CASE op.do = "join" -> j # Nil
    [] op.do = "meet" -> it.node # Nil
    [] op.do = "diff" -> it.node # Nil /\ j # Nil
    [] OTHER -> FALSE

-----------------------------------------------------------------------------
(* ListQueue: the head is in fst, the tail in tail.                         *)

queuePut(h, l, v) ==
  LET n == Fresh(h) g == [New(h, v) EXCEPT !.tail[l] = n]
  IN IF h.fst[l] # Nil THEN [g EXCEPT !.nxt[h.tail[l]] = n] ELSE [g EXCEPT !.fst[l] = n]

queueGet(h, l) ==
  LET g == removeFirst(h, l) IN IF g.fst[l] = Nil THEN [g EXCEPT !.tail[l] = Nil] ELSE g

-----------------------------------------------------------------------------
(* inhstruct::DLList and BiDiList.                                          *)

\* The nodes from hd to tl, without them; of a broken list, up to N + 1 nodes.
DLChain(h, l) ==
  LET walk[k \in 1 .. N + 1] ==
        IF k = 1 THEN h.nxt[Hd(l)] ELSE IF walk[k - 1] <= Nil THEN Nil ELSE h.nxt[walk[k - 1]]
  IN SelectSeq(walk, LAMBDA n : n > Nil)

BackChain(h, l) ==
  LET walk[k \in 1 .. N + 1] ==
        IF k = 1 THEN h.prv[Tl(l)] ELSE IF walk[k - 1] <= Nil THEN Nil ELSE h.prv[walk[k - 1]]
  IN SelectSeq(walk, LAMBDA n : n > Nil)

DLInsertAfter(h, p, v) ==
  LET n == Fresh(h)
  IN [New(h, v) EXCEPT !.prv[h.nxt[p]] = n, !.nxt[n] = h.nxt[p], !.nxt[p] = n, !.prv[n] = p]

DLInsertBefore(h, p, v) ==
  LET n == Fresh(h)
  IN [New(h, v) EXCEPT !.nxt[h.prv[p]] = n, !.prv[n] = h.prv[p], !.prv[p] = n, !.nxt[n] = p]

DLRemove(h, n) == [h EXCEPT !.nxt[h.prv[n]] = h.nxt[n], !.prv[h.nxt[n]] = h.prv[n]]

DLValues(h, l) == [k \in DOMAIN DLChain(h, l) |-> h.val[DLChain(h, l)[k]]]

DLClear(h, l) == FoldLeft(LAMBDA a, n : free(DLRemove(a, n), n), h, DLChain(h, l))

DLCopy(h, l, s) ==
  LET c == DLClear(h, l)
  IN FoldLeft(LAMBDA a, v : DLInsertBefore(a, Tl(l), v), c, DLValues(c, s))

-----------------------------------------------------------------------------
(* The calls of the user.                                                   *)

Init ==
  /\ kind \in Kinds
  /\ m = [fst |-> [l \in L |-> Nil], tail |-> [l \in L |-> Nil], live |-> {},
          val |-> [n \in Nodes |-> Freed],
          nxt |-> [n \in Cells |-> IF \E l \in L : n = Hd(l) THEN n - 2 ELSE Nil],
          prv |-> [n \in Cells |-> IF \E l \in L : n = Tl(l) THEN n + 2 ELSE Nil]]
  /\ op = Idle /\ it = NoIter /\ j = Nil /\ at = 0 /\ leaked = {}
  /\ ref = [l \in L |-> <<>>]

\* A call that is not a walk or a merge: the memory after it, the items asked.
Call(h, l, s) ==
  /\ op = Idle /\ m' = h /\ ref' = [ref EXCEPT ![l] = s]
  /\ UNCHANGED <<kind, op, it, j, at, leaked>>

Without(s, v) == IF IndexOf(s, v) = 0 THEN s ELSE RemoveAt(s, IndexOf(s, v))

ListCalls(l, s) ==
  \/ \E v \in Items : Room(1) /\ Call(addFirst(m, l, v), l, <<v>> \o ref[l])
  \/ \E v \in Items : Room(1) /\ Call(addLast(m, l, v), l, Append(ref[l], v))
  \/ \E v \in Items : Call(remove(m, l, v), l, Without(ref[l], v))
  \/ ref[l] # <<>> /\ Call(removeFirst(m, l), l, Tail(ref[l]))
  \/ ref[l] # <<>> /\ Call(removeLast(m, l), l, Front(ref[l]))
  \/ l # s /\ Room(Len(ref[s]) - Len(ref[l])) /\ Call(copy(m, l, s), l, ref[s])
  \/ Room(Len(ref[s])) /\ Call(addAll(m, l, s), l, Reverse(ref[s]) \o ref[l])
  \/ l # s /\ Call(removeAll(m, l, s), l, FoldLeft(Without, ref[l], ref[s]))

SortedCalls(l, s) ==
  \/ \E v \in Items :
       /\ kind = "sorted" /\ Room(1)
       /\ Call(SortedAdd(m, l, v), l,
               SelectSeq(ref[l], LAMBDA x : x[1] <= v[1]) \o <<v>>
               \o SelectSeq(ref[l], LAMBDA x : x[1] > v[1]))
  \/ \E v \in Items :
       /\ kind = "set" /\ Room(1)
       /\ Call(insert(m, l, v), l, Sorted(ToSet(ref[l]) \union {v}))
  \/ \E v \in Items :
       /\ kind = "map" /\ Room(1)
       /\ Call(put(m, l, v), l, Sorted({x \in ToSet(ref[l]) : x[1] # v[1]} \union {v}))
  \/ \E v \in Items : kind # "map" /\ Call(remove(m, l, v), l, Without(ref[l], v))
  \/ \E v \in Items : kind = "map" /\ Call(removeKey(m, l, v), l, Without(ref[l], v))
  \/ kind # "map" /\ ref[l] # <<>> /\ Call(removeFirst(m, l), l, Tail(ref[l]))
  \/ kind # "map" /\ ref[l] # <<>> /\ Call(removeLast(m, l), l, Front(ref[l]))
  \/ l # s /\ Room(Len(ref[s]) - Len(ref[l])) /\ Call(copy(m, l, s), l, ref[s])

QueueCalls(l) ==
  \/ \E v \in Items : Room(1) /\ Call(queuePut(m, l, v), l, Append(ref[l], v))
  \/ ref[l] # <<>> /\ Call(queueGet(m, l), l, Tail(ref[l]))

BiDiCalls(l, s) ==
  \/ \E v \in Items : Room(1) /\ Call(DLInsertAfter(m, Hd(l), v), l, <<v>> \o ref[l])
  \/ \E v \in Items : Room(1) /\ Call(DLInsertBefore(m, Tl(l), v), l, Append(ref[l], v))
  \/ /\ ref[l] # <<>>
     /\ Call(free(DLRemove(m, m.nxt[Hd(l)]), m.nxt[Hd(l)]), l, Tail(ref[l]))
  \/ /\ ref[l] # <<>>
     /\ Call(free(DLRemove(m, m.prv[Tl(l)]), m.prv[Tl(l)]), l, Front(ref[l]))
  \/ l # s /\ Room(Len(ref[s]) - Len(ref[l])) /\ Call(DLCopy(m, l, s), l, ref[s])

\* begin(): a walk over a list, which ends when the user drops the iterator.
StartWalk(l) ==
  /\ op = Idle /\ kind \in {"list", "bidi"}
  /\ op' = [Idle EXCEPT !.do = "walk", !.l = l]
  /\ it' = IF kind = "list" THEN PrecIter(m, l) ELSE [NoIter EXCEPT !.node = m.nxt[Hd(l)]]
  /\ at' = 0
  /\ UNCHANGED <<kind, m, j, ref, leaked>>

\* A call through the iterator: the memory, the iterator and the items after
\* it, and how many items are before the iterator.
Through(h, i, s, k) ==
  /\ m' = h /\ it' = i /\ ref' = [ref EXCEPT ![op.l] = s] /\ at' = k
  /\ UNCHANGED <<kind, op, j, leaked>>

ListWalk ==
  LET l == op.l r == ref[l]
  IN /\ kind = "list" /\ op.do = "walk"
     /\ \/ it.node # Nil /\ Through(m, next(m, it), r, at + 1)
        \/ /\ it.node # Nil
           /\ Through(removeAt(m, l, it), AfterRemoval(removeAt(m, l, it), l, it),
                      RemoveAt(r, at + 1), at)
        \/ \E v \in Items :
             \/ /\ Room(1)
                /\ Through(addBefore(m, l, it, v), AfterAddition(m, it),
                           InsertAt(r, at + 1, v), at + 1)
             \/ /\ Room(1) /\ it.node # Nil
                /\ Through(insertAfter(m, it.node, v), it, InsertAt(r, at + 2, v), at)
             \/ /\ it.node # Nil
                /\ Through([m EXCEPT !.val[it.node] = v], it, ReplaceAt(r, at + 1, v), at)

BiDiWalk ==
  LET l == op.l r == ref[l] n == it.node
      on == n # Tl(l)
  IN /\ kind = "bidi" /\ op.do = "walk"
     /\ \/ on /\ Through(m, [it EXCEPT !.node = m.nxt[n]], r, at + 1)
        \/ \E v \in Items :
             \/ on /\ Room(1) /\ Through(DLInsertBefore(m, n, v), it, InsertAt(r, at + 1, v), at + 1)
             \/ on /\ Room(1) /\ Through(DLInsertAfter(m, n, v), it, InsertAt(r, at + 2, v), at)
             \/ on /\ Through([m EXCEPT !.val[n] = v], it, ReplaceAt(r, at + 1, v), at)
        \/ /\ m.prv[n] # Hd(l)
           /\ Through(free(DLRemove(m, m.prv[n]), m.prv[n]), it, RemoveAt(r, at), at - 1)
        \/ /\ on /\ m.nxt[n] # Tl(l)
           /\ Through(free(DLRemove(m, m.nxt[n]), m.nxt[n]), it, RemoveAt(r, at + 2), at)

\* BiDiList::remove(Iter&): the node is unlinked, and never freed.
BiDiRemove ==
  /\ kind = "bidi" /\ op.do = "walk" /\ it.node # Tl(op.l)
  /\ m' = DLRemove(m, it.node)
  /\ it' = [it EXCEPT !.node = m.nxt[it.node]]
  /\ leaked' = leaked \union {it.node}
  /\ ref' = [ref EXCEPT ![op.l] = RemoveAt(@, at + 1)]
  /\ UNCHANGED <<kind, op, j, at>>

StopWalk ==
  /\ op.do = "walk" /\ op' = Idle /\ it' = NoIter /\ at' = 0
  /\ UNCHANGED <<kind, m, j, ref, leaked>>

\* join(), meet() or diff() of list l with list s; s -= s would read the nodes
\* it frees.
StartMerge(l, s) ==
  /\ op = Idle /\ kind = "set"
  /\ \E d \in {"join", "meet", "diff"} :
       /\ d = "diff" => l # s
       /\ op' = [do |-> d, l |-> l, s |-> s]
       /\ ref' = [ref EXCEPT ![l] =
                    Sorted(CASE d = "join" -> ToSet(ref[l]) \union ToSet(ref[s])
                             [] d = "meet" -> ToSet(ref[l]) \intersect ToSet(ref[s])
                             [] d = "diff" -> ToSet(ref[l]) \ ToSet(ref[s]))]
       /\ d = "join" => Room(Cardinality(ToSet(ref[s]) \ ToSet(ref[l])))
  /\ it' = PrecIter(m, l) /\ j' = m.fst[s]
  /\ UNCHANGED <<kind, m, at, leaked>>

Merge == Turning /\ Turn /\ UNCHANGED <<kind, op, ref, at, leaked>>

EndMerge ==
  /\ op.do \in {"join", "meet", "diff"} /\ ~Turning
  /\ op' = Idle /\ it' = NoIter /\ j' = Nil
  /\ UNCHANGED <<kind, m, ref, at, leaked>>

Next ==
  \/ \E l \in L, s \in L :
       \/ kind = "list" /\ ListCalls(l, s)
       \/ kind \in {"sorted", "set", "map"} /\ SortedCalls(l, s)
       \/ kind = "bidi" /\ BiDiCalls(l, s)
       \/ StartMerge(l, s)
  \/ \E l \in L : kind = "queue" /\ QueueCalls(l)
  \/ \E l \in L : StartWalk(l)
  \/ ListWalk \/ BiDiWalk \/ BiDiRemove \/ StopWalk
  \/ Merge \/ EndMerge

Spec == Init /\ [][Next]_vars

-----------------------------------------------------------------------------
(* Properties.                                                              *)

ChainOf(l) == IF kind = "bidi" THEN DLChain(m, l) ELSE Chain(m, l)

\* After any calls, each list holds the items that the calls ask for, in the
\* order they ask for: sorted for the sorted lists, without duplicates for a
\* set, the last datum of a key for a map; a walk and a merge do as well as the
\* operations on values.
ItemsExact ==
  op.do \in {"idle", "walk"} =>
    \A l \in L : [k \in DOMAIN ChainOf(l) |-> m.val[ChainOf(l)[k]]] = ref[l]

\* No node is in two lists or twice in one, none is lost but those that
\* BiDiList::remove() leaks, and the lists hold no freed node.
NodesExact ==
  /\ \A l \in L : IsInjective(ChainOf(l))
  /\ ToSet(ChainOf(1)) \intersect ToSet(ChainOf(2)) = {}
  /\ m.live = ToSet(ChainOf(1)) \union ToSet(ChainOf(2)) \union leaked

\* The iterator of a walk and those of a merge never stand on a freed node, and
\* the previous node that PrecIter keeps is the one before its node.
IteratorsLive ==
  /\ {it.node, it.prev, j} \cap Nodes \subseteq m.live \ leaked
  /\ op.do = "walk" /\ kind = "list" =>
       /\ it.prev = IF at = 0 THEN Nil ELSE Chain(m, op.l)[at]
       /\ it.node = IF at = Len(ref[op.l]) THEN Nil ELSE Chain(m, op.l)[at + 1]

\* The two directions of a BiDiList agree, and the tail of a ListQueue is its
\* last node.
EndsExact ==
  /\ kind = "bidi" => \A l \in L : BackChain(m, l) = Reverse(DLChain(m, l))
  /\ kind = "queue" =>
       \A l \in L : m.tail[l] = IF ref[l] = <<>> THEN Nil ELSE Last(Chain(m, l))

\* The searches that stop early miss nothing, and subsetOf(), which walks both
\* lists at once, is the inclusion.
SearchesExact ==
  op = Idle /\ kind \in {"sorted", "set", "map"} =>
    /\ \A l \in L, v \in Items :
         (find(Values(m, l), v) # 0) <=> \E x \in ToSet(ref[l]) : x[1] = v[1]
    /\ kind = "set" =>
         (subsetOf(Values(m, 1), Values(m, 2)) <=> ToSet(ref[1]) \subseteq ToSet(ref[2]))
=============================================================================
