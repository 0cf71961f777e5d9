----------------------------- MODULE HashTable -----------------------------
(***************************************************************************)
(* elm::HashTable and the HashMap and HashSet built on it                  *)
(* (include/elm/data/HashTable.h, HashMap.h, HashSet.h): an array of       *)
(* chains.  Every look-up that is not a "_const" one moves the node it     *)
(* finds to the head of its chain, under the feet of the iterators, which  *)
(* hold a bucket and a node.                                               *)
(*                                                                         *)
(* A chain is the sequence of its <<key, value>> pairs.  add(), which does *)
(* not look for the key, is called for an absent key (as fetch() does).    *)
(***************************************************************************)
EXTENDS Integers, SequencesExt

CONSTANTS Ids, Keys, Vals, NoItem,
          Size,       \* Size[i]: number of chains of table i
          Hash,       \* H::computeHash
          Interfere   \* whether look-ups and changes happen under an iterator

\* What the constants are assumed to be.
Parameters ==
  /\ \A i \in Ids : Size[i] \in Nat \ {0}
  /\ Hash \in [Keys -> Nat]
  /\ NoItem \notin Vals /\ Interfere \in BOOLEAN

VARIABLES tab,    \* tab[i][b]: chain b of table i
          it,     \* an iterator
          last

vars == <<tab, it, last>>

NoIter == [on |-> FALSE, id |-> NoItem, i |-> 0, node |-> NoItem, seen |-> <<>>,
           self |-> FALSE]

Empty(i) == [b \in 0 .. Size[i] - 1 |-> <<>>]

Init ==
  /\ tab = [i \in Ids |-> Empty(i)]
  /\ it = NoIter
  /\ last = <<"init">>

-----------------------------------------------------------------------------
(* The functions of HashTable, on a table t of n chains.                   *)

Bucket(n, k) == Hash[k] % n

Place(s, k) == SelectInSeq(s, LAMBDA x : x[1] = k)

\* find(): the node found goes to the head of its chain.
Find(t, n, k) ==
  LET b == Bucket(n, k) x == Place(t[b], k)
  IN  IF x < 2 THEN t ELSE [t EXCEPT ![b] = <<@[x]>> \o RemoveAt(@, x)]

Has(t, n, k) == Place(t[Bucket(n, k)], k) > 0

AddNode(t, n, k, v) == [t EXCEPT ![Bucket(n, k)] = <<<<k, v>>>> \o @]

\* put(): the value replaced in the node found, now the head, or a new node.
Put(t, n, k, v) ==
  IF Has(t, n, k) THEN [Find(t, n, k) EXCEPT ![Bucket(n, k)][1] = <<k, v>>]
  ELSE AddNode(t, n, k, v)

Remove_(t, n, k) ==
  LET b == Bucket(n, k) x == Place(t[b], k)
  IN  IF x = 0 THEN t ELSE [t EXCEPT ![b] = RemoveAt(@, x)]

\* The items in the order of the iterator.
InOrder(t, n) == FlattenSeq([b \in 1 .. n |-> t[b - 1]])

PutAll(t, n, s) == FoldLeft(LAMBDA u, x : Put(u, n, x[1], x[2]), t, s)

\* copy(): chain by chain between tables of one size, else with putAll().
Copied(i, j) == IF Size[i] = Size[j] THEN tab[j]
                ELSE PutAll(Empty(i), Size[i], InOrder(tab[j], Size[j]))

-----------------------------------------------------------------------------
Free == ~it.on \/ (Interfere /\ ~it.self)

Becomes(new, call) ==
  /\ Free
  /\ tab' = [i \in Ids |-> IF i \in DOMAIN new THEN new[i] ELSE tab[i]]
  /\ last' = call
  /\ UNCHANGED it

One(i, t) == [x \in {i} |-> t]

PutItem(i, k, v) == Becomes(One(i, Put(tab[i], Size[i], k, v)), <<"put", i, k, v>>)

\* add() of an absent key, which fetch() calls when get() finds nothing.
Add(i, k, v) ==
  /\ ~Has(tab[i], Size[i], k)
  /\ Becomes(One(i, AddNode(tab[i], Size[i], k, v)), <<"add", i, k, v>>)

RemoveKey(i, k) ==
  /\ it.on => it.id # i    \* an iterator does not outlive its node
  /\ Becomes(One(i, Remove_(tab[i], Size[i], k)), <<"remove", i, k>>)

\* get(), hasKey(), contains(): a const function that moves a node.
Get(i, k) ==
  LET t == Find(tab[i], Size[i], k)
      b == Bucket(Size[i], k)
  IN  Becomes(One(i, t), <<"lookup", i, k,
                IF Has(t, Size[i], k) THEN t[b][1][2] ELSE NoItem>>)

\* get_const(), hasKey_const().
GetConst(i, k) ==
  LET s == tab[i][Bucket(Size[i], k)] IN
  /\ ~it.self
  /\ last' = <<"lookup", i, k, IF Place(s, k) > 0 THEN s[Place(s, k)][2] ELSE NoItem>>
  /\ UNCHANGED <<tab, it>>

Clear(i) ==
  /\ it.on => it.id # i
  /\ Becomes(One(i, Empty(i)), <<"clear", i>>)

Copy(i, j) ==
  /\ i # j /\ (it.on => it.id # i)
  /\ Becomes(One(i, Copied(i, j)), <<"copy", i, j>>)

\* HashSet::join() and diff().
Join(i, j) ==
  i # j /\ Becomes(One(i, PutAll(tab[i], Size[i], InOrder(tab[j], Size[j]))),
                   <<"join", i, j>>)

Diff(i, j) ==
  /\ i # j /\ (it.on => it.id # i)
  /\ Becomes(One(i, FoldLeft(LAMBDA t, x : Remove_(t, Size[i], x[1]), tab[i],
                             InOrder(tab[j], Size[j]))), <<"diff", i, j>>)

\* HashSet::meet() looks each item up in the other set, which moves its nodes.
Meet(i, j) ==
  LET s == InOrder(tab[i], Size[i])
      c == FoldLeft(LAMBDA t, x : Find(t, Size[j], x[1]), tab[j], s)
      out == SelectSeq(s, LAMBDA x : ~Has(tab[j], Size[j], x[1]))
      t == FoldLeft(LAMBDA u, x : Remove_(u, Size[i], x[1]), tab[i], out)
  IN  /\ i # j /\ (it.on => it.id # i)
      /\ Becomes([x \in {i, j} |-> IF x = i THEN t ELSE c], <<"meet", i, j>>)

-----------------------------------------------------------------------------
(* The iterator: bucket i and node, here the key of the node.              *)

\* step(): the first chain from b on that has a node.
StepTo(x, b) ==
  LET t == tab[x.id]
      next == {c \in b .. Size[x.id] - 1 : t[c] # <<>>}
  IN  IF next = {} THEN [x EXCEPT !.i = Size[x.id], !.node = NoItem]
      ELSE [x EXCEPT !.i = Min(next), !.node = t[Min(next)][1][1],
                     !.seen = Append(@, t[Min(next)][1][1])]

\* next(): the node after this one in its chain as it is now.
NextNode(x, t) ==
  LET s == t[x.i] p == Place(s, x.node)
  IN  IF p < Len(s)
      THEN [x EXCEPT !.node = s[p + 1][1], !.seen = Append(@, s[p + 1][1])]
      ELSE StepTo(x, x.i + 1)

Ended(x) == x.i >= Size[x.id]

BeginIter(i) ==
  /\ ~it.on
  /\ it' = StepTo([NoIter EXCEPT !.on = TRUE, !.id = i], 0)
  /\ UNCHANGED <<tab, last>>

MaxSeen == 2 * Cardinality(Keys)   \* bound on the steps of a traversal

NextIter ==
  /\ it.on /\ ~it.self /\ ~Ended(it) /\ Len(it.seen) < MaxSeen
  /\ it.node # NoItem
  /\ it' = NextNode(it, tab[it.id])
  /\ UNCHANGED <<tab, last>>

EndIter ==
  /\ it.on /\ ~it.self
  /\ it' = NoIter
  /\ UNCHANGED <<tab, last>>

\* remove(iter): the node is unlinked and freed; the iterator, passed by a
\* constant reference, is not moved.
RemoveIter ==
  /\ Interfere /\ it.on /\ ~it.self /\ ~Ended(it) /\ it.node # NoItem
  /\ tab' = [tab EXCEPT ![it.id] = Remove_(@, Size[it.id], it.node)]
  /\ it' = [it EXCEPT !.node = NoItem]
  /\ last' = <<"remove", it.id, it.node>>

\* equals(*this) and containsAll(*this): each item is looked up on the way.
BeginSelf(i) ==
  /\ Interfere /\ ~it.on
  /\ it' = StepTo([NoIter EXCEPT !.on = TRUE, !.self = TRUE, !.id = i], 0)
  /\ UNCHANGED <<tab, last>>

LoopSelf ==
  /\ it.on /\ it.self
  /\ IF Ended(it) THEN it' = NoIter /\ UNCHANGED tab
     ELSE LET t == Find(tab[it.id], Size[it.id], it.node) IN
          /\ tab' = [tab EXCEPT ![it.id] = t]
          /\ it' = [NextNode(it, t) EXCEPT !.seen = <<>>]
  /\ UNCHANGED last

Next ==
  \/ \E i \in Ids :
       \/ Clear(i) \/ BeginIter(i) \/ BeginSelf(i)
       \/ \E k \in Keys : RemoveKey(i, k) \/ Get(i, k) \/ GetConst(i, k)
       \/ \E k \in Keys, v \in Vals : PutItem(i, k, v) \/ Add(i, k, v)
       \/ \E j \in Ids : Copy(i, j) \/ Join(i, j) \/ Diff(i, j) \/ Meet(i, j)
  \/ NextIter \/ EndIter \/ RemoveIter \/ LoopSelf

Spec == Init /\ [][Next]_vars

\* A loop of the code goes on until its end.
FairSpec == Spec /\ WF_vars(LoopSelf)

-----------------------------------------------------------------------------
(* Properties.                                                             *)

Content(i) == Range(InOrder(tab[i], Size[i]))

\* The types of the variables.
TypeOK ==
  /\ \A i \in Ids : \A b \in 0 .. Size[i] - 1 :
       \A x \in Range(tab[i][b]) : x[1] \in Keys /\ x[2] \in Vals
  /\ it.on => it.id \in Ids /\ it.i \in 0 .. Size[it.id]

\* put() ensures "there is only one data with the corresponding key", and a
\* key is always in the chain where it is looked for, through all moves.
OneItemPerKey == \A i \in Ids :
  /\ \A b \in 0 .. Size[i] - 1 : \A x \in Range(tab[i][b]) :
       b = Bucket(Size[i], x[1])
  /\ Len(InOrder(tab[i], Size[i])) = Cardinality({x[1] : x \in Content(i)})

\* Every operation has the effect and the result of the abstract collection;
\* the moves to the front are invisible.
Store == INSTANCE MapStore WITH items <- [i \in Ids |-> Content(i)]

\* A traversal visits an item at most once and, at its end, has visited all.
WalkIsExact ==
  it.on /\ ~it.self =>
    /\ IsInjective(it.seen)
    /\ Ended(it) => Range(it.seen) = {x[1] : x \in Content(it.id)}

\* "Test if both collections are equal": the test of a table with itself
\* returns.
SelfEqualsReturns == it.self ~> ~it.self

\* "True if all collection items are in the map, false else": the loop of
\* HashMap::containsAll() tests the collection, not the iterator, and reads
\* past its last item unless it finds a value that is missing.
MapContainsAll(i, j) ==
  IF Content(j) = {} THEN "true"
  ELSE IF \E x \in Content(j) : \A y \in Content(i) : x[2] # y[2] THEN "false"
  ELSE "past the end"

ContainsAllReturns == \A i, j \in Ids : MapContainsAll(i, j) \in {"true", "false"}

\* "The iterator is pushed to the next item": after remove(iter) the iterator
\* is on an item of the table or at its end.
IterStaysValid == it.on /\ ~Ended(it) => it.node # NoItem

=============================================================================
