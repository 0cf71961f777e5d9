------------------------------ MODULE Vectors ------------------------------
(***************************************************************************)
(* The growing arrays of ELM: Vector with the AllocArray that takes its    *)
(* detached table or a copy of its items, FragTable with its pages, and    *)
(* StaticStack.                                                            *)
(*                                                                         *)
(* A table is a buffer of the heap, a sequence of cells; a cell nobody     *)
(* wrote holds Junk.  Every write goes through a bounds check of the       *)
(* model, which records a write outside of the buffer.                     *)
(***************************************************************************)
EXTENDS Integers, Sequences, SequencesExt, FiniteSets, FiniteSetsExt

CONSTANTS
  Kinds,       \* the containers exercised: "vector", "frag", "anyfrag", "stack"
  Values,      \* for each kind, the items
  MaxLen,      \* for each kind, the bound on the length of a container
  FirstCap,    \* the capacity of a new vector
  PageSize,    \* FragTable::size, a power of two
  StackSize,   \* the parameter N of StaticStack
  Buffers      \* the names of the buffers, integers

VARIABLES
  kind,
  h,           \* the heap, and the fields of the two vectors and of the array
  frag,        \* FragTable: its pages and used
  stack,       \* two StaticStack: the cells and the top
  ref,         \* the items asked, of container 1, 2 and of the array
  bad          \* a write outside of a buffer happened

vars == <<kind, h, frag, stack, ref, bad>>

Parameters ==
  /\ Kinds \subseteq {"vector", "frag", "anyfrag", "stack"}
  /\ MaxLen \in [Kinds -> Nat]
  /\ {FirstCap, PageSize, StackSize} \subseteq Nat \ {0}
  /\ PageSize > 1 /\ 0 \notin Buffers /\ Cardinality(Buffers) >= 4

Junk == "junk"
V == {1, 2}                              \* the two vectors, or stacks
A == 3                                   \* the array, in ref
Null == 0

-----------------------------------------------------------------------------
(* Vector.  Buffers are taken from the heap, and given back.                *)

Fresh(g) == Min(Buffers \ g.live)

\* newVec() with some cells filled.
NewVec(g, items, size) ==
  [g EXCEPT !.live = @ \union {Fresh(g)},
            !.buf[Fresh(g)] = items \o [k \in 1 .. size - Len(items) |-> Junk]]

deleteVec(g, b) == IF b = Null THEN g ELSE [g EXCEPT !.live = @ \ {b}, !.buf[b] = <<>>]

\* The items of a table of cnt cells.
Cells(g, b, cnt) == IF b = Null THEN <<>> ELSE SubSeq(g.buf[b], 1, cnt)

\* array::copy() over the first cnt cells of a buffer.
Overwritten(t, source, cnt) == SubSeq(source, 1, cnt) \o SubSeq(t, cnt + 1, Len(t))

grow(g, l, c) ==
  LET v == g.vec[l]
      n == NewVec(g, Cells(g, v.tab, v.cnt), c)
  IN [deleteVec(n, v.tab) EXCEPT !.vec[l].tab = Fresh(g), !.vec[l].cap = c]

\* Mutation: a full vector is not enlarged.
GrowLate(g, l) == IF g.vec[l].cnt > g.vec[l].cap THEN grow(g, l, g.vec[l].cap * 2) ELSE g

GrowFull(g, l) == IF g.vec[l].cnt >= g.vec[l].cap THEN grow(g, l, g.vec[l].cap * 2) ELSE g

\* tab[k] = v, counted from 1.
InBounds(g, l, k) == g.vec[l].tab # Null /\ k \in DOMAIN g.buf[g.vec[l].tab]
Write(g, l, k, v) == IF InBounds(g, l, k) THEN [g EXCEPT !.buf[g.vec[l].tab][k] = v] ELSE g

add(g, l, v) ==
  LET n == GrowFull(g, l)
  IN [Write(n, l, n.vec[l].cnt + 1, v) EXCEPT !.vec[l].cnt = @ + 1]

\* The cells from i are moved up by one, and cell i written.
insert(g, l, i, v) ==
  LET n == GrowFull(g, l)
      tab == n.buf[n.vec[l].tab]
      cnt == n.vec[l].cnt
  IN [n EXCEPT !.buf[n.vec[l].tab] = SubSeq(tab, 1, i - 1) \o <<v>> \o SubSeq(tab, i, cnt)
                                     \o SubSeq(tab, cnt + 2, Len(tab)),
               !.vec[l].cnt = @ + 1]

removeAt(g, l, i) ==
  LET cnt == g.vec[l].cnt
      tab == g.buf[g.vec[l].tab]
  IN [g EXCEPT !.buf[g.vec[l].tab] =
                 SubSeq(tab, 1, i - 1) \o SubSeq(tab, i + 1, cnt) \o SubSeq(tab, cnt, Len(tab)),
               !.vec[l].cnt = @ - 1]

indexOf(g, l, v) ==
  LET K == {k \in 1 .. g.vec[l].cnt : g.buf[g.vec[l].tab][k] = v}
  IN IF K = {} THEN 0 ELSE Min(K)

remove(g, l, v) == IF indexOf(g, l, v) = 0 THEN g ELSE removeAt(g, l, indexOf(g, l, v))

\* The least power of two that is not below n.
PowerFor(n) == Min({c \in {1, 2, 4, 8, 16} : c >= n})

setLength(g, l, n) ==
  [(IF PowerFor(n) > g.vec[l].cap THEN grow(g, l, PowerFor(n)) ELSE g) EXCEPT !.vec[l].cnt = n]

\* The table is replaced when it is too small or missing.
copy(g, l, s) ==
  LET v == g.vec[l]
      w == g.vec[s]
      renewed == v.tab = Null \/ w.cnt > v.cap
      n == NewVec(g, <<>>, w.cap)
      to == IF renewed
            THEN [deleteVec(n, v.tab) EXCEPT !.vec[l].tab = Fresh(g), !.vec[l].cap = w.cap]
            ELSE g
      tab == to.vec[l].tab
  IN [to EXCEPT !.buf[tab] = Overwritten(to.buf[tab], to.buf[to.vec[s].tab], w.cnt),
                !.vec[l].cnt = w.cnt]

-----------------------------------------------------------------------------
(* AllocArray: it owns its buffer.                                          *)

\* tie() of the array that detach() returns: the old buffer is deleted.
TieDetached(g, l) ==
  [deleteVec(g, g.arr.buf) EXCEPT !.arr = [cnt |-> g.vec[l].cnt, buf |-> g.vec[l].tab],
                                  !.vec[l].tab = Null, !.vec[l].cnt = 0]

\* copy() of the items of a vector: a new buffer when there are more, and as
\* many items as both have.
CopyArray(g, l) ==
  LET v == g.vec[l]
      d == deleteVec(g, g.arr.buf)
      to == IF g.arr.cnt < v.cnt
            THEN [NewVec(d, <<>>, v.cnt) EXCEPT !.arr = [cnt |-> v.cnt, buf |-> Fresh(d)]]
            ELSE g
      cnt == Min({to.arr.cnt, v.cnt})
  IN IF to.arr.buf = Null THEN to
     ELSE [to EXCEPT !.buf[to.arr.buf] = Overwritten(to.buf[to.arr.buf], to.buf[v.tab], cnt),
                     !.arr.cnt = cnt]

fill(g, v) ==
  IF g.arr.buf = Null THEN g
  ELSE [g EXCEPT !.buf[g.arr.buf] = Overwritten(g.buf[g.arr.buf],
                                                [k \in 1 .. g.arr.cnt |-> v], g.arr.cnt)]

-----------------------------------------------------------------------------
(* FragTable: pages of PageSize cells, the last of which has used items.    *)

NewPage == <<>> \o [k \in 1 .. PageSize |-> Junk]
length(f) == (Len(f.pages) - 1) * PageSize + f.used

\* tab[i >> shf][i & msk], i from 0.
get(f, i) == f.pages[(i \div PageSize) + 1][(i % PageSize) + 1]
set(f, i, v) == [f EXCEPT !.pages[(i \div PageSize) + 1][(i % PageSize) + 1] = v]

FragAdd(f, v) ==
  LET n == IF f.used >= PageSize
           THEN [pages |-> Append(f.pages, NewPage), used |-> 0] ELSE f
  IN [n EXCEPT !.pages[Len(n.pages)][n.used + 1] = v, !.used = @ + 1]

\* Where add() writes: before the page when used is negative.
FragAddBad(f) == f.used < 0

\* A page is added for each time the items fill one, exactly or not.
alloc(f, count) ==
  LET room == PageSize - f.used
      turns == IF count < room THEN 0 ELSE 1 + (count - room) \div PageSize
  IN [pages |-> f.pages \o [k \in 1 .. turns |-> NewPage],
      used |-> IF turns = 0 THEN f.used + count ELSE (count - room) % PageSize]

\* alloc() leaves an empty page at the end.
Exact(f, count) == (count - (PageSize - f.used)) % PageSize = 0

FragInsert(f, i, v) ==
  LET len == length(f)
      a == alloc(f, 1)
      Moved == FoldLeft(LAMBDA g, k : set(g, len - k + 1, get(g, len - k)), a,
                        [k \in 1 .. len - i |-> k])
  IN set(Moved, i, v)

FragRemoveAt(f, i) ==
  LET Moved == FoldLeft(LAMBDA g, k : set(g, i + k - 1, get(g, i + k)), f,
                        [k \in 1 .. length(f) - i - 1 |-> k])
  IN IF f.used = 1 THEN [pages |-> Front(Moved.pages), used |-> PageSize]
     ELSE [Moved EXCEPT !.used = @ - 1]

shrink(f, len) ==
  [pages |-> SubSeq(f.pages, 1, (len + PageSize - 1) \div PageSize),
   used |-> IF len % PageSize = 0 THEN PageSize ELSE len % PageSize]

-----------------------------------------------------------------------------
(* StaticStack.                                                             *)

push(s, v) == [s EXCEPT !.s[s.t + 1] = v, !.t = @ + 1]

\* The search starts above the top: the cell there, outside of the stack or the
\* array, may hold anything.
MayContain(s, v) ==
  \/ \E k \in 1 .. s.t : s.s[k] = v
  \/ IF s.t = StackSize THEN TRUE ELSE s.s[s.t + 1] \in {v, Junk}

MustContain(s, v) ==
  \/ \E k \in 1 .. s.t : s.s[k] = v
  \/ s.t < StackSize /\ s.s[s.t + 1] = v

-----------------------------------------------------------------------------
(* The calls of the user.                                                   *)

NoFrag == [pages |-> <<>>, used |-> PageSize]
NoStack == [s |-> <<>> \o [k \in 1 .. StackSize |-> Junk], t |-> 0]

Init ==
  /\ kind \in Kinds
  /\ LET empty == [live |-> {}, buf |-> [b \in Buffers |-> <<>>],
                   vec |-> [l \in V |-> [tab |-> Null, cap |-> FirstCap, cnt |-> 0]],
                   arr |-> [cnt |-> 0, buf |-> Null]]
     IN h = grow(grow(empty, 1, FirstCap), 2, FirstCap)
  /\ frag = NoFrag /\ stack = [l \in V |-> NoStack]
  /\ ref = [l \in 1 .. 3 |-> <<>>] /\ bad = FALSE

VectorCall(g, l, items, wrong) ==
  /\ h' = g /\ ref' = [ref EXCEPT ![l] = items] /\ bad' = (bad \/ wrong)
  /\ UNCHANGED <<kind, frag, stack>>

\* A detached vector waits for grow() or copy().
Usable(l) == h.vec[l].tab # Null
More(l) == Len(ref[l]) < MaxLen[kind]

VectorCalls(l, s) ==
  \/ \E v \in Values[kind] :
       Usable(l) /\ More(l) /\ VectorCall(add(h, l, v), l, Append(ref[l], v),
                                          ~InBounds(GrowFull(h, l), l, h.vec[l].cnt + 1))
  \/ \E v \in Values[kind], i \in 1 .. Len(ref[l]) + 1 :
       Usable(l) /\ More(l) /\ VectorCall(insert(h, l, i, v), l, InsertAt(ref[l], i, v), FALSE)
  \/ \E i \in 1 .. Len(ref[l]) : VectorCall(removeAt(h, l, i), l, RemoveAt(ref[l], i), FALSE)
  \/ \E v \in ToSet(ref[l]) :
       VectorCall(remove(h, l, v), l,
                  RemoveAt(ref[l], Min({k \in DOMAIN ref[l] : ref[l][k] = v})), FALSE)
  \/ \E v \in Values[kind], i \in 1 .. Len(ref[l]) :
       VectorCall(Write(h, l, i, v), l, ReplaceAt(ref[l], i, v), ~InBounds(h, l, i))
  \* The items that setLength() makes appear are those the cells hold.
  \/ \E n \in 0 .. MaxLen[kind] :
       /\ Usable(l)
       /\ LET g == setLength(h, l, n)
          IN VectorCall(g, l, [k \in 1 .. n |-> IF k <= Len(ref[l]) THEN ref[l][k]
                                                ELSE g.buf[g.vec[l].tab][k]], FALSE)
  \/ Usable(s) /\ VectorCall(copy(h, l, s), l, ref[s], FALSE)
  \/ ~Usable(l) /\ VectorCall(grow(h, l, h.vec[l].cap), l, <<>>, FALSE)

\* The array takes the table of vector l, or copies its items.
ArrayCalls(l) ==
  \/ /\ Usable(l)
     /\ h' = TieDetached(h, l) /\ ref' = [ref EXCEPT ![l] = <<>>, ![A] = ref[l]]
     /\ UNCHANGED <<kind, frag, stack, bad>>
  \/ Usable(l) /\ VectorCall(CopyArray(h, l), A, ref[l], FALSE)
  \/ \E v \in Values[kind] :
       ref[A] # <<>> /\ VectorCall(fill(h, v), A, [k \in DOMAIN ref[A] |-> v], FALSE)

FragCall(f, items, wrong) ==
  /\ frag' = f /\ ref' = [ref EXCEPT ![1] = items] /\ bad' = (bad \/ wrong)
  /\ UNCHANGED <<kind, h, stack>>

\* insert() and alloc() that fill a page exactly leave a table that later calls
\* break; "frag" does without them.
MayFill(count) == kind = "anyfrag" \/ ~Exact(frag, count)

FragCalls ==
  LET r == ref[1]
  IN \/ \E v \in Values[kind] : More(1) /\ FragCall(FragAdd(frag, v), Append(r, v), FragAddBad(frag))
     \/ \E v \in Values[kind], i \in 0 .. Len(r) :
          /\ More(1) /\ MayFill(1)
          /\ FragCall(FragInsert(frag, i, v), InsertAt(r, i + 1, v), FALSE)
     \/ \E i \in 0 .. Len(r) - 1 : FragCall(FragRemoveAt(frag, i), RemoveAt(r, i + 1), FALSE)
     \/ \E v \in Values[kind], i \in 0 .. Len(r) - 1 :
          FragCall(set(frag, i, v), ReplaceAt(r, i + 1, v), FALSE)
     \/ \E n \in 0 .. Len(r) - 1 : FragCall(shrink(frag, n), SubSeq(r, 1, n), FALSE)
     \/ \E n \in 1 .. MaxLen[kind] - Len(r) :
          MayFill(n) /\ FragCall(alloc(frag, n), r \o [k \in 1 .. n |->
                                   get(alloc(frag, n), Len(r) + k - 1)], FALSE)
     \/ FragCall(NoFrag, <<>>, FALSE)

StackCall(l, s, items) ==
  /\ stack' = [stack EXCEPT ![l] = s] /\ ref' = [ref EXCEPT ![l] = items]
  /\ UNCHANGED <<kind, h, frag, bad>>

StackCalls(l, s) ==
  \/ \E v \in Values[kind] :
       stack[l].t # StackSize /\ StackCall(l, push(stack[l], v), Append(ref[l], v))
  \/ stack[l].t # 0 /\ StackCall(l, [stack[l] EXCEPT !.t = @ - 1], Front(ref[l]))
  \/ StackCall(l, [stack[l] EXCEPT !.t = 0], <<>>)
  \/ StackCall(l, [t |-> stack[s].t,
                   s |-> Overwritten(stack[l].s, stack[s].s, stack[s].t)], ref[s])

Next ==
  \/ \E l \in V, s \in V : kind = "vector" /\ VectorCalls(l, s)
  \/ \E l \in V : kind = "vector" /\ ArrayCalls(l)
  \/ kind \in {"frag", "anyfrag"} /\ FragCalls
  \/ \E l \in V, s \in V : kind = "stack" /\ StackCalls(l, s)

Spec == Init /\ [][Next]_vars

-----------------------------------------------------------------------------
(* Properties.                                                              *)

\* After any calls, the vectors, the array, the table and the stacks hold the
\* items the calls ask for, in their order.
ItemsExact ==
  /\ kind = "vector" =>
       /\ \A l \in V : Cells(h, h.vec[l].tab, h.vec[l].cnt) = ref[l]
       /\ Cells(h, h.arr.buf, h.arr.cnt) = ref[A]
  /\ kind = "frag" =>
       /\ length(frag) = Len(ref[1])
       /\ \A i \in 1 .. Len(ref[1]) : get(frag, i - 1) = ref[1][i]
  /\ kind = "stack" => \A l \in V : SubSeq(stack[l].s, 1, stack[l].t) = ref[l]

\* A table has the capacity its vector believes, a buffer one owner, and no
\* buffer is lost: neither when a vector grows or is copied, nor when the array
\* takes the table of a vector.
BuffersExact ==
  kind = "vector" =>
    LET owners == <<h.vec[1].tab, h.vec[2].tab, h.arr.buf>>
    IN /\ \A l \in V : Usable(l) => Len(h.buf[h.vec[l].tab]) = h.vec[l].cap
       /\ \A a, b \in 1 .. 3 : a # b /\ owners[a] # Null => owners[a] # owners[b]
       /\ h.live = ToSet(owners) \ {Null}

\* No call writes outside of a table or of a page; the last page of a table
\* holds an item.
WritesInside == kind \in {"vector", "frag"} => ~bad /\ frag.used \in 1 .. PageSize

\* StaticStack::contains() misses no item, and finds nothing that the stack and
\* the cell above its top do not hold.
StackSearch ==
  kind = "stack" =>
    \A l \in V, v \in Values[kind] :
      /\ v \in ToSet(ref[l]) => MustContain(stack[l], v)
      /\ MustContain(stack[l], v) => MayContain(stack[l], v)

\* FragTable::add(): "Add an item to the table" (src/data_FragTable.cpp:130).
AddedIsThere ==
  kind = "anyfrag" => ~bad
=============================================================================
