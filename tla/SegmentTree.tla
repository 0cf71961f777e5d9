----------------------------- MODULE SegmentTree -----------------------------
(***************************************************************************)
(* elm::stree (include/elm/stree/Tree.h, Builder.h, MarkerBuilder.h,       *)
(* SegmentBuilder.h): a static binary tree, laid out in one array, that    *)
(* maps a key to the value of the segment that holds it.  A builder        *)
(* collects segments or marks, writes the leaves in key order, then the    *)
(* inner nodes behind them; get() walks from the root.                     *)
(***************************************************************************)
EXTENDS Integers, Sequences, FiniteSets, FiniteSetsExt, SequencesExt

CONSTANTS
  MaxKey,    \* keys are 0 .. MaxKey
  Vals,      \* values of segments
  Def        \* default value: of SegmentBuilder and of get(key, def)

\* What the constants are assumed to be.
Parameters ==
  /\ MaxKey \in Nat
  /\ Def \notin Vals

Keys == 0 .. MaxKey
NoNode == -1

VARIABLES
  kind,     \* "segment" or "marker": the builder in use
  segs,     \* SegmentBuilder::segs, ordered by low bound: low -> <<high, val>>
  marks,    \* MarkerBuilder::marks: mark -> val
  nodes,    \* the node array of the tree
  room,     \* number of nodes that were allocated for it
  root      \* index of the root, NoNode for an uninitialized tree

vars == <<kind, segs, marks, nodes, room, root>>

NoMap == [x \in {} |-> Def]
Put(m, k, v) == [x \in DOMAIN m \union {k} |-> IF x = k THEN v ELSE m[x]]
Ordered(m) == SetToSortSeq(DOMAIN m, <)

-----------------------------------------------------------------------------
(* Building.                                                                *)

Leaf(lo, hi, v) == [lb |-> lo, ub |-> hi, ll |-> NoNode, rl |-> NoNode, data |-> v]
Inner(ns, l, r) == [lb |-> ns[l + 1].lb, ub |-> ns[r + 1].ub, ll |-> l,
                    rl |-> r, data |-> Def]

leastUpperPowerOf2(n) ==
  IF n = 0 THEN 0 ELSE Min({k \in {2 ^ m : m \in 0 .. n} : k >= n})

allocate(n) == n + leastUpperPowerOf2(n) - 1

\* Builder::make: the array extended with the inner nodes of the leaves
\* start .. end, and the index of their root.
RECURSIVE make(_, _, _)
make(ns, start, end) ==
  IF start = end THEN <<ns, start>>
  ELSE LET m == (start + end) \div 2
           l == make(ns, start, m)
           u == make(l[1], m + 1, end)
       IN  <<Append(u[1], Inner(u[1], l[2], u[2])), Len(u[1])>>

\* SegmentBuilder::make: a leaf for each segment, and one with the default
\* value for each gap between two of them.
GapBefore(s, n) == n > 1 /\ segs[s[n - 1]][1] # s[n]

SegmentLeaves ==
  LET s == Ordered(segs) IN
  FlattenSeq([n \in 1 .. Len(s) |->
    (IF GapBefore(s, n) THEN <<Leaf(segs[s[n - 1]][1], s[n], Def)>> ELSE <<>>)
    \o <<Leaf(s[n], segs[s[n]][1], segs[s[n]][2])>>])

SegmentCount ==
  LET s == Ordered(segs) IN
  Len(s) + Cardinality({n \in 1 .. Len(s) : GapBefore(s, n)})

\* MarkerBuilder::make: a leaf from each mark to the next one.
MarkerLeaves ==
  LET s == Ordered(marks) IN
  [n \in 1 .. Len(s) - 1 |-> Leaf(s[n], s[n + 1], marks[s[n]])]

-----------------------------------------------------------------------------
(* Looking up.                                                              *)

contains(key) == key >= nodes[root + 1].lb /\ key <= nodes[root + 1].ub

\* Mutant: the comparison sends the lower bound of the right son to the left.
RECURSIVE walkLeft(_, _)
walkLeft(key, n) ==
  IF nodes[n + 1].ll = NoNode THEN n
  ELSE IF key <= nodes[nodes[n + 1].rl + 1].lb
       THEN walkLeft(key, nodes[n + 1].ll)
       ELSE walkLeft(key, nodes[n + 1].rl)

\* The loop of Tree::find.
RECURSIVE walk(_, _)
walk(key, n) ==
  IF nodes[n + 1].ll = NoNode THEN n
  ELSE IF key < nodes[nodes[n + 1].rl + 1].lb
       THEN walk(key, nodes[n + 1].ll)
       ELSE walk(key, nodes[n + 1].rl)

get(key) == IF contains(key) THEN nodes[walk(key, root) + 1].data ELSE Def

-----------------------------------------------------------------------------
(* The operations.                                                          *)

Init ==
  /\ kind \in {"segment", "marker"}
  /\ segs = NoMap /\ marks = NoMap /\ nodes = <<>> /\ room = 0 /\ root = NoNode

\* Segments are disjoint: what the code asks of its caller.
Apart(lo, hi) == \A s \in DOMAIN segs : hi <= s \/ segs[s][1] <= lo

addSegment(lo, hi, v) ==
  /\ kind = "segment" /\ root = NoNode
  /\ lo < hi /\ Apart(lo, hi)
  /\ segs' = Put(segs, lo, <<hi, v>>)
  /\ UNCHANGED <<kind, marks, nodes, room, root>>

addMark(mark, v) ==
  /\ kind = "marker" /\ root = NoNode
  /\ marks' = Put(marks, mark, v)
  /\ UNCHANGED <<kind, segs, nodes, room, root>>

\* SegmentBuilder::make leaves the tree as it is when there is no segment.
makeSegments ==
  /\ kind = "segment" /\ root = NoNode
  /\ IF segs = NoMap THEN UNCHANGED <<nodes, room, root>>
     ELSE LET t == make(SegmentLeaves, 0, Len(SegmentLeaves) - 1)
          IN  nodes' = t[1] /\ root' = t[2] /\ room' = allocate(SegmentCount)
  /\ UNCHANGED <<kind, segs, marks>>

\* MarkerBuilder::make needs two marks: the last one only ends a segment.
makeMarkers ==
  /\ kind = "marker" /\ root = NoNode /\ Cardinality(DOMAIN marks) > 1
  /\ LET t == make(MarkerLeaves, 0, Len(MarkerLeaves) - 1)
     IN  nodes' = t[1] /\ root' = t[2]
  /\ room' = allocate(Cardinality(DOMAIN marks))
  /\ UNCHANGED <<kind, segs, marks>>

Next ==
  \/ \E lo, hi \in Keys, v \in Vals : addSegment(lo, hi, v)
  \/ \E k \in Keys, v \in Vals : addMark(k, v)
  \/ makeSegments \/ makeMarkers

Spec == Init /\ [][Next]_vars

-----------------------------------------------------------------------------
(* Properties.                                                              *)

\* The value of a key, read off the segments or the marks.
Reference(key) ==
  IF kind = "segment"
  THEN LET in == {s \in DOMAIN segs : s <= key /\ key < segs[s][1]}
       IN  IF in = {} THEN Def ELSE segs[CHOOSE s \in in : TRUE][2]
  ELSE LET below == {m \in DOMAIN marks : m <= key}
       IN  IF below = {} \/ \A m \in DOMAIN marks : m <= key
           THEN Def ELSE marks[Max(below)]

UpperEnd == IF kind = "segment" THEN Max({segs[s][1] : s \in DOMAIN segs})
            ELSE Max(DOMAIN marks)

\* A look-up finds the value of the segment that holds the key and the
\* default value elsewhere, for every key but the upper end of the tree.
GetsSegment ==
  root # NoNode => \A k \in Keys \ {UpperEnd} : get(k) = Reference(k)

\* Builder::make stays inside the array Builder::allocate reserved, and the
\* root spans all the segments.
FitsAllocation ==
  root # NoNode =>
    /\ Len(nodes) <= room
    /\ root = Len(nodes) - 1
    /\ nodes[root + 1].ub = UpperEnd

-----------------------------------------------------------------------------
(* What the documentation says and the code does not do.                    *)

\* "@param high High value of the segment (exclusive)": the upper end of the
\* last segment is in no segment.
UpperEndExclusive == root # NoNode => get(UpperEnd) = Def
=============================================================================
