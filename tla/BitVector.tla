----------------------------- MODULE BitVector -----------------------------
(***************************************************************************)
(* The plain bit vectors of elm (include/elm/util/BitVector.h,             *)
(* src/util_BitVector.cpp): a size in bits and an array of words of W bits *)
(* (8 in the code).  raw is the set of the positions of the array at one,  *)
(* the padding after the size in the last word included: several updates   *)
(* put ones there, and only some of the queries mask them away, in their   *)
(* own vector and never in their argument.                                 *)
(*                                                                         *)
(* ref keeps the set of bits each vector stands for, fault what went wrong *)
(* with memory or an assertion, after which the program is dead.           *)
(***************************************************************************)
EXTENDS Integers, FiniteSets

CONSTANTS
    W,          \* bits of a word
    Sizes,      \* the sizes given to constructors and to resize()
    Avoid       \* the calls known to go wrong that the program avoids:
                \*   "extend" building from a vector with a larger size
                \*   "assign" = between sizes that take as many words
                \*   "null"   = from a default vector to another

ASSUME WordAssumption == W \in Nat \ {0}
ASSUME SizesAssumption == Sizes \subseteq Nat \ {0}
ASSUME AvoidAssumption == Avoid \subseteq {"extend", "assign", "null"}

VARIABLES vec, ref, fault

vars == <<vec, ref, fault>>

Vectors == {"a", "b"}

-----------------------------------------------------------------------------
(* The layout.                                                             *)

InWords(s) == (s + W - 1) \div W
WCount(v) == InWords(v.size)
Used(v) == 0..(v.size - 1)
Words(n) == 0..(n * W - 1)

\* Mutant: the padding stays.
MaskNothing(v) == v

\* mask(): nothing to do when the size is a number of whole words.
Mask(v) == [v EXCEPT !.raw = @ \intersect Used(v)]

Null == [size |-> 0, mem |-> 0, raw |-> {}]

Make(s, raw) == [size |-> s, mem |-> InWords(s), raw |-> raw \intersect Words(InWords(s))]

\* memset() with 0xff sets the padding too.
BitVector(s, one) == Make(s, IF one THEN Words(InWords(s)) ELSE {})

-----------------------------------------------------------------------------
(* The queries.  The vector itself is masked first by most of them.        *)

Bit(v, i) == i \in v.raw

IsEmpty(v) == Mask(v).raw = {}

Includes(v, w) == w.raw \subseteq Mask(v).raw

IncludesStrictly(v, w) == Includes(v, w) /\ Mask(v).raw # w.raw

Equals(v, w) == Mask(v).raw = w.raw

Meets(v, w) ==
    \E i \in v.raw \intersect w.raw : i \div W < WCount(v) /\ i \div W < WCount(w)

CountBits(v) == Cardinality(v.raw)
CountOnes(v) == Cardinality(v.raw)
CountZeroes(v) == CountBits(v) - CountOnes(v)

-----------------------------------------------------------------------------
(* The updates.                                                            *)

Init ==
    /\ vec = [v \in Vectors |-> Null]
    /\ ref = [v \in Vectors |-> {}]
    /\ fault = "none"

\* v becomes x, which stands for the bits s.
Becomes(v, x, s) ==
    /\ fault = "none"
    /\ vec' = [vec EXCEPT ![v] = x]
    /\ ref' = [ref EXCEPT ![v] = s]
    /\ UNCHANGED fault

Fails(why) ==
    /\ fault' = why
    /\ UNCHANGED <<vec, ref>>

\* ~BitVector() and a new vector.
Construct(v, s, one) ==
    Becomes(v, BitVector(s, one), IF one THEN 0..(s - 1) ELSE {})

Default(v) == Becomes(v, Null, {})

\* BitVector(w, s): the copy of an extension takes a size in bits for a number
\* of words.  What the bits beyond the old size become is not specified: they
\* are as the words have them.
Sized(v, w, s) ==
    /\ fault = "none"
    /\ "extend" \in Avoid => s < vec[w].size
    /\ IF s >= vec[w].size /\ vec[w].size > InWords(s)
       THEN Fails("write beyond the array")
       ELSE LET x == Make(s, IF s >= vec[w].size THEN vec[w].raw
                             ELSE vec[w].raw \intersect 0..(s - 1))
            IN  Becomes(v, x, {i \in 0..(s - 1) : IF i < vec[w].size THEN i \in ref[w]
                                                  ELSE i \in x.raw})

CopyConstruct(v, w) == Becomes(v, Make(vec[w].size, vec[w].raw), ref[w])

\* operator=(): copy() asserts that the sizes are the same.
Assign(v, w) ==
    /\ fault = "none"
    /\ "assign" \in Avoid => (WCount(vec[v]) = WCount(vec[w]) => vec[v].size = vec[w].size)
    /\ "null" \in Avoid => (vec[w] = Null => vec[v] = Null)
    /\ IF WCount(vec[v]) > 0 /\ WCount(vec[v]) = WCount(vec[w])
       THEN IF vec[v].size = vec[w].size
            THEN Becomes(v, [vec[v] EXCEPT !.raw = vec[w].raw], ref[w])
            ELSE Fails("assertion")
       ELSE IF vec[w].mem = 0
            THEN Becomes(v, [vec[v] EXCEPT !.mem = 0, !.raw = {}], ref[w])
            ELSE Becomes(v, Make(vec[w].size, vec[w].raw), ref[w])

\* A vector whose words pointer is null is not touched further.
Sound(v) == vec[v].mem = WCount(vec[v])

Set(v, i) ==
    /\ Sound(v)
    /\ Becomes(v, [vec[v] EXCEPT !.raw = @ \union {i}], ref[v] \union {i})

Clear(v, i) ==
    /\ Sound(v)
    /\ Becomes(v, [vec[v] EXCEPT !.raw = @ \ {i}], ref[v] \ {i})

SetAll(v) ==
    /\ Sound(v)
    /\ Becomes(v, Mask([vec[v] EXCEPT !.raw = Words(WCount(vec[v]))]), Used(vec[v]))

ClearAll(v) ==
    /\ Sound(v)
    /\ Becomes(v, [vec[v] EXCEPT !.raw = {}], {})

Same(v, w) == Sound(v) /\ Sound(w) /\ vec[v].size = vec[w].size

ApplyNot(v) ==
    /\ Sound(v)
    /\ Becomes(v, [vec[v] EXCEPT !.raw = Words(WCount(vec[v])) \ @], Used(vec[v]) \ ref[v])

ApplyOr(v, w) ==
    /\ Same(v, w)
    /\ Becomes(v, [vec[v] EXCEPT !.raw = @ \union vec[w].raw], ref[v] \union ref[w])

ApplyAnd(v, w) ==
    /\ Same(v, w)
    /\ Becomes(v, [vec[v] EXCEPT !.raw = @ \intersect vec[w].raw], ref[v] \intersect ref[w])

\* Mutant: the complement is taken of the wrong operand.
ApplyResetSwapped(v, w) ==
    /\ Same(v, w)
    /\ Becomes(v, Mask([vec[v] EXCEPT !.raw = vec[w].raw \ @]), ref[v] \ ref[w])

ApplyReset(v, w) ==
    /\ Same(v, w)
    /\ Becomes(v, Mask([vec[v] EXCEPT !.raw = @ \ vec[w].raw]), ref[v] \ ref[w])

\* v = v.makeX(w): a new vector, then assigned to v.
MakeNot(v, w) ==
    /\ Same(v, w) /\ vec[w].size > 0
    /\ Becomes(v, Make(vec[w].size, Words(WCount(vec[w])) \ vec[w].raw), Used(vec[w]) \ ref[w])

MakeOr(v, w) ==
    /\ Same(v, w) /\ vec[v].size > 0
    /\ Becomes(v, Make(vec[v].size, vec[v].raw \union vec[w].raw), ref[v] \union ref[w])

MakeAnd(v, w) ==
    /\ Same(v, w) /\ vec[v].size > 0
    /\ Becomes(v, Make(vec[v].size, vec[v].raw \intersect vec[w].raw), ref[v] \intersect ref[w])

MakeReset(v, w) ==
    /\ Same(v, w) /\ vec[v].size > 0
    /\ Becomes(v, Make(vec[v].size, vec[v].raw \ vec[w].raw), ref[v] \ ref[w])

\* resize(): words added are not initialised, and bits given up in the last
\* word come back when the vector grows again.
Resize(v, s) ==
    /\ Sound(v)
    /\ \E junk \in SUBSET (Words(InWords(s)) \ Words(WCount(vec[v]))) :
          LET x == Make(s, vec[v].raw \union junk)
          IN  Becomes(v, x, {i \in 0..(s - 1) : IF i < vec[v].size THEN i \in ref[v]
                                                ELSE i \in x.raw})

\* isEmpty(), includes(), includesStrictly() and equals() mask their vector.
Query(v) == Sound(v) /\ Becomes(v, Mask(vec[v]), ref[v])

Next ==
    \E v \in Vectors :
        \/ \E s \in Sizes : \/ Resize(v, s)
                            \/ \E one \in BOOLEAN : Construct(v, s, one)
                            \/ \E w \in Vectors : w # v /\ Sound(w) /\ Sized(v, w, s)
        \/ \E i \in Used(vec[v]) : Set(v, i) \/ Clear(v, i)
        \/ \E w \in Vectors :
              \/ Sound(v) /\ Sound(w) /\ Assign(v, w)
              \/ Sound(w) /\ CopyConstruct(v, w)
              \/ ApplyOr(v, w) \/ ApplyAnd(v, w) \/ ApplyReset(v, w)
              \/ MakeNot(v, w) \/ MakeOr(v, w) \/ MakeAnd(v, w) \/ MakeReset(v, w)
        \/ SetAll(v) \/ ClearAll(v) \/ ApplyNot(v) \/ Query(v) \/ Default(v)

Spec == Init /\ [][Next]_vars

-----------------------------------------------------------------------------
(* Properties.                                                             *)

\* Type invariant: sizes, numbers of words and sets of positions.
TypeOK ==
    /\ vec \in [Vectors -> [size : Nat, mem : Nat, raw : SUBSET Nat]]
    /\ ref \in [Vectors -> SUBSET Nat]
    /\ fault \in {"none", "assertion", "write beyond the array"}

Clean(v) == v.raw \subseteq Used(v)

\* bit() is what the updates up to now make of each bit, whatever they leave
\* in the padding.
BitsExact ==
    \A v \in Vectors : Sound(v) => vec[v].raw \intersect Used(vec[v]) = ref[v]

\* The array has the words of the size and nothing is at one beyond them.
Allocated ==
    \A v \in Vectors : Sound(v) /\ vec[v].raw \subseteq Words(vec[v].mem)

\* The comparisons, which mask their own vector, are right on an argument
\* without ones in its padding.
CleanComparisons ==
    \A v, w \in Vectors : Same(v, w) /\ Clean(vec[w]) =>
        /\ Equals(vec[v], vec[w]) <=> ref[v] = ref[w]
        /\ Includes(vec[v], vec[w]) <=> ref[w] \subseteq ref[v]
        /\ IncludesStrictly(vec[v], vec[w]) <=> ref[w] \subseteq ref[v] /\ ref[v] # ref[w]
        /\ IsEmpty(vec[v]) <=> ref[v] = {}

\* equals() compares the bits of any two vectors of the same size.
EqualsExact ==
    \A v, w \in Vectors : Same(v, w) => (Equals(vec[v], vec[w]) <=> ref[v] = ref[w])

\* meets() tells whether two vectors have a bit at one in common.
MeetsExact ==
    \A v, w \in Vectors : Sound(v) /\ Sound(w) =>
        (Meets(vec[v], vec[w]) <=> ref[v] \intersect ref[w] # {})

\* countOnes() is the number of bits at one.
OnesExact == \A v \in Vectors : Sound(v) => CountOnes(vec[v]) = Cardinality(ref[v])

\* countZeroes() is the number of bits at zero.
ZeroesExact ==
    \A v \in Vectors : Sound(v) /\ Clean(vec[v]) =>
        CountZeroes(vec[v]) = vec[v].size - Cardinality(ref[v])

\* Every call stays inside the arrays it allocates.
WritesInBounds == fault # "write beyond the array"

\* An assignment ends with the two vectors equal, whatever their sizes: it
\* never fails the assertion of copy().
AssignNeverAborts == fault # "assertion"
=============================================================================
