----------------------------- MODULE WAHVector -----------------------------
(***************************************************************************)
(* The compressed bit vectors of elm (include/elm/util/WAHVector.h,        *)
(* src/util_WAHVector.cpp): a vector is a sequence of words, each either a *)
(* literal of W bits or a fill, a number of words that are all zeroes or   *)
(* all ones, and rem, the number of bits in use in the last word (0 when   *)
(* all are).  W is 31 in the code.                                         *)
(*                                                                         *)
(* A word is [fill, bits, count].  bits is the set of its bits at one (all *)
(* or none of 0..W-1 in a fill), count is 1 in a literal.  Bit 30 of the   *)
(* code's word is the sort of a fill and the top bit of a literal, so that *)
(* isOnes() and isZeroes(), which do not look at FILL, read bits alike in  *)
(* both.  The binary operations consume the common length of two fills in  *)
(* one push; a word at a time gives the same words, as pushFill() merges.  *)
(*                                                                         *)
(* Two vectors of N bits are worked on, ref keeps the sets they stand for, *)
(* mem what the words pointer is: "owned", or "freed" once copy() from a   *)
(* vector without words has deleted the array and kept the pointer.        *)
(***************************************************************************)
EXTENDS Integers, Sequences, SequencesExt, FiniteSets, FiniteSetsExt

CONSTANTS
    W,          \* bits of a literal
    N,          \* bits of the vectors
    Avoid       \* the calls known to go wrong that the program avoids:
                \*   "fix"   an update after which fix() counts up a literal
                \*   "make"  makeX() when the last word is partly used
                \*   "all"   set(void), clear(void) unless one word is partly used

\* What the constants are assumed to be.
Parameters ==
  /\ W \in Nat /\ W > 1 /\ N \in Nat \ {0}
  /\ Avoid \subseteq {"fix", "make", "all"}

VARIABLES
    vec,        \* vec[v]: the words and rem of vector v
    ref,        \* ref[v]: the set of bits it should have at one
    mem         \* mem[v]: what its pointer words is

vars == <<vec, ref, mem>>

Vectors == {"a", "b"}
Bits == 0..(N - 1)
AllOnes == 0..(W - 1)
Mask(n) == 0..(n - 1)

-----------------------------------------------------------------------------
(* Words and their builder.                                                *)

Lite(s) == [fill |-> FALSE, bits |-> s, count |-> 1]

Fill(n, ones) == [fill |-> TRUE, bits |-> IF ones THEN AllOnes ELSE {}, count |-> n]

IsOnes(w) == W - 1 \in w.bits

PushFill(b, w) ==
    IF b # <<>> /\ Last(b).fill /\ IsOnes(Last(b)) = IsOnes(w)
    THEN [b EXCEPT ![Len(b)].count = @ + w.count]
    ELSE Append(b, w)

PushLite(b, s) ==
    IF s \in {{}, AllOnes} THEN PushFill(b, Fill(1, s = AllOnes)) ELSE Append(b, Lite(s))

Push(b, w) == IF w.fill THEN PushFill(b, w) ELSE PushLite(b, w.bits)

\* words[k]++ on the bare 32-bit word: one more word in a fill, the next
\* integer in a literal, whose carry out of the top bit reaches FILL.
Increment(w) ==
    IF w.fill THEN [w EXCEPT !.count = @ + 1]
    ELSE IF w.bits = AllOnes THEN Fill(0, FALSE)
    ELSE LET low == Min(AllOnes \ w.bits)
         IN  Lite({low} \union {i \in w.bits : i > low})

\* builder::fix(): the bits beyond rem of a last literal are dropped, and the
\* literal joins the word before when it has become uniform.
FixJoins(b, r) ==
    LET s == Last(b).bits \intersect Mask(r)
    IN  /\ r # 0 /\ ~Last(b).fill /\ s \in {{}, Mask(r)} /\ Len(b) >= 2
        /\ IsOnes(b[Len(b) - 1]) = (s = Mask(r))

Fix(b, r) ==
    LET s == Last(b).bits \intersect Mask(r)
        n == Len(b)
    IN  IF r = 0 \/ Last(b).fill THEN b
        ELSE IF FixJoins(b, r) THEN [Front(b) EXCEPT ![n - 1] = Increment(@)]
        ELSE IF s \in {{}, Mask(r)} THEN [b EXCEPT ![n] = Fill(1, s = Mask(r))]
        ELSE [b EXCEPT ![n] = Lite(s)]

-----------------------------------------------------------------------------
(* Reading a vector.                                                       *)

\* What iter gives one word after the other.
Units(ws) == FlattenSeq([k \in DOMAIN ws |-> [j \in 1..ws[k].count |-> ws[k].bits]])

\* WAHVector::bit(); beyond the last word the assertion fails.
Bit(v, i) ==
    LET u == Units(v.words)
    IN  i \div W < Len(u) /\ i % W \in u[i \div W + 1]

IsEmpty(v) ==
    /\ ~IsOnes(v.words[1])
    /\ Len(v.words) = 1 \/ (Len(v.words) = 2 /\ v.words[2] = Lite({}))

IsFull(v) ==
    /\ IsOnes(v.words[1])
    /\ Len(v.words) = 1 \/ (Len(v.words) = 2 /\ v.words[2] = Lite(Mask(v.rem)))

Equals(v, w) == v.words = w.words

Includes(v, w) ==
    LET u == Units(v.words)
        t == Units(w.words)
    IN  /\ Len(u) = Len(t)
        /\ \A k \in DOMAIN u : t[k] \subseteq u[k]

Size(v) == W * Len(Units(v.words)) - (IF v.rem = 0 THEN 0 ELSE W - v.rem)

CountOnes(v) ==
    LET last == Last(v.words)
    IN  FoldLeft(LAMBDA n, w : n + w.count * Cardinality(w.bits), 0, v.words)
        - (IF v.rem = 0 THEN 0
           ELSE Cardinality(last.bits \ Mask(v.rem)))

-----------------------------------------------------------------------------
(* Writing a vector.                                                       *)

\* The words up to k, as rewritten, then the tail of which the first word
\* only is pushed.
Replace(ws, k, done) ==
    IF k = Len(ws) THEN done
    ELSE Push(done, ws[k + 1]) \o SubSeq(ws, k + 2, Len(ws))

\* The word that holds bit i, and the number of words before it.
Before(ws, k) == FoldLeft(LAMBDA n, w : n + w.count, 0, SubSeq(ws, 1, k - 1))
Holder(ws, i) == CHOOSE k \in DOMAIN ws :
                    /\ Before(ws, k) <= i \div W
                    /\ i \div W < Before(ws, k) + ws[k].count

\* Mutant: the words of a split fill after the literal are one too many.
SetToWide(ws, i, one) ==
    LET k == Holder(ws, i)
        w == ws[k]
        s == IF one THEN w.bits \union {i % W} ELSE w.bits \ {i % W}
        before == i \div W - Before(ws, k)
        after == w.count - before
        Some(b, n) == IF n = 0 THEN b ELSE Append(b, Fill(n, ~one))
        New(b) == IF ~w.fill THEN PushLite(b, s)
                  ELSE IF IsOnes(w) = one THEN Append(b, w)
                  ELSE Some(PushLite(Some(b, before), s), after)
    IN  Replace(ws, k, New(SubSeq(ws, 1, k - 1)))

\* set(index) and clear(index): a literal is rewritten, a fill of the wrong
\* sort is split around a new literal.
SetTo(ws, i, one) ==
    LET k == Holder(ws, i)
        w == ws[k]
        s == IF one THEN w.bits \union {i % W} ELSE w.bits \ {i % W}
        before == i \div W - Before(ws, k)
        after == w.count - before - 1
        Some(b, n) == IF n = 0 THEN b ELSE Append(b, Fill(n, ~one))
        New(b) == IF ~w.fill THEN PushLite(b, s)
                  ELSE IF IsOnes(w) = one THEN Append(b, w)
                  ELSE Some(PushLite(Some(b, before), s), after)
    IN  Replace(ws, k, New(SubSeq(ws, 1, k - 1)))

\* doAnd(), doOr(), doReset(), doNot().
Combine(us) == FoldLeft(PushLite, <<>>, us)

DoAnd(v, w) ==
    LET u == Units(v.words) t == Units(w.words)
    IN  Combine([k \in DOMAIN u |-> u[k] \intersect t[k]])

DoOr(v, w) ==
    LET u == Units(v.words) t == Units(w.words)
    IN  Combine([k \in DOMAIN u |-> u[k] \union t[k]])

DoReset(v, w) ==
    LET u == Units(v.words) t == Units(w.words)
    IN  Combine([k \in DOMAIN u |-> u[k] \ t[k]])

DoNot(v) ==
    LET u == Units(v.words)
    IN  Combine([k \in DOMAIN u |-> AllOnes \ u[k]])

-----------------------------------------------------------------------------
(* The operations.                                                         *)

\* fix() joins only fills.
Usable(b, r) == "fix" \in Avoid => ~(FixJoins(b, r) /\ ~b[Len(b) - 1].fill)

\* makeX() gives its result no rem of its own.
MayMake == "make" \in Avoid => N % W = 0

Made(init) ==
    [words |-> <<Fill(N \div W + (IF N % W = 0 THEN 0 ELSE 1), init)>>, rem |-> N % W]

Init ==
    /\ \E init \in BOOLEAN :
          /\ vec = [v \in Vectors |-> Made(init)]
          /\ ref = [v \in Vectors |-> IF init THEN Bits ELSE {}]
    /\ mem = [v \in Vectors |-> "owned"]

\* The end of an operation whose builder holds b: the old array is deleted.
Assign(v, b, r, rem, bits) ==
    /\ Usable(b, r)
    /\ vec' = [vec EXCEPT ![v] = [words |-> Fix(b, r), rem |-> rem]]
    /\ ref' = [ref EXCEPT ![v] = bits]
    /\ UNCHANGED mem

Alive(v) == mem[v] = "owned"

InRange(v, i) == i \div W < Len(Units(vec[v].words))

Set(v, i) ==
    /\ Alive(v) /\ InRange(v, i)
    /\ Assign(v, SetTo(vec[v].words, i, TRUE), vec[v].rem, vec[v].rem, ref[v] \union {i})

Clear(v, i) ==
    /\ Alive(v) /\ InRange(v, i)
    /\ Assign(v, SetTo(vec[v].words, i, FALSE), vec[v].rem, vec[v].rem, ref[v] \ {i})

SameLength(v, w) == Len(Units(vec[v].words)) = Len(Units(vec[w].words))

ApplyAnd(v, w) ==
    /\ Alive(v) /\ Alive(w) /\ SameLength(v, w)
    /\ Assign(v, DoAnd(vec[v], vec[w]), vec[v].rem, vec[v].rem, ref[v] \intersect ref[w])

ApplyOr(v, w) ==
    /\ Alive(v) /\ Alive(w) /\ SameLength(v, w)
    /\ Assign(v, DoOr(vec[v], vec[w]), vec[v].rem, vec[v].rem, ref[v] \union ref[w])

ApplyReset(v, w) ==
    /\ Alive(v) /\ Alive(w) /\ SameLength(v, w)
    /\ Assign(v, DoReset(vec[v], vec[w]), vec[v].rem, vec[v].rem, ref[v] \ ref[w])

ApplyNot(v) ==
    /\ Alive(v)
    /\ Assign(v, DoNot(vec[v]), vec[v].rem, vec[v].rem, Bits \ ref[v])

\* v = w.makeNot(), v = v.makeAnd(w)...: fix() is given rem, the result has 0.
MakeNot(v, w) ==
    /\ MayMake /\ Alive(v) /\ Alive(w)
    /\ Assign(v, DoNot(vec[w]), vec[w].rem, 0, Bits \ ref[w])

MakeAnd(v, w) ==
    /\ MayMake /\ Alive(v) /\ Alive(w) /\ SameLength(v, w)
    /\ Assign(v, DoAnd(vec[v], vec[w]), vec[v].rem, 0, ref[v] \intersect ref[w])

MakeOr(v, w) ==
    /\ MayMake /\ Alive(v) /\ Alive(w) /\ SameLength(v, w)
    /\ Assign(v, DoOr(vec[v], vec[w]), vec[v].rem, 0, ref[v] \union ref[w])

MakeReset(v, w) ==
    /\ MayMake /\ Alive(v) /\ Alive(w) /\ SameLength(v, w)
    /\ Assign(v, DoReset(vec[v], vec[w]), vec[v].rem, 0, ref[v] \ ref[w])

Copy(v, w) ==
    /\ Alive(v) /\ Alive(w)
    /\ vec' = [vec EXCEPT ![v] = vec[w]]
    /\ ref' = [ref EXCEPT ![v] = ref[w]]
    /\ UNCHANGED mem

\* set(void), clear(void): the fill counts words of words, not of bits.
SetAll(v, one) ==
    /\ "all" \in Avoid => N < W
    /\ Alive(v)
    /\ vec' = [vec EXCEPT ![v].words[1] =
                  Fill(Len(vec[v].words) \div W + (IF vec[v].rem = 0 THEN 0 ELSE 1), one)]
    /\ ref' = [ref EXCEPT ![v] = IF one THEN Bits ELSE {}]
    /\ UNCHANGED mem

\* v = WAHVector(): nothing to copy, the array is deleted and its pointer kept.
CopyEmpty(v) ==
    /\ Alive(v)
    /\ mem' = [mem EXCEPT ![v] = "freed"]
    /\ vec' = [vec EXCEPT ![v] = [words |-> <<>>, rem |-> 0]]
    /\ ref' = [ref EXCEPT ![v] = {}]

\* ~WAHVector(), then a new vector in its place.
Destroy(v) ==
    /\ mem[v] # "freed twice"
    /\ mem' = [mem EXCEPT ![v] = IF @ = "freed" THEN "freed twice" ELSE "owned"]
    /\ \E init \in BOOLEAN :
          /\ vec' = [vec EXCEPT ![v] = Made(init)]
          /\ ref' = [ref EXCEPT ![v] = IF init THEN Bits ELSE {}]

Next ==
    \E v \in Vectors :
        \/ \E i \in Bits : Set(v, i) \/ Clear(v, i)
        \/ \E w \in Vectors :
              \/ ApplyAnd(v, w) \/ ApplyOr(v, w) \/ ApplyReset(v, w)
              \/ MakeAnd(v, w) \/ MakeOr(v, w) \/ MakeReset(v, w) \/ MakeNot(v, w)
              \/ Copy(v, w)
        \/ ApplyNot(v) \/ CopyEmpty(v) \/ Destroy(v)
        \/ \E one \in BOOLEAN : SetAll(v, one)

Spec == Init /\ [][Next]_vars

-----------------------------------------------------------------------------
(* Properties.                                                             *)

\* bit(i) is what the operations up to now make of bit i, whatever fills were
\* split and joined on the way.
BitIsMember ==
    \A v \in Vectors, i \in Bits : Alive(v) => (Bit(vec[v], i) <=> i \in ref[v])

\* size() is the size given to the constructor and countOnes() the number of
\* bits at one, the unused bits of the last word apart.
CountsExact ==
    \A v \in Vectors : Alive(v) =>
        Size(vec[v]) = N /\ CountOnes(vec[v]) = Cardinality(ref[v])

\* equals(), which compares words, tells different bits: the form of a vector
\* does not depend on how it was made.
EqualsIsEquality ==
    Alive("a") /\ Alive("b") => (Equals(vec["a"], vec["b"]) <=> ref["a"] = ref["b"])

\* includes(), which reads whole words, is the inclusion of the sets of bits.
IncludesIsSubset ==
    \A v, w \in Vectors : Alive(v) /\ Alive(w) =>
        (Includes(vec[v], vec[w]) <=> ref[w] \subseteq ref[v])

\* isEmpty() says whether every bit is at 0 and isFull() whether every bit is
\* at 1.
EmptyFullExact ==
    \A v \in Vectors : Alive(v) =>
        /\ IsEmpty(vec[v]) <=> ref[v] = {}
        /\ IsFull(vec[v]) <=> ref[v] = Bits

\* The array of words is deleted once.
FreedOnce == \A v \in Vectors : mem[v] # "freed twice"
=============================================================================
