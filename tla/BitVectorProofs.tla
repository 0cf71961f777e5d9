-------------------------- MODULE BitVectorProofs --------------------------
(***************************************************************************)
(* What bit() answers, for every width of words, every size and every      *)
(* sequence of calls, the ones with a fault included.                      *)
(***************************************************************************)
EXTENDS BitVector, TLAPS

\* The words of a size hold all its bits.
LEMMA WordsHoldSize ==
    ASSUME NEW s \in Nat
    PROVE  InWords(s) \in Nat /\ 0..(s - 1) \subseteq Words(InWords(s))
<1>. DEFINE q == (s + W - 1) \div W
<1>0. W \in Nat /\ W > 0
  BY WordAssumption
<1>1. q \in Nat
  <2>1. s + W - 1 \in Nat
    BY <1>0
  <2>. QED BY <2>1, <1>0
<1>2. s + W - 1 < (q + 1) * W
  BY <1>0
<1>3. s - 1 < q * W
  BY <1>0, <1>1, <1>2
<1>. QED BY <1>0, <1>1, <1>3 DEF InWords, Words

\* What a new array holds of the bits of its size is what it was made of.
LEMMA MakeKeeps ==
    ASSUME NEW s \in Nat, NEW r \in SUBSET Nat
    PROVE  /\ Make(s, r) \in [size : Nat, mem : Nat, raw : SUBSET Nat]
           /\ Make(s, r).size = s
           /\ Make(s, r).raw \intersect (0..(s - 1)) = r \intersect (0..(s - 1))
<1>1. InWords(s) \in Nat /\ 0..(s - 1) \subseteq Words(InWords(s))
  BY WordsHoldSize
<1>. QED BY <1>1 DEF Make

-----------------------------------------------------------------------------
(* The induction.  BitsExact is inductive once the types are known.        *)

BitsInv == TypeOK /\ BitsExact

LEMMA InitBits == Init => BitsInv
BY DEF Init, BitsInv, TypeOK, BitsExact, Null, Used, Vectors

\* Replacing a vector by one with the bits said keeps the invariant.
LEMMA BecomesKeeps ==
    ASSUME BitsInv, NEW v \in Vectors,
           NEW x \in [size : Nat, mem : Nat, raw : SUBSET Nat], NEW s \in SUBSET Nat,
           x.mem = WCount(x) => x.raw \intersect Used(x) = s,
           Becomes(v, x, s)
    PROVE  BitsInv'
<1>1. TypeOK'
  BY DEF Becomes, BitsInv, TypeOK
<1>2. ASSUME NEW u \in Vectors, Sound(u)'
      PROVE  (vec[u].raw \intersect Used(vec[u]) = ref[u])'
  <2>1. CASE u = v
    BY <2>1, <1>2 DEF Becomes, BitsInv, TypeOK, Sound
  <2>2. CASE u # v
    BY <2>2, <1>2 DEF Becomes, BitsInv, TypeOK, Sound, BitsExact
  <2>. QED BY <2>1, <2>2
<1>. QED BY <1>1, <1>2 DEF BitsInv, BitsExact

LEMMA FailsKeeps ==
    ASSUME BitsInv, NEW why \in {"assertion", "write beyond the array"}, Fails(why)
    PROVE  BitsInv'
BY DEF Fails, BitsInv, TypeOK, BitsExact, Sound

\* What the updates in place need of the vector they change.
LEMMA InPlace ==
    ASSUME BitsInv, NEW v \in Vectors, Sound(v), NEW r \in SUBSET Nat, NEW s \in SUBSET Nat,
           r \intersect Used(vec[v]) = s,
           Becomes(v, [vec[v] EXCEPT !.raw = r], s)
    PROVE  BitsInv'
<1>. DEFINE x == [vec[v] EXCEPT !.raw = r]
<1>1. vec[v] \in [size : Nat, mem : Nat, raw : SUBSET Nat]
  BY DEF BitsInv, TypeOK
<1>2. x \in [size : Nat, mem : Nat, raw : SUBSET Nat] /\ x.size = vec[v].size /\ x.raw = r
  BY <1>1
<1>3. Used(x) = Used(vec[v])
  BY <1>2 DEF Used
<1>. QED BY <1>2, <1>3, BecomesKeeps

LEMMA NewArray ==
    ASSUME BitsInv, NEW v \in Vectors, NEW n \in Nat, NEW r \in SUBSET Nat,
           NEW s \in SUBSET Nat, r \intersect (0..(n - 1)) = s,
           Becomes(v, Make(n, r), s)
    PROVE  BitsInv'
<1>1. Make(n, r) \in [size : Nat, mem : Nat, raw : SUBSET Nat] /\ Make(n, r).size = n
  BY MakeKeeps
<1>2. Make(n, r).raw \intersect Used(Make(n, r)) = s
  BY <1>1, MakeKeeps DEF Used
<1>. QED BY <1>1, <1>2, BecomesKeeps

LEMMA NextBits ==
    ASSUME BitsInv, [Next]_vars
    PROVE  BitsInv'
<1>. USE DEF BitsInv
<1>t. \A v \in Vectors : /\ vec[v] \in [size : Nat, mem : Nat, raw : SUBSET Nat]
                         /\ ref[v] \in SUBSET Nat
                         /\ WCount(vec[v]) \in Nat
                         /\ Words(WCount(vec[v])) \in SUBSET Nat
                         /\ Used(vec[v]) \subseteq Words(WCount(vec[v]))
  <2>1. \A v \in Vectors : vec[v] \in [size : Nat, mem : Nat, raw : SUBSET Nat] /\ ref[v] \in SUBSET Nat
    BY DEF TypeOK
  <2>2. \A v \in Vectors : vec[v].size \in Nat
    BY <2>1
  <2>3. \A n \in Nat : Words(n) \in SUBSET Nat
    BY WordAssumption DEF Words
  <2>4. ASSUME NEW v \in Vectors
        PROVE  WCount(vec[v]) \in Nat /\ Used(vec[v]) \subseteq Words(WCount(vec[v]))
    BY <2>2, WordsHoldSize DEF WCount, Used
  <2>. QED BY <2>1, <2>3, <2>4
<1>b. \A v \in Vectors : Sound(v) => vec[v].raw \intersect Used(vec[v]) = ref[v]
  BY DEF BitsExact
<1>1. ASSUME NEW v \in Vectors, NEW s \in Sizes, Resize(v, s)
      PROVE  BitsInv'
  <2>1. PICK junk \in SUBSET (Words(InWords(s)) \ Words(WCount(vec[v]))) :
          Becomes(v, Make(s, vec[v].raw \union junk),
                  {i \in 0..(s - 1) : IF i < vec[v].size THEN i \in ref[v]
                                      ELSE i \in Make(s, vec[v].raw \union junk).raw})
    BY <1>1 DEF Resize
  <2>. DEFINE r == vec[v].raw \union junk
              t == {i \in 0..(s - 1) : IF i < vec[v].size THEN i \in ref[v]
                                       ELSE i \in Make(s, r).raw}
  <2>2. s \in Nat
    BY SizesAssumption
  <2>3. r \in SUBSET Nat /\ t \in SUBSET Nat
    <3>1. vec[v].raw \in SUBSET Nat
      BY <1>t
    <3>2. Words(InWords(s)) \in SUBSET Nat
      BY <2>2, WordsHoldSize, WordAssumption DEF Words
    <3>. QED BY <3>1, <3>2, <2>2
  <2>4. \A i \in 0..(s - 1) : i \in Make(s, r).raw <=> i \in r
    BY <2>2, <2>3, MakeKeeps
  <2>5. \A i \in 0..(s - 1) : i < vec[v].size => (i \in r <=> i \in ref[v])
    <3>1. Sound(v)
      BY <1>1 DEF Resize
    <3>2. \A i \in Nat : i < vec[v].size => (i \in vec[v].raw <=> i \in ref[v])
      BY <3>1, <1>b, <1>t DEF Used
    <3>3. \A i \in Nat : i < vec[v].size => i \notin junk
      BY <1>t DEF Used
    <3>. QED BY <3>2, <3>3, <2>2
  <2>6. r \intersect (0..(s - 1)) = t
    BY <2>4, <2>5
  <2>. QED BY <2>1, <2>2, <2>3, <2>6, NewArray
<1>2. ASSUME NEW v \in Vectors, NEW s \in Sizes, NEW one \in BOOLEAN, Construct(v, s, one)
      PROVE  BitsInv'
  <2>1. s \in Nat
    BY SizesAssumption
  <2>2. Words(InWords(s)) \in SUBSET Nat /\ 0..(s - 1) \subseteq Words(InWords(s))
    BY <2>1, WordsHoldSize DEF Words
  <2>3. CASE one
    BY <1>2, <2>1, <2>2, <2>3, NewArray DEF Construct, BitVector
  <2>4. CASE ~one
    BY <1>2, <2>1, <2>2, <2>4, NewArray DEF Construct, BitVector
  <2>. QED BY <2>3, <2>4
<1>3. ASSUME NEW v \in Vectors, NEW w \in Vectors, NEW s \in Sizes, Sound(w), Sized(v, w, s)
      PROVE  BitsInv'
  <2>. DEFINE n == vec[w].size
              r == IF s >= n THEN vec[w].raw ELSE vec[w].raw \intersect (0..(s - 1))
              t == {i \in 0..(s - 1) : IF i < n THEN i \in ref[w] ELSE i \in Make(s, r).raw}
  <2>1. s \in Nat /\ n \in Nat
    BY <1>t, SizesAssumption
  <2>2. CASE s >= n /\ n > InWords(s)
    BY <1>3, <2>2, FailsKeeps DEF Sized
  <2>3. CASE ~(s >= n /\ n > InWords(s))
    <3>1. Becomes(v, Make(s, r), t)
      BY <1>3, <2>3 DEF Sized
    <3>2. r \in SUBSET Nat /\ t \in SUBSET Nat
      BY <1>t, <2>1
    <3>3. \A i \in 0..(s - 1) : i \in Make(s, r).raw <=> i \in r
      BY <2>1, <3>2, MakeKeeps
    <3>4. \A i \in 0..(s - 1) : i < n => (i \in r <=> i \in ref[w])
      BY <1>3, <1>b, <1>t, <2>1 DEF Used
    <3>5. r \intersect (0..(s - 1)) = t
      BY <3>3, <3>4
    <3>. QED BY <3>1, <3>2, <3>5, <2>1, NewArray
  <2>. QED BY <2>2, <2>3
<1>4. ASSUME NEW v \in Vectors, NEW i \in Used(vec[v]), Set(v, i) \/ Clear(v, i)
      PROVE  BitsInv'
  BY <1>4, <1>t, <1>b, InPlace DEF Set, Clear, Used
<1>5. ASSUME NEW v \in Vectors, NEW w \in Vectors, Sound(v), Sound(w), Assign(v, w)
      PROVE  BitsInv'
  <2>1. CASE WCount(vec[v]) > 0 /\ WCount(vec[v]) = WCount(vec[w]) /\ vec[v].size = vec[w].size
    <3>1. Becomes(v, [vec[v] EXCEPT !.raw = vec[w].raw], ref[w])
      BY <1>5, <2>1 DEF Assign
    <3>2. vec[w].raw \intersect Used(vec[v]) = ref[w]
      BY <1>5, <1>b, <2>1 DEF Used
    <3>. QED BY <3>1, <3>2, <1>5, <1>t, InPlace
  <2>2. CASE WCount(vec[v]) > 0 /\ WCount(vec[v]) = WCount(vec[w]) /\ vec[v].size # vec[w].size
    BY <1>5, <2>2, FailsKeeps DEF Assign
  <2>3. CASE ~(WCount(vec[v]) > 0 /\ WCount(vec[v]) = WCount(vec[w])) /\ vec[w].mem = 0
    <3>. DEFINE x == [vec[v] EXCEPT !.mem = 0, !.raw = {}]
    <3>1. Becomes(v, x, ref[w])
      BY <1>5, <2>3 DEF Assign
    <3>2. /\ x \in [size : Nat, mem : Nat, raw : SUBSET Nat]
          /\ x.size = vec[v].size /\ x.mem = 0 /\ x.raw = {}
      BY <1>t
    <3>3. WCount(vec[w]) = 0
      BY <1>5, <2>3 DEF Sound
    <3>4. ref[w] = {}
      BY <1>5, <1>b, <1>t, <3>3, WordAssumption DEF Words
    <3>5. x.raw \intersect Used(x) = ref[w] /\ ref[w] \in SUBSET Nat
      BY <3>2, <3>4
    <3>. HIDE DEF x
    <3>. QED BY <3>1, <3>2, <3>5, BecomesKeeps
  <2>4. CASE ~(WCount(vec[v]) > 0 /\ WCount(vec[v]) = WCount(vec[w])) /\ vec[w].mem # 0
    <3>1. Becomes(v, Make(vec[w].size, vec[w].raw), ref[w])
      BY <1>5, <2>4 DEF Assign
    <3>. QED BY <3>1, <1>5, <1>t, <1>b, NewArray DEF Used
  <2>. QED BY <2>1, <2>2, <2>3, <2>4
<1>6. ASSUME NEW v \in Vectors, NEW w \in Vectors, Sound(w), CopyConstruct(v, w)
      PROVE  BitsInv'
  BY <1>6, <1>t, <1>b, NewArray DEF CopyConstruct, Used
<1>7. ASSUME NEW v \in Vectors, NEW w \in Vectors,
             ApplyOr(v, w) \/ ApplyAnd(v, w) \/ ApplyReset(v, w)
      PROVE  BitsInv'
  <2>1. Sound(v) /\ Sound(w) /\ Used(vec[v]) = Used(vec[w])
    BY <1>7 DEF ApplyOr, ApplyAnd, ApplyReset, Same, Used
  <2>2. CASE ApplyOr(v, w)
    BY <2>1, <2>2, <1>t, <1>b, InPlace DEF ApplyOr
  <2>3. CASE ApplyAnd(v, w)
    BY <2>1, <2>3, <1>t, <1>b, InPlace DEF ApplyAnd
  <2>4. CASE ApplyReset(v, w)
    <3>. DEFINE r == (vec[v].raw \ vec[w].raw) \intersect Used(vec[v])
    <3>1. Mask([vec[v] EXCEPT !.raw = @ \ vec[w].raw]) = [vec[v] EXCEPT !.raw = r]
      BY <1>t DEF Mask, Used
    <3>2. r \in SUBSET Nat /\ r \intersect Used(vec[v]) = ref[v] \ ref[w]
      BY <2>1, <1>t, <1>b
    <3>3. Becomes(v, [vec[v] EXCEPT !.raw = r], ref[v] \ ref[w])
      BY <2>4, <3>1 DEF ApplyReset
    <3>4. ref[v] \ ref[w] \in SUBSET Nat
      BY <1>t
    <3>. HIDE DEF r
    <3>. QED BY <2>1, <3>2, <3>3, <3>4, InPlace
  <2>. QED BY <1>7, <2>2, <2>3, <2>4
<1>8. ASSUME NEW v \in Vectors, NEW w \in Vectors,
             MakeNot(v, w) \/ MakeOr(v, w) \/ MakeAnd(v, w) \/ MakeReset(v, w)
      PROVE  BitsInv'
  <2>1. Sound(v) /\ Sound(w) /\ vec[v].size = vec[w].size
    BY <1>8 DEF MakeNot, MakeOr, MakeAnd, MakeReset, Same
  <2>2. /\ vec[v].raw \intersect (0..(vec[v].size - 1)) = ref[v]
        /\ vec[w].raw \intersect (0..(vec[v].size - 1)) = ref[w]
        /\ 0..(vec[v].size - 1) \subseteq Words(WCount(vec[v]))
    BY <2>1, <1>t, <1>b DEF Used
  <2>3. CASE MakeNot(v, w)
    <3>. DEFINE n == vec[w].size
                r == Words(WCount(vec[w])) \ vec[w].raw
                t == Used(vec[w]) \ ref[w]
    <3>1. Becomes(v, Make(n, r), t)
      BY <2>3 DEF MakeNot
    <3>2. n \in Nat /\ r \in SUBSET Nat /\ t \in SUBSET Nat
      BY <1>t
    <3>3. r \intersect (0..(n - 1)) = t
      BY <2>1, <1>t, <1>b DEF Used
    <3>. HIDE DEF n, r, t
    <3>. QED BY <3>1, <3>2, <3>3, NewArray
  <2>4. CASE MakeOr(v, w)
    BY <2>2, <2>4, <1>t, NewArray DEF MakeOr
  <2>5. CASE MakeAnd(v, w)
    BY <2>2, <2>5, <1>t, NewArray DEF MakeAnd
  <2>6. CASE MakeReset(v, w)
    BY <2>2, <2>6, <1>t, NewArray DEF MakeReset
  <2>. QED BY <1>8, <2>3, <2>4, <2>5, <2>6
<1>9. ASSUME NEW v \in Vectors, SetAll(v)
      PROVE  BitsInv'
  <2>1. Mask([vec[v] EXCEPT !.raw = Words(WCount(vec[v]))]) = [vec[v] EXCEPT !.raw = Used(vec[v])]
    BY <1>t DEF Mask, Used
  <2>. QED BY <2>1, <1>9, <1>t, InPlace DEF SetAll
<1>10. ASSUME NEW v \in Vectors, ClearAll(v)
       PROVE  BitsInv'
  BY <1>10, <1>t, InPlace DEF ClearAll
<1>11. ASSUME NEW v \in Vectors, ApplyNot(v)
       PROVE  BitsInv'
  BY <1>11, <1>t, <1>b, InPlace DEF ApplyNot
<1>12. ASSUME NEW v \in Vectors, Query(v)
       PROVE  BitsInv'
  <2>1. Mask(vec[v]) = [vec[v] EXCEPT !.raw = vec[v].raw \intersect Used(vec[v])]
    BY DEF Mask
  <2>. QED BY <2>1, <1>12, <1>t, <1>b, InPlace DEF Query
<1>13. ASSUME NEW v \in Vectors, Default(v)
       PROVE  BitsInv'
  BY <1>13, BecomesKeeps DEF Default, Null, Used
<1>14. CASE UNCHANGED vars
  BY <1>14 DEF vars, TypeOK, BitsExact, Sound
<1>. QED BY <1>1, <1>2, <1>3, <1>4, <1>5, <1>6, <1>7, <1>8, <1>9, <1>10, <1>11, <1>12, <1>13, <1>14 DEF Next

\* bit(i) is, after any sequence of calls, what these calls make of bit i,
\* whatever they leave in the padding, for every width of words, every set of
\* sizes and every set of calls avoided.
THEOREM BitsAlwaysExact == Spec => []BitsExact
<1>1. BitsInv /\ [Next]_vars => BitsInv'
  BY NextBits
<1>2. BitsInv => BitsExact
  BY DEF BitsInv
<1>. QED BY InitBits, <1>1, <1>2, PTL DEF Spec

\* equals(), includes(), includesStrictly() and isEmpty() answer as the sets
\* of bits do whenever the padding of their argument is clear, whatever is in
\* the padding of the vector they are called on, for every width and size.
THEOREM ComparisonsExact == Spec => []CleanComparisons
<1>1. BitsInv /\ [Next]_vars => BitsInv'
  BY NextBits
<1>2. BitsInv => CleanComparisons
  <2>. SUFFICES ASSUME BitsInv, NEW v \in Vectors, NEW w \in Vectors,
                       Same(v, w), Clean(vec[w])
                PROVE  /\ Equals(vec[v], vec[w]) <=> ref[v] = ref[w]
                       /\ Includes(vec[v], vec[w]) <=> ref[w] \subseteq ref[v]
                       /\ IncludesStrictly(vec[v], vec[w])
                            <=> ref[w] \subseteq ref[v] /\ ref[v] # ref[w]
                       /\ IsEmpty(vec[v]) <=> ref[v] = {}
    BY DEF CleanComparisons
  <2>1. Mask(vec[v]).raw = ref[v]
    BY DEF BitsInv, TypeOK, BitsExact, Same, Mask
  <2>2. vec[w].raw = ref[w]
    BY DEF BitsInv, BitsExact, Same, Clean
  <2>. QED BY <2>1, <2>2 DEF Equals, Includes, IncludesStrictly, IsEmpty
<1>. QED BY InitBits, <1>1, <1>2, PTL DEF Spec

-----------------------------------------------------------------------------
(* The arrays.  The three calls of Avoid are the only ones that can leave a *)
(* vector without its words, write beyond them or fail an assertion.        *)

Whole(x) == x.mem = WCount(x) /\ x.raw \subseteq Words(x.mem)

LEMMA BecomesWhole ==
    ASSUME TypeOK, Allocated, NEW v \in Vectors, NEW x, Whole(x), NEW s, Becomes(v, x, s)
    PROVE  Allocated'
BY DEF TypeOK, Allocated, Becomes, Sound, Whole

LEMMA MakeWhole ==
    ASSUME NEW s \in Nat, NEW r PROVE Whole(Make(s, r))
BY DEF Make, Whole, WCount

\* An update in place by bits of the words the vector has.
LEMMA InPlaceWhole ==
    ASSUME TypeOK, Allocated, NEW v \in Vectors, NEW r, r \subseteq Words(WCount(vec[v])),
           NEW s, Becomes(v, [vec[v] EXCEPT !.raw = r], s)
    PROVE  Allocated'
<1>. DEFINE x == [vec[v] EXCEPT !.raw = r]
<1>1. x.size = vec[v].size /\ x.mem = vec[v].mem /\ x.raw = r
  BY DEF TypeOK
<1>2. Whole(x)
  BY <1>1 DEF Allocated, Sound, Whole, WCount
<1>. HIDE DEF x
<1>. QED BY <1>2, BecomesWhole DEF x

LEMMA NextAllocated ==
    ASSUME "null" \in Avoid, TypeOK, Allocated, [Next]_vars
    PROVE  Allocated'
<1>t. \A v \in Vectors : /\ vec[v] \in [size : Nat, mem : Nat, raw : SUBSET Nat]
                         /\ vec[v].mem = WCount(vec[v])
                         /\ vec[v].raw \subseteq Words(WCount(vec[v]))
                         /\ Used(vec[v]) \subseteq Words(WCount(vec[v]))
  <2>1. \A v \in Vectors : vec[v].size \in Nat
    BY DEF TypeOK
  <2>. QED BY <2>1, WordsHoldSize DEF TypeOK, Allocated, Sound, WCount, Used
<1>1. ASSUME NEW v \in Vectors, NEW n \in Nat, NEW r, NEW s, Becomes(v, Make(n, r), s)
      PROVE  Allocated'
  <2>. DEFINE x == Make(n, r)
  <2>1. Whole(x)
    BY MakeWhole
  <2>. HIDE DEF x
  <2>. QED BY <1>1, <2>1, BecomesWhole DEF x
<1>2. ASSUME NEW why, Fails(why) PROVE Allocated'
  BY <1>2 DEF Fails, Allocated, Sound
<1>3. ASSUME NEW v \in Vectors, NEW s \in Sizes,
             Resize(v, s) \/ (\E one \in BOOLEAN : Construct(v, s, one))
               \/ \E w \in Vectors : Sized(v, w, s)
      PROVE  Allocated'
  BY <1>1, <1>2, <1>3, SizesAssumption DEF Resize, Construct, BitVector, Sized
<1>4. ASSUME NEW v \in Vectors, NEW i \in Used(vec[v]), Set(v, i) \/ Clear(v, i)
      PROVE  Allocated'
  BY <1>4, <1>t, InPlaceWhole DEF Set, Clear
<1>5. ASSUME NEW v \in Vectors, NEW w \in Vectors, Assign(v, w)
      PROVE  Allocated'
  <2>1. CASE WCount(vec[v]) > 0 /\ WCount(vec[v]) = WCount(vec[w])
    BY <1>5, <2>1, <1>t, <1>2, InPlaceWhole DEF Assign
  <2>2. CASE ~(WCount(vec[v]) > 0 /\ WCount(vec[v]) = WCount(vec[w])) /\ vec[w].mem # 0
    BY <1>5, <2>2, <1>t, <1>1 DEF Assign
  <2>3. CASE ~(WCount(vec[v]) > 0 /\ WCount(vec[v]) = WCount(vec[w])) /\ vec[w].mem = 0
    <3>1. WCount(vec[w]) = 0 /\ vec[w].size \in Nat
      BY <1>t, <2>3
    <3>2. vec[w].size = 0 /\ vec[w].raw = {}
      <4>1. 0..(vec[w].size - 1) \subseteq Words(0) /\ vec[w].raw \subseteq Words(0)
        BY <1>t, <3>1 DEF Used
      <4>2. Words(0) = {}
        BY WordAssumption DEF Words
      <4>. QED BY <3>1, <4>1, <4>2
    <3>3. vec[w] = Null
      BY <1>t, <2>3, <3>2 DEF Null
    <3>4. vec[v] = Null
      BY <1>5, <3>3 DEF Assign
    <3>. DEFINE x == [vec[v] EXCEPT !.mem = 0, !.raw = {}]
    <3>5. Becomes(v, x, ref[w])
      BY <1>5, <2>3 DEF Assign
    <3>6. x.size = vec[v].size /\ x.mem = 0 /\ x.raw = {} /\ vec[v].mem = 0
      BY <1>t, <3>4 DEF Null
    <3>7. Whole(x)
      BY <1>t, <3>6 DEF Whole, WCount
    <3>. HIDE DEF x
    <3>. QED BY <3>5, <3>7, BecomesWhole
  <2>. QED BY <2>1, <2>2, <2>3
<1>6. ASSUME NEW v \in Vectors, NEW w \in Vectors,
             CopyConstruct(v, w) \/ MakeNot(v, w) \/ MakeOr(v, w) \/ MakeAnd(v, w)
               \/ MakeReset(v, w)
      PROVE  Allocated'
  BY <1>6, <1>t, <1>1 DEF CopyConstruct, MakeNot, MakeOr, MakeAnd, MakeReset
<1>7. ASSUME NEW v \in Vectors, NEW w \in Vectors,
             ApplyOr(v, w) \/ ApplyAnd(v, w) \/ ApplyReset(v, w)
      PROVE  Allocated'
  <2>1. WCount(vec[v]) = WCount(vec[w])
    BY <1>7 DEF ApplyOr, ApplyAnd, ApplyReset, Same, WCount
  <2>2. CASE ApplyOr(v, w) \/ ApplyAnd(v, w)
    BY <2>1, <2>2, <1>t, InPlaceWhole DEF ApplyOr, ApplyAnd
  <2>3. CASE ApplyReset(v, w)
    <3>. DEFINE r == (vec[v].raw \ vec[w].raw) \intersect Used(vec[v])
    <3>1. Mask([vec[v] EXCEPT !.raw = @ \ vec[w].raw]) = [vec[v] EXCEPT !.raw = r]
      BY <1>t DEF Mask, Used
    <3>2. r \subseteq Words(WCount(vec[v]))
      BY <1>t
    <3>3. Becomes(v, [vec[v] EXCEPT !.raw = r], ref[v] \ ref[w])
      BY <2>3, <3>1 DEF ApplyReset
    <3>. HIDE DEF r
    <3>. QED BY <3>2, <3>3, InPlaceWhole
  <2>. QED BY <1>7, <2>2, <2>3
<1>8. ASSUME NEW v \in Vectors, SetAll(v) PROVE Allocated'
  <2>1. Mask([vec[v] EXCEPT !.raw = Words(WCount(vec[v]))]) = [vec[v] EXCEPT !.raw = Used(vec[v])]
    BY <1>t DEF Mask, Used
  <2>. QED BY <2>1, <1>8, <1>t, InPlaceWhole DEF SetAll
<1>9. ASSUME NEW v \in Vectors, ClearAll(v) \/ ApplyNot(v) \/ Query(v) PROVE Allocated'
  <2>1. Mask(vec[v]) = [vec[v] EXCEPT !.raw = vec[v].raw \intersect Used(vec[v])]
    BY DEF Mask
  <2>. QED BY <2>1, <1>9, <1>t, InPlaceWhole DEF ClearAll, ApplyNot, Query
<1>10. ASSUME NEW v \in Vectors, Default(v) PROVE Allocated'
  <2>1. Null = Make(0, {})
    BY WordAssumption DEF Null, Make, InWords
  <2>. QED BY <2>1, <1>1, <1>10 DEF Default
<1>11. CASE UNCHANGED vars
  BY <1>11 DEF vars, Allocated, Sound
<1>. QED BY <1>3, <1>4, <1>5, <1>6, <1>7, <1>8, <1>9, <1>10, <1>11 DEF Next

\* Without the three calls no call faults.
LEMMA NextFault ==
    ASSUME {"extend", "assign"} \subseteq Avoid, TypeOK, fault = "none", [Next]_vars
    PROVE  fault' = "none"
<1>1. ASSUME NEW v, NEW x, NEW s, Becomes(v, x, s) PROVE fault' = "none"
  BY <1>1 DEF Becomes
<1>2. ASSUME NEW v \in Vectors, NEW w \in Vectors, NEW s \in Sizes, Sized(v, w, s)
      PROVE  fault' = "none"
  <2>1. s < vec[w].size /\ vec[w].size \in Nat /\ s \in Nat
    BY <1>2, SizesAssumption DEF Sized, TypeOK
  <2>2. ~(s >= vec[w].size)
    BY <2>1
  <2>. QED BY <1>1, <1>2, <2>2 DEF Sized
<1>3. ASSUME NEW v \in Vectors, NEW w \in Vectors, Assign(v, w) PROVE fault' = "none"
  BY <1>1, <1>3 DEF Assign
<1>4. CASE Next
  BY <1>1, <1>2, <1>3, <1>4
     DEF Next, Resize, Construct, Set, Clear, CopyConstruct, ApplyOr, ApplyAnd, ApplyReset,
         MakeNot, MakeOr, MakeAnd, MakeReset, SetAll, ClearAll, ApplyNot, Query, Default
<1>. QED BY <1>4 DEF vars

\* A program that builds no vector from a smaller one, assigns no vector to
\* one of another size in as many words and no default vector to another has,
\* whatever else it does, vectors with the words of their size and nothing at
\* one beyond them, writes in bounds and never fails the assertion of copy().
THEOREM OnlyThreeMisuses ==
    ASSUME Avoid = {"extend", "assign", "null"}
    PROVE  Spec => [](Allocated /\ WritesInBounds /\ AssignNeverAborts)
<1>. DEFINE Inv == BitsInv /\ Allocated /\ fault = "none"
<1>1. Init => Inv
  <2>1. Init => Null = Make(0, {}) /\ Whole(Null)
    BY WordAssumption, MakeWhole DEF Null, Make, InWords
  <2>2. Init => Allocated
    BY <2>1 DEF Init, Allocated, Sound, Whole
  <2>. QED BY <2>2, InitBits DEF Init
<1>2. Inv /\ [Next]_vars => Inv'
  BY NextBits, NextAllocated, NextFault DEF BitsInv
<1>3. Inv => Allocated /\ WritesInBounds /\ AssignNeverAborts
  BY DEF WritesInBounds, AssignNeverAborts
<1>. HIDE DEF Inv
<1>. QED BY <1>1, <1>2, <1>3, PTL DEF Spec
=============================================================================
