---------------------------- MODULE VectorQueue ----------------------------
(***************************************************************************)
(* elm::VectorQueue<T> (include/elm/data/VectorQueue.h): a ring in a       *)
(* vector whose capacity is a power of two and doubles when it is full.    *)
(* One slot is always left free, so that hd = tl means empty.              *)
(***************************************************************************)
EXTENDS Integers, Sequences, TLAPS

CONSTANTS
  Values,      \* items
  Junk,        \* content of a slot never assigned, or of deleted memory
  Capacities,  \* capacities given by the constructor: 1 << capacity
  MaxCap,      \* bound on the capacity
  AliasedFull  \* put() may be given a reference to the head of a full queue

ASSUME JunkAssumption     == Junk \notin Values
ASSUME CapacityAssumption == Capacities \subseteq Nat \ {0} /\ MaxCap \in Nat
ASSUME AliasedAssumption  == AliasedFull \in BOOLEAN

VARIABLES
  hd, tl, cap, buffer,
  last          \* history: the items returned by get() since the last put()

vars == <<hd, tl, cap, buffer, last>>

-----------------------------------------------------------------------------
Init ==
  /\ hd = 0 /\ tl = 0
  /\ cap \in Capacities
  /\ buffer = [i \in 0 .. cap - 1 |-> Junk]
  /\ last = <<>>

\* (i + 1) & (cap - 1), for a power of two.
Succ(i) == (i + 1) % cap

isEmpty == hd = tl

\* size() does not consider the empty queue.
size == IF hd < tl THEN tl - hd ELSE (cap - hd) + tl

\* Mutant: the second part is copied over the first one.
EnlargedOver ==
  [i \in 0 .. 2 * cap - 1 |->
     IF hd > tl
     THEN IF i < tl THEN buffer[i]
          ELSE IF i < cap - hd THEN buffer[hd + i] ELSE Junk
     ELSE IF i < tl - hd THEN buffer[hd + i] ELSE Junk]

\* enlarge(): the new buffer, the items put straight from its start.
Enlarged ==
  [i \in 0 .. 2 * cap - 1 |->
     IF hd > tl
     THEN IF i < cap - hd THEN buffer[hd + i]
          ELSE IF i < (cap - hd) + tl THEN buffer[i - (cap - hd)] ELSE Junk
     ELSE IF i < tl - hd THEN buffer[hd + i] ELSE Junk]

\* put() where there is room, and in a full queue.
putRoom(v) ==
  /\ buffer' = [buffer EXCEPT ![tl] = v]
  /\ tl' = Succ(tl)
  /\ UNCHANGED <<hd, cap>>

putFull(v) ==
  LET tl1 == IF hd > tl THEN (cap - hd) + tl ELSE tl - hd
  IN  /\ 2 * cap <= MaxCap
      /\ buffer' = [Enlarged EXCEPT ![tl1] = v]
      /\ hd' = IF hd > tl THEN 0 ELSE hd
      /\ tl' = tl1 + 1
      /\ cap' = 2 * cap

put(v) ==
  /\ IF Succ(tl) # hd THEN putRoom(v) ELSE putFull(v)
  /\ last' = <<>>

\* put(head()): in a full queue the reference is read after enlarge() has
\* deleted the buffer.
putHead ==
  /\ ~isEmpty
  /\ Succ(tl) = hd => AliasedFull
  /\ \E v \in Values \union {Junk} :
       /\ Succ(tl) # hd => v = buffer[hd]
       /\ put(v)

get ==
  /\ ~isEmpty
  /\ hd' = Succ(hd)
  /\ last' = Append(last, buffer[hd])
  /\ UNCHANGED <<tl, cap, buffer>>

reset ==
  /\ hd' = 0 /\ tl' = 0
  /\ last' = <<>>
  /\ UNCHANGED <<cap, buffer>>

Next ==
  \/ \E v \in Values : put(v)
  \/ putHead \/ get \/ reset

Spec == Init /\ [][Next]_vars

-----------------------------------------------------------------------------
\* The number of items, and the slot of each.
Count   == IF hd <= tl THEN tl - hd ELSE (cap - hd) + tl
Slot(i) == IF hd + i - 1 < cap THEN hd + i - 1 ELSE hd + i - 1 - cap
Content == [i \in 1 .. Count |-> buffer[Slot(i)]]

TypeOK ==
  /\ cap \in Nat \ {0}
  /\ hd \in 0 .. cap - 1 /\ tl \in 0 .. cap - 1
  /\ buffer \in [0 .. cap - 1 -> Values \union {Junk}]
  /\ last \in Seq(Values)

\* Items leave the ring in the order they were put, through any wrapping
\* and any enlargement of the vector; get() never returns a slot that was
\* not assigned.
Queue == INSTANCE Fifo WITH q <- Content, last <- last
ImplementsFifo == Queue!Spec

\* size() is right in every state where the queue holds something, across
\* the wrap.
SizeOfNonEmpty == ~isEmpty => size = Len(Content)

\* size(): "Get the current size of the queue."  Fails on an empty queue,
\* whose size is its capacity.
SizeIsCount == size = Len(Content)
-----------------------------------------------------------------------------
(* Proofs.  The ring implements a FIFO queue, for any items, any first      *)
(* capacity and any number of enlargements, as long as put() is not given a *)
(* reference into a full queue.                                             *)

\* Every slot between hd and tl was assigned.
FilledInv == \A i \in 1 .. Count : buffer[Slot(i)] \in Values

QueueInv == TypeOK /\ FilledInv

-----------------------------------------------------------------------------
\* The mask is a step around the ring.
LEMMA SuccIs ==
  ASSUME TypeOK, NEW i \in 0 .. cap - 1
  PROVE  Succ(i) = IF i + 1 = cap THEN 0 ELSE i + 1
BY DEF TypeOK, Succ

\* The ends of the ring.
LEMMA Ends ==
  ASSUME TypeOK
  PROVE  /\ cap \in Nat /\ cap > 0 /\ hd \in Nat /\ tl \in Nat
         /\ hd < cap /\ tl < cap
BY DEF TypeOK

\* What the positions are.
LEMMA Positions ==
  ASSUME TypeOK
  PROVE  /\ cap \in Nat /\ cap > 0 /\ hd \in Nat /\ tl \in Nat
         /\ hd < cap /\ tl < cap /\ Count \in Nat /\ Count < cap
         /\ Count = 0 <=> isEmpty
         /\ \A i \in 1 .. Count : Slot(i) \in 0 .. cap - 1 /\ Slot(i) # tl
BY DEF TypeOK, Count, Slot, isEmpty

\* The content of the ring is a sequence of items.
LEMMA ContentIsSeq ==
  ASSUME QueueInv
  PROVE  Content \in Seq(Values) /\ Len(Content) = Count
<1>1. Count \in Nat
  BY Positions DEF QueueInv
<1>2. Content \in [1 .. Count -> Values]
  BY DEF Content, QueueInv, FilledInv
<1>3. QED
  BY <1>1, <1>2

\* How to recognise the results of Append and Tail.
LEMMA AppendIs ==
  ASSUME NEW S, NEW s \in Seq(S), NEW t \in Seq(S), Len(t) = Len(s) + 1,
         \A i \in 1 .. Len(s) : t[i] = s[i]
  PROVE  t = Append(s, t[Len(s) + 1])
OBVIOUS

LEMMA TailIs ==
  ASSUME NEW S, NEW s \in Seq(S), NEW t \in Seq(S), s # <<>>,
         Len(t) = Len(s) - 1, \A i \in 1 .. Len(t) : t[i] = s[i + 1]
  PROVE  t = Tail(s)
OBVIOUS

\* put() where there is room: one slot more, the others as they were.
LEMMA RoomStep ==
  ASSUME QueueInv, NEW v \in Values, Succ(tl) # hd, putRoom(v), last' = <<>>
  PROVE  QueueInv' /\ Content' = Append(Content, v)
<1> USE DEF QueueInv
<1>1. /\ tl' = IF tl + 1 = cap THEN 0 ELSE tl + 1
      /\ tl' # hd /\ hd' = hd /\ cap' = cap
      /\ buffer' = [buffer EXCEPT ![tl] = v]
  BY SuccIs DEF putRoom, TypeOK
<1>2. TypeOK'
  BY <1>1 DEF TypeOK
<1>3. Count' = Count + 1
  BY <1>1, Ends DEF Count
<1>4. Slot(Count + 1) = tl
  BY <1>1, Positions DEF Count, Slot
<1>5. ASSUME NEW i \in 1 .. Count + 1
      PROVE  /\ Slot(i)' = Slot(i)
             /\ i \in 1 .. Count => buffer'[Slot(i)] = buffer[Slot(i)]
             /\ i = Count + 1 => buffer'[Slot(i)] = v
  <2>1. Slot(i)' = Slot(i)
    BY <1>1 DEF Slot
  <2>2. i \in 1 .. Count => buffer'[Slot(i)] = buffer[Slot(i)]
    BY <1>1, Positions DEF TypeOK
  <2>3. i = Count + 1 => buffer'[Slot(i)] = v
    BY <1>1, <1>4, Positions DEF TypeOK
  <2>4. QED
    BY <2>1, <2>2, <2>3
<1>6. FilledInv'
  <2> SUFFICES ASSUME NEW i \in 1 .. Count + 1 PROVE buffer'[Slot(i)'] \in Values
    BY <1>3 DEF FilledInv
  <2>1. i \in 1 .. Count \/ i = Count + 1
    BY Positions
  <2>2. QED
    BY <1>5, <2>1 DEF FilledInv
<1>7. Content' \in Seq(Values) /\ Len(Content') = Count + 1
  <2>1. Count' \in Nat /\ \A i \in 1 .. Count' : buffer'[Slot(i)'] \in Values
    BY <1>3, <1>6, Positions DEF FilledInv
  <2>2. Content' \in [1 .. Count' -> Values]
    BY <2>1 DEF Content
  <2>3. QED
    BY <1>3, <2>1, <2>2
<1>8. /\ \A i \in 1 .. Count : Content'[i] = Content[i]
      /\ Content'[Count + 1] = v
  <2>1. \A i \in 1 .. Count + 1 : Content'[i] = buffer'[Slot(i)']
    BY <1>3 DEF Content
  <2>2. \A i \in 1 .. Count : Content[i] = buffer[Slot(i)]
    BY DEF Content
  <2>3. \A i \in 1 .. Count : i \in 1 .. Count + 1
    BY Positions
  <2>4. Count + 1 \in 1 .. Count + 1
    BY Positions
  <2>5. QED
    BY <1>5, <2>1, <2>2, <2>3, <2>4
<1>9. Content' = Append(Content, v)
  BY <1>7, <1>8, ContentIsSeq, AppendIs
<1>10. QED
  BY <1>2, <1>6, <1>9

\* put() in a full ring: the copy starts at 0 and keeps the order.
LEMMA FullStep ==
  ASSUME QueueInv, NEW v \in Values, Succ(tl) = hd, putFull(v), last' = <<>>
  PROVE  QueueInv' /\ Content' = Append(Content, v)
<1> USE DEF QueueInv
<1>0. hd = IF tl + 1 = cap THEN 0 ELSE tl + 1
  BY SuccIs DEF TypeOK
<1>1. /\ hd' = 0 /\ tl' = cap /\ cap' = 2 * cap
      /\ buffer' = [Enlarged EXCEPT ![cap - 1] = v]
  <2>1. CASE hd > tl
    <3>1. (cap - hd) + tl = cap - 1 /\ (cap - 1) + 1 = cap
      BY <1>0, <2>1, Ends
    <3>2. QED
      BY <2>1, <3>1 DEF putFull
  <2>2. CASE ~(hd > tl)
    <3>1. hd = 0 /\ tl - hd = cap - 1 /\ (cap - 1) + 1 = cap
      BY <1>0, <2>2, Ends
    <3>2. QED
      BY <2>2, <3>1 DEF putFull
  <2>3. QED
    BY <2>1, <2>2
<1>2. Count = cap - 1 /\ Count' = Count + 1
  <2>1. Count = cap - 1
    BY <1>0, Ends DEF Count
  <2>2. Count' = cap
    BY <1>1, Ends DEF Count
  <2>3. QED
    BY <2>1, <2>2, Ends
<1>3. \A i \in 0 .. 2 * cap - 1 : Enlarged[i] \in Values \union {Junk}
  BY <1>0, Positions DEF Enlarged, TypeOK
<1>4. ASSUME NEW i \in 1 .. Count PROVE Enlarged[i - 1] = buffer[Slot(i)]
  <2>1. i \in 1 .. cap - 1 /\ i - 1 \in 0 .. 2 * cap - 1
    BY <1>2, Ends
  <2>2. CASE hd > tl
    <3>1. CASE i - 1 < cap - hd
      <4>1. Slot(i) = hd + (i - 1)
        BY <2>1, <3>1, Ends DEF Slot
      <4>2. QED
        BY <2>1, <2>2, <3>1, <4>1 DEF Enlarged
    <3>2. CASE ~(i - 1 < cap - hd)
      <4>1. /\ Slot(i) = (i - 1) - (cap - hd)
            /\ i - 1 >= cap - hd /\ i - 1 < (cap - hd) + tl
        <5>1. Slot(i) = hd + i - 1 - cap /\ i - 1 >= cap - hd
          BY <2>1, <3>2, Ends DEF Slot
        <5>2. i - 1 < (cap - hd) + tl
          BY <1>0, <2>1, <2>2, Ends
        <5> QED
          BY <2>1, <5>1, <5>2, Ends
      <4>2. QED
        BY <2>1, <2>2, <3>2, <4>1 DEF Enlarged
    <3>3. QED
      BY <3>1, <3>2
  <2>3. CASE ~(hd > tl)
    <3>1. Slot(i) = hd + (i - 1) /\ i - 1 < tl - hd
      BY <1>0, <2>1, <2>3, Ends DEF Slot
    <3>2. QED
      BY <2>1, <2>3, <3>1 DEF Enlarged
  <2>4. QED
    BY <2>2, <2>3
<1>5. TypeOK'
  <2>1. Enlarged \in [0 .. 2 * cap - 1 -> Values \union {Junk}]
    BY <1>3 DEF Enlarged
  <2>2. buffer' \in [0 .. 2 * cap - 1 -> Values \union {Junk}]
    BY <1>1, <2>1
  <2>3. QED
    BY <1>1, <2>2, Positions DEF TypeOK
<1>6. ASSUME NEW i \in 1 .. Count + 1
      PROVE  /\ Slot(i)' = i - 1
             /\ i \in 1 .. Count => buffer'[i - 1] = buffer[Slot(i)]
             /\ i = Count + 1 => buffer'[i - 1] = v
  <2>1. Slot(i)' = i - 1
    BY <1>1, <1>2, Positions DEF Slot
  <2>2. i \in 1 .. Count => buffer'[i - 1] = Enlarged[i - 1]
    <3>1. i \in 1 .. Count => i - 1 # cap - 1 /\ i - 1 \in 0 .. 2 * cap - 1
      BY <1>2, Ends
    <3>2. QED
      BY <1>1, <3>1 DEF Enlarged
  <2>3. i = Count + 1 => buffer'[i - 1] = v
    BY <1>1, <1>2, Positions DEF Enlarged
  <2>4. QED
    BY <1>4, <2>1, <2>2, <2>3
<1>7. FilledInv'
  <2> SUFFICES ASSUME NEW i \in 1 .. Count + 1 PROVE buffer'[Slot(i)'] \in Values
    BY <1>2 DEF FilledInv
  <2>1. i \in 1 .. Count \/ i = Count + 1
    BY Positions
  <2>2. QED
    BY <1>6, <2>1 DEF FilledInv
<1>8. Content' \in Seq(Values) /\ Len(Content') = Count + 1
  <2>1. Count' \in Nat /\ \A i \in 1 .. Count' : buffer'[Slot(i)'] \in Values
    BY <1>2, <1>7, Positions DEF FilledInv
  <2>2. Content' \in [1 .. Count' -> Values]
    BY <2>1 DEF Content
  <2>3. QED
    BY <1>2, <2>1, <2>2
<1>9. /\ \A i \in 1 .. Count : Content'[i] = Content[i]
      /\ Content'[Count + 1] = v
  <2>1. \A i \in 1 .. Count + 1 : Content'[i] = buffer'[Slot(i)']
    BY <1>2 DEF Content
  <2>2. \A i \in 1 .. Count : Content[i] = buffer[Slot(i)]
    BY DEF Content
  <2>3. /\ \A i \in 1 .. Count : i \in 1 .. Count + 1
        /\ Count + 1 \in 1 .. Count + 1
    BY Positions
  <2>4. QED
    BY <1>6, <2>1, <2>2, <2>3
<1>10. Content' = Append(Content, v)
  BY <1>8, <1>9, ContentIsSeq, AppendIs
<1>11. QED
  BY <1>5, <1>7, <1>10

\* get(): the slots after the first.
LEMMA GetStep ==
  ASSUME QueueInv, get
  PROVE  /\ QueueInv' /\ Content # <<>> /\ Content' = Tail(Content)
         /\ last' = Append(last, Head(Content))
<1> USE DEF QueueInv
<1>1. /\ hd' = IF hd + 1 = cap THEN 0 ELSE hd + 1
      /\ tl' = tl /\ cap' = cap /\ buffer' = buffer /\ hd # tl
      /\ last' = Append(last, buffer[hd])
  BY SuccIs DEF get, TypeOK, isEmpty
<1>2. Count' = Count - 1 /\ Count > 0 /\ Slot(1) = hd
  BY <1>1, Positions DEF Count, Slot
<1>3. ASSUME NEW i \in 1 .. Count - 1 PROVE Slot(i)' = Slot(i + 1)
  <2>1. i \in Nat /\ i > 0 /\ i < cap
    BY <1>2, Positions
  <2>2. QED
    BY <1>1, <2>1, Ends DEF Slot
<1>4. /\ \A i \in 1 .. Count - 1 : i + 1 \in 1 .. Count
      /\ 1 \in 1 .. Count
  BY <1>2, Positions
<1>5. buffer[hd] \in Values
  BY <1>2, <1>4 DEF FilledInv
<1>6. TypeOK'
  BY <1>1, <1>5 DEF TypeOK
<1>7. FilledInv'
  BY <1>1, <1>2, <1>3, <1>4 DEF FilledInv
<1>8. Content' \in Seq(Values) /\ Len(Content') = Count - 1
  <2>1. Count' \in Nat /\ \A i \in 1 .. Count' : buffer'[Slot(i)'] \in Values
    BY <1>2, <1>7, Positions DEF FilledInv
  <2>2. Content' \in [1 .. Count' -> Values]
    BY <2>1 DEF Content
  <2>3. QED
    BY <1>2, <2>1, <2>2
<1>9. \A i \in 1 .. Count - 1 : Content'[i] = Content[i + 1]
  BY <1>1, <1>2, <1>3, <1>4 DEF Content
<1>10. Content # <<>> /\ Head(Content) = buffer[hd]
  <2>1. Content[1] = buffer[hd]
    BY <1>2, <1>4 DEF Content
  <2>2. QED
    BY <1>2, <2>1, ContentIsSeq
<1>11. Content' = Tail(Content)
  BY <1>8, <1>9, <1>10, ContentIsSeq, TailIs
<1>12. QED
  BY <1>1, <1>6, <1>7, <1>10, <1>11

\* An empty ring is the empty sequence.
LEMMA EmptyContent ==
  ASSUME hd = 0, tl = 0 PROVE Count = 0 /\ Content = <<>> /\ FilledInv
BY DEF Count, Content, FilledInv

\* The invariant is inductive, and every step is one of a FIFO.
LEMMA QueueStep ==
  ASSUME QueueInv, Next, ~AliasedFull
  PROVE  QueueInv' /\ Queue!Next
<1>1. ASSUME NEW v \in Values, put(v) PROVE QueueInv' /\ Queue!Next
  <2>1. QueueInv' /\ Content' = Append(Content, v) /\ last' = <<>>
    BY <1>1, RoomStep, FullStep DEF put
  <2>2. QED
    BY <2>1 DEF Queue!Next, Queue!Put
<1>2. ASSUME putHead PROVE QueueInv' /\ Queue!Next
  <2>1. PICK v \in Values \union {Junk} :
          (Succ(tl) # hd => v = buffer[hd]) /\ put(v)
    BY <1>2 DEF putHead
  <2>2. v = buffer[hd] /\ hd # tl
    BY <1>2, <2>1 DEF putHead, isEmpty
  <2>3. 1 \in 1 .. Count /\ Slot(1) = hd
    <3>1. Count \in Nat /\ Count # 0
      BY <2>2, Positions DEF QueueInv, isEmpty
    <3>2. Slot(1) = hd
      BY Ends DEF Slot, QueueInv
    <3>3. QED
      BY <3>1, <3>2
  <2>4. v \in Values
    BY <2>2, <2>3 DEF QueueInv, FilledInv
  <2>5. QED
    BY <1>1, <2>1, <2>4
<1>3. ASSUME get PROVE QueueInv' /\ Queue!Next
  BY <1>3, GetStep DEF Queue!Next, Queue!Get
<1>4. ASSUME reset PROVE QueueInv' /\ Queue!Next
  <2>1. hd' = 0 /\ tl' = 0 /\ last' = <<>> /\ UNCHANGED <<cap, buffer>>
    BY <1>4 DEF reset
  <2>2. Count' = 0
    BY <2>1 DEF Count
  <2>3. Content' = <<>> /\ FilledInv'
    BY <2>2 DEF Content, FilledInv
  <2>4. TypeOK'
    BY <2>1 DEF QueueInv, TypeOK
  <2>5. QED
    BY <2>1, <2>3, <2>4 DEF QueueInv, Queue!Next, Queue!Reset
<1>5. QED
  BY <1>1, <1>2, <1>3, <1>4 DEF Next

\* A new queue is an empty FIFO.
LEMMA QueueInit == Init => QueueInv /\ Queue!Init
<1> SUFFICES ASSUME Init PROVE QueueInv /\ Queue!Init
  OBVIOUS
<1>1. Count = 0 /\ Content = <<>> /\ FilledInv
  BY EmptyContent DEF Init
<1>2. TypeOK
  BY CapacityAssumption DEF Init, TypeOK
<1>3. QED
  BY <1>1, <1>2 DEF QueueInv, Queue!Init, Init

\* VectorQueue<T> is a FIFO queue: put(), get() and reset() through any
\* wrapping and any enlarge(), unless put() is given a reference into a
\* full queue.
THEOREM RingIsFifo ==
  ASSUME ~AliasedFull PROVE Spec => ImplementsFifo
<1>1. Init => QueueInv /\ Queue!Init
  BY QueueInit
<1>2. QueueInv /\ [Next]_vars => QueueInv' /\ [Queue!Next]_<<Content, last>>
  <2> SUFFICES ASSUME QueueInv, [Next]_vars
               PROVE  QueueInv' /\ [Queue!Next]_<<Content, last>>
    OBVIOUS
  <2>1. CASE Next
    BY <2>1, QueueStep
  <2>2. CASE UNCHANGED vars
    BY <2>2 DEF vars, QueueInv, TypeOK, FilledInv, Count, Slot, Content
  <2>3. QED
    BY <2>1, <2>2
<1>3. QED
  BY <1>1, <1>2, PTL DEF Spec, ImplementsFifo, Queue!Spec

\* size() counts the items of a queue that is not empty.
THEOREM SizeCounts ==
  ASSUME ~AliasedFull PROVE Spec => []SizeOfNonEmpty
<1>1. Init => QueueInv
  BY QueueInit
<1>2. QueueInv /\ [Next]_vars => QueueInv'
  <2> SUFFICES ASSUME QueueInv, [Next]_vars PROVE QueueInv'
    OBVIOUS
  <2>1. CASE Next
    BY <2>1, QueueStep
  <2>2. CASE UNCHANGED vars
    BY <2>2 DEF vars, QueueInv, TypeOK, FilledInv, Count, Slot
  <2>3. QED
    BY <2>1, <2>2
<1>3. QueueInv => SizeOfNonEmpty
  <2>1. QueueInv => Len(Content) = Count
    BY ContentIsSeq
  <2>2. QueueInv /\ ~isEmpty => size = Count
    BY Ends DEF QueueInv, size, Count, isEmpty
  <2>3. QED
    BY <2>1, <2>2 DEF SizeOfNonEmpty
<1>4. QED
  BY <1>1, <1>2, <1>3, PTL DEF Spec
=============================================================================
