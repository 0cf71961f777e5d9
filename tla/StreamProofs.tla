---------------------------- MODULE StreamProofs ----------------------------
(***************************************************************************)
(* The buffered output stream never overruns its buffer, never repeats or  *)
(* reorders a byte and never sends one to another stream than the one it   *)
(* was written for, whatever the size of the buffer and of the blocks and  *)
(* whatever the streams answer.  The buffered input stream gives every     *)
(* byte once, and the pipe copies exactly what it was given.               *)
(***************************************************************************)
EXTENDS BufferedOutStream, TLAPS

\* Every byte of s is in S.
AllIn(s, S) == \A i \in 1..Len(s) : s[i] \in S

\* Every byte of s was written before every byte of t.
Below(s, t) == \A i \in 1..Len(s), j \in 1..Len(t) : s[i] < t[j]

\* The bytes written so far while st was buffered.
Owned(st) == {b \in 1..next : home[b] = st}

\* A sequence that is clean for st: in order, and made of bytes of st.
Clean(s, st) == s \in Seq(Nat) /\ Increasing(s) /\ AllIn(s, Owned(st))

\* Where a call may stand, and what that says of the buffer and the block.
CallInv ==
    /\ pc \in {"idle", "attach", "dead"} => pend = <<>>
    /\ pc \in {"loop", "attach", "dead"} => buf = <<>>
    /\ pc = "loop" => call = "write"
    /\ pc = "flush" =>
        /\ call # "none"
        /\ call \in {"flush", "setStream", "delete"} => pend = <<>>
        /\ call = "writeChar" => Len(pend) = 1

\* The bytes of the current stream stand in the order received, buffered,
\* pending; those of the other streams have all been received.
OrderInv ==
    /\ \A s \in Streams : Clean(got[s], s)
    /\ Clean(buf, out)
    /\ Clean(pend, out)
    /\ Below(got[out], buf) /\ Below(got[out], pend) /\ Below(buf, pend)

OutInv == TypeOK /\ BufferInBounds /\ CallInv /\ OrderInv

-----------------------------------------------------------------------------
(* Sequences in order. *)

\* Putting together two sequences in order, the first below the second.
LEMMA ConcatClean ==
    ASSUME NEW S, NEW s \in Seq(Nat), NEW t \in Seq(Nat),
           Increasing(s), Increasing(t), Below(s, t), AllIn(s, S), AllIn(t, S)
    PROVE  s \o t \in Seq(Nat) /\ Increasing(s \o t) /\ AllIn(s \o t, S)
<1>1. s \o t \in Seq(Nat) /\ Len(s \o t) = Len(s) + Len(t)
  OBVIOUS
<1>2. \A i \in 1..Len(s) + Len(t) :
        (s \o t)[i] = IF i <= Len(s) THEN s[i] ELSE t[i - Len(s)]
  OBVIOUS
<1>3. \A i \in 1..Len(s) + Len(t) : i > Len(s) => i - Len(s) \in 1..Len(t)
  OBVIOUS
<1>4. \A i \in 1..Len(s) : s[i] \in Nat
  OBVIOUS
<1>5. \A i \in 1..Len(t) : t[i] \in Nat
  OBVIOUS
<1>6. AllIn(s \o t, S)
  BY <1>1, <1>2, <1>3 DEF AllIn
<1>7. Increasing(s \o t)
  <2> SUFFICES ASSUME NEW i \in 1..Len(s) + Len(t), NEW j \in 1..Len(s) + Len(t), i < j
               PROVE  (s \o t)[i] < (s \o t)[j]
    BY <1>1 DEF Increasing
  <2>1. CASE j <= Len(s)
    BY <1>2, <2>1 DEF Increasing
  <2>2. CASE i <= Len(s) /\ j > Len(s)
    BY <1>2, <1>3, <2>2 DEF Below
  <2>3. CASE i > Len(s)
    <3>1. i - Len(s) \in 1..Len(t) /\ j - Len(s) \in 1..Len(t) /\ i - Len(s) < j - Len(s)
      BY <1>3, <2>3
    <3>2. (s \o t)[i] = t[i - Len(s)] /\ (s \o t)[j] = t[j - Len(s)]
      BY <1>2, <2>3
    <3> QED
      BY <3>1, <3>2 DEF Increasing
  <2> QED
    BY <2>1, <2>2, <2>3
<1> QED
  BY <1>1, <1>6, <1>7

\* Concatenation keeps what stands above or below both of its parts.
LEMMA ConcatBelow ==
    ASSUME NEW s \in Seq(Nat), NEW t \in Seq(Nat), NEW u \in Seq(Nat)
    PROVE  /\ Below(s, u) /\ Below(t, u) => Below(s \o t, u)
           /\ Below(u, s) /\ Below(u, t) => Below(u, s \o t)
<1>1. Len(s \o t) = Len(s) + Len(t)
  OBVIOUS
<1>2. \A i \in 1..Len(s) + Len(t) :
        (s \o t)[i] = IF i <= Len(s) THEN s[i] ELSE t[i - Len(s)]
  OBVIOUS
<1>3. \A i \in 1..Len(s) + Len(t) : i > Len(s) => i - Len(s) \in 1..Len(t)
  OBVIOUS
<1>4. ASSUME Below(s, u), Below(t, u) PROVE Below(s \o t, u)
  <2> SUFFICES ASSUME NEW i \in 1..Len(s) + Len(t), NEW j \in 1..Len(u)
               PROVE  (s \o t)[i] < u[j]
    BY <1>1 DEF Below
  <2>1. CASE i <= Len(s)
    BY <1>2, <1>4, <2>1 DEF Below
  <2>2. CASE i > Len(s)
    <3>1. i - Len(s) \in 1..Len(t)
      BY <1>3, <2>2
    <3>2. t[i - Len(s)] < u[j]
      BY <1>4, <3>1 DEF Below
    <3> QED
      BY <1>2, <2>2, <3>2
  <2> QED
    BY <2>1, <2>2
<1>5. ASSUME Below(u, s), Below(u, t) PROVE Below(u, s \o t)
  <2> SUFFICES ASSUME NEW i \in 1..Len(s) + Len(t), NEW j \in 1..Len(u)
               PROVE  u[j] < (s \o t)[i]
    BY <1>1 DEF Below
  <2> QED
    BY <1>2, <1>3, <1>5 DEF Below
<1> QED
  BY <1>4, <1>5

\* A piece of a sequence in order.
LEMMA PieceClean ==
    ASSUME NEW S, NEW s \in Seq(Nat), NEW a \in Nat \ {0}, NEW b \in Nat,
           b <= Len(s), Increasing(s), AllIn(s, S)
    PROVE  /\ SubSeq(s, a, b) \in Seq(Nat)
           /\ Increasing(SubSeq(s, a, b)) /\ AllIn(SubSeq(s, a, b), S)
           /\ \A i \in 1..Len(SubSeq(s, a, b)) :
                  i + a - 1 \in 1..Len(s) /\ SubSeq(s, a, b)[i] = s[i + a - 1]
<1> DEFINE p == SubSeq(s, a, b)
<1>1. p \in Seq(Nat) /\ Len(p) = IF a <= b THEN b - a + 1 ELSE 0
  OBVIOUS
<1>2. \A i \in 1..Len(p) : i + a - 1 \in 1..Len(s) /\ p[i] = s[i + a - 1]
  BY <1>1
<1> HIDE DEF p
<1>3. AllIn(p, S)
  BY <1>2 DEF AllIn
<1>4. Increasing(p)
  <2> SUFFICES ASSUME NEW i \in 1..Len(p), NEW j \in 1..Len(p), i < j
               PROVE  p[i] < p[j]
    BY DEF Increasing
  <2>1. i + a - 1 \in 1..Len(s) /\ j + a - 1 \in 1..Len(s) /\ i + a - 1 < j + a - 1
    BY <1>2
  <2>2. s[i + a - 1] < s[j + a - 1]
    BY <2>1 DEF Increasing
  <2> QED
    BY <1>2, <2>2
<1> QED
  BY <1>1, <1>2, <1>3, <1>4 DEF p

\* A piece of a sequence keeps what stands above or below it.
LEMMA PieceBelow ==
    ASSUME NEW s \in Seq(Nat), NEW u \in Seq(Nat), NEW p \in Seq(Nat), NEW k \in Nat,
           \A i \in 1..Len(p) : i + k \in 1..Len(s) /\ p[i] = s[i + k]
    PROVE  /\ Below(s, u) => Below(p, u)
           /\ Below(u, s) => Below(u, p)
BY DEF Below

\* What a stream takes of a block is a prefix of it.
LEMMA TakenPrefix ==
    ASSUME NEW S, NEW s \in Seq(Nat), NEW n \in Nat, n <= Len(s), NEW r \in Outcome(n),
           Increasing(s), AllIn(s, S)
    PROVE  /\ r \in Int /\ r <= n
           /\ Taken(s, r) \in Seq(Nat) /\ Len(Taken(s, r)) <= n
           /\ Increasing(Taken(s, r)) /\ AllIn(Taken(s, r), S)
           /\ \A i \in 1..Len(Taken(s, r)) :
                  i + 0 \in 1..Len(s) /\ Taken(s, r)[i] = s[i + 0]
<1>1. r \in Int /\ r <= n /\ (r < 0 \/ r \in Nat)
  BY DEF Outcome
<1>2. CASE r < 0
  <2>1. Taken(s, r) = <<>>
    BY <1>2 DEF Taken
  <2> QED
    BY <1>1, <2>1 DEF Increasing, AllIn
<1>3. CASE r \in Nat
  <2>1. Taken(s, r) = SubSeq(s, 1, r)
    BY <1>3 DEF Taken
  <2>2. Len(SubSeq(s, 1, r)) = r
    BY <1>1, <1>3
  <2>3. \A i \in 1..r : i \in 1..Len(s) /\ SubSeq(s, 1, r)[i] = s[i]
    BY <1>1, <1>3
  <2>4. Increasing(SubSeq(s, 1, r))
    <3> SUFFICES ASSUME NEW i \in 1..r, NEW j \in 1..r, i < j
                 PROVE  SubSeq(s, 1, r)[i] < SubSeq(s, 1, r)[j]
      BY <2>2 DEF Increasing
    <3>1. i \in 1..Len(s) /\ j \in 1..Len(s)
      BY <1>1, <1>3
    <3>2. s[i] < s[j]
      BY <3>1 DEF Increasing
    <3>3. SubSeq(s, 1, r)[i] = s[i] /\ SubSeq(s, 1, r)[j] = s[j]
      BY <2>3, <3>1
    <3> QED
      BY <3>2, <3>3
  <2>5. AllIn(SubSeq(s, 1, r), S)
    BY <1>1, <1>3, <2>2, <2>3 DEF AllIn
  <2>6. SubSeq(s, 1, r) \in Seq(Nat)
    BY <1>1, <1>3
  <2>7. \A i \in 1..r : i + 0 = i
    OBVIOUS
  <2> QED
    BY <1>1, <2>1, <2>2, <2>3, <2>4, <2>5, <2>6, <2>7
<1> QED
  BY <1>1, <1>2, <1>3

\* The length of a concatenation.
LEMMA ConcatLen ==
    ASSUME NEW s \in Seq(Nat), NEW t \in Seq(Nat)
    PROVE  Len(s \o t) = Len(s) + Len(t)
OBVIOUS

\* What the empty sequence satisfies.
LEMMA EmptyClean ==
    ASSUME NEW S, NEW s
    PROVE  /\ <<>> \in Seq(Nat) /\ Increasing(<<>>) /\ AllIn(<<>>, S)
           /\ Below(<<>>, s) /\ Below(s, <<>>)
BY DEF Increasing, AllIn, Below

\* A stream that has received s and is given the n first bytes of t.
LEMMA Received ==
    ASSUME NEW S, NEW s \in Seq(Nat), NEW t \in Seq(Nat), NEW n \in Nat, n <= Len(t),
           NEW r \in Outcome(n),
           Increasing(s), Increasing(t), AllIn(s, S), AllIn(t, S), Below(s, t)
    PROVE  /\ r \in Int
           /\ s \o Taken(t, r) \in Seq(Nat)
           /\ Increasing(s \o Taken(t, r)) /\ AllIn(s \o Taken(t, r), S)
           /\ \A u \in Seq(Nat) : Below(s, u) /\ Below(t, u) => Below(s \o Taken(t, r), u)
<1>1. /\ r \in Int
      /\ Taken(t, r) \in Seq(Nat)
      /\ Increasing(Taken(t, r)) /\ AllIn(Taken(t, r), S)
      /\ \A i \in 1..Len(Taken(t, r)) :
             i + 0 \in 1..Len(t) /\ Taken(t, r)[i] = t[i + 0]
  BY TakenPrefix
<1>2. \A u \in Seq(Nat) : /\ Below(t, u) => Below(Taken(t, r), u)
                          /\ Below(u, t) => Below(u, Taken(t, r))
  BY <1>1, PieceBelow
<1>3. Below(s, Taken(t, r))
  BY <1>2
<1>4. /\ s \o Taken(t, r) \in Seq(Nat)
      /\ Increasing(s \o Taken(t, r)) /\ AllIn(s \o Taken(t, r), S)
  BY <1>1, <1>3, ConcatClean
<1>5. \A u \in Seq(Nat) : Below(s, u) /\ Below(t, u) => Below(s \o Taken(t, r), u)
  BY <1>1, <1>2, ConcatBelow
<1> QED
  BY <1>1, <1>4, <1>5

\* The rest of t, after its n first bytes, is still above what was received.
LEMMA RestClean ==
    ASSUME NEW S, NEW s \in Seq(Nat), NEW t \in Seq(Nat), NEW n \in Nat, n <= Len(t),
           NEW r \in Outcome(n),
           Increasing(s), Increasing(t), AllIn(s, S), AllIn(t, S), Below(s, t)
    PROVE  LET rest == SubSeq(t, n + 1, Len(t))
           IN  /\ rest \in Seq(Nat) /\ Increasing(rest) /\ AllIn(rest, S)
               /\ Below(s \o Taken(t, r), rest)
<1> DEFINE rest == SubSeq(t, n + 1, Len(t))
<1>1. n + 1 \in Nat \ {0} /\ Len(t) \in Nat /\ Len(t) <= Len(t)
  OBVIOUS
<1>2. /\ rest \in Seq(Nat) /\ Increasing(rest) /\ AllIn(rest, S)
      /\ \A i \in 1..Len(rest) :
             i + (n + 1) - 1 \in 1..Len(t) /\ rest[i] = t[i + (n + 1) - 1]
  BY <1>1, PieceClean
<1> HIDE DEF rest
<1>3. \A i \in 1..Len(rest) : i + n \in 1..Len(t) /\ rest[i] = t[i + n]
  BY <1>2
<1>4. Below(s, rest)
  BY <1>2, <1>3, PieceBelow
<1>5. /\ Taken(t, r) \in Seq(Nat) /\ Len(Taken(t, r)) <= n
      /\ \A i \in 1..Len(Taken(t, r)) :
             i + 0 \in 1..Len(t) /\ Taken(t, r)[i] = t[i + 0]
  BY TakenPrefix
<1>6. Below(Taken(t, r), rest)
  <2> SUFFICES ASSUME NEW i \in 1..Len(Taken(t, r)), NEW j \in 1..Len(rest)
               PROVE  Taken(t, r)[i] < rest[j]
    BY DEF Below
  <2>1. i \in 1..Len(t) /\ Taken(t, r)[i] = t[i]
    BY <1>5
  <2>2. j + n \in 1..Len(t) /\ rest[j] = t[j + n] /\ i < j + n
    BY <1>2, <1>3, <1>5
  <2> QED
    BY <2>1, <2>2 DEF Increasing
<1>7. Below(s \o Taken(t, r), rest)
  BY <1>2, <1>4, <1>5, <1>6, ConcatBelow
<1> QED
  BY <1>2, <1>7 DEF rest

-----------------------------------------------------------------------------
(* The bytes of a new call. *)

\* They follow every byte written before, and belong to the current stream.
LEMMA NewBytes ==
    ASSUME TypeOK, NEW n \in Nat, Given(n)
    PROVE  /\ next' \in Nat /\ home' \in Seq(Streams) /\ Len(home') = next'
           /\ \A st \in Streams : Owned(st) \subseteq Owned(st)'
           /\ Bytes(n) \in Seq(Nat) /\ Len(Bytes(n)) = n
           /\ Increasing(Bytes(n))
           /\ AllIn(Bytes(n), {b \in 1..next' : home'[b] = out})
           /\ \A st \in Streams : \A s \in Seq(Nat) :
                  AllIn(s, Owned(st)) => Below(s, Bytes(n))
<1> DEFINE tail == [i \in 1..n |-> out]
<1>1. next \in Nat /\ out \in Streams /\ home \in Seq(Streams) /\ Len(home) = next
  BY DEF TypeOK
<1>2. tail \in Seq(Streams) /\ Len(tail) = n /\ \A i \in 1..n : tail[i] = out
  BY <1>1
<1>3. home' = home \o tail /\ next' = next + n
  BY DEF Given
<1> HIDE DEF tail
<1>4. next' \in Nat /\ home' \in Seq(Streams) /\ Len(home') = next'
  <2>1. home \o tail \in Seq(Streams)
    BY <1>1, <1>2
  <2>2. Len(home \o tail) = next + n
    BY <1>1, <1>2
  <2> QED
    BY <1>1, <1>3, <2>1, <2>2
<1>5. /\ \A b \in 1..next : home'[b] = home[b]
      /\ \A i \in 1..n : home'[next + i] = out
  BY <1>1, <1>2, <1>3
<1>6. \A st \in Streams : Owned(st) \subseteq Owned(st)'
  BY <1>1, <1>3, <1>5 DEF Owned
<1>7. /\ Bytes(n) \in Seq(Nat) /\ Len(Bytes(n)) = n
      /\ \A i \in 1..n : Bytes(n)[i] = next + i
  BY <1>1 DEF Bytes
<1>8. Increasing(Bytes(n))
  BY <1>1, <1>7 DEF Increasing
<1>9. AllIn(Bytes(n), {b \in 1..next' : home'[b] = out})
  <2> SUFFICES ASSUME NEW i \in 1..n
               PROVE  Bytes(n)[i] \in 1..next' /\ home'[Bytes(n)[i]] = out
    BY <1>7 DEF AllIn
  <2>1. Bytes(n)[i] = next + i /\ next + i \in 1..next'
    BY <1>1, <1>3, <1>7
  <2> QED
    BY <1>5, <2>1
<1>10. ASSUME NEW st \in Streams, NEW s \in Seq(Nat), AllIn(s, Owned(st))
       PROVE  Below(s, Bytes(n))
  BY <1>1, <1>7, <1>10 DEF AllIn, Owned, Below
<1> QED
  <2>1. \A st \in Streams : \A s \in Seq(Nat) :
            AllIn(s, Owned(st)) => Below(s, Bytes(n))
    BY <1>10
  <2> QED
    BY <1>4, <1>6, <1>7, <1>8, <1>9, <2>1

\* Storing or putting aside the bytes of a new call keeps the order.
LEMMA NewBytesOrder ==
    ASSUME OutInv, NEW n \in Nat, Given(n), pend = <<>>, UNCHANGED <<out, got>>,
           \/ buf' = buf \o Bytes(n) /\ pend' = pend
           \/ buf' = buf /\ pend' = Bytes(n)
    PROVE  OrderInv' /\ buf' \in Seq(Nat) /\ pend' \in Seq(Nat)
<1> USE DEF Clean
<1>0. out \in Streams /\ TypeOK /\ OrderInv
  BY DEF OutInv, TypeOK
<1>1. /\ \A st \in Streams : Owned(st) \subseteq Owned(st)'
      /\ Bytes(n) \in Seq(Nat) /\ Increasing(Bytes(n))
      /\ AllIn(Bytes(n), {b \in 1..next' : home'[b] = out})
      /\ \A st \in Streams : \A s \in Seq(Nat) :
             AllIn(s, Owned(st)) => Below(s, Bytes(n))
  BY <1>0, NewBytes
<1>2. AllIn(Bytes(n), Owned(out)')
  BY <1>1 DEF Owned
<1>3. \A st \in Streams : \A s \in Seq(Nat) :
        AllIn(s, Owned(st)) => AllIn(s, Owned(st)')
  BY <1>1 DEF AllIn
<1>4. \A st \in Streams : /\ got[st] \in Seq(Nat) /\ Increasing(got[st])
                          /\ AllIn(got[st], Owned(st)')
  BY <1>0, <1>3 DEF OrderInv
<1>5. /\ buf \in Seq(Nat) /\ Increasing(buf) /\ AllIn(buf, Owned(out)')
      /\ Below(buf, Bytes(n)) /\ Below(got[out], Bytes(n)) /\ Below(got[out], buf)
  BY <1>0, <1>1, <1>3 DEF OrderInv
<1>6. /\ buf \o Bytes(n) \in Seq(Nat) /\ Increasing(buf \o Bytes(n))
      /\ AllIn(buf \o Bytes(n), Owned(out)')
  BY <1>1, <1>2, <1>5, ConcatClean
<1>7. Below(got[out], buf \o Bytes(n))
  BY <1>0, <1>1, <1>4, <1>5, ConcatBelow
<1>8. /\ <<>> \in Seq(Nat) /\ Increasing(<<>>) /\ AllIn(<<>>, Owned(out)')
      /\ Below(got[out], <<>>) /\ Below(buf \o Bytes(n), <<>>)
  BY EmptyClean
<1>9. CASE buf' = buf \o Bytes(n) /\ pend' = pend
  BY <1>4, <1>6, <1>7, <1>8, <1>9 DEF OrderInv
<1>10. CASE buf' = buf /\ pend' = Bytes(n)
  BY <1>1, <1>2, <1>4, <1>5, <1>10 DEF OrderInv
<1> QED
  BY <1>9, <1>10

\* A write of the buffer to the stream, when the buffer is emptied.
LEMMA FlushOrder ==
    ASSUME OutInv, NEW r \in Outcome(Len(buf)), UNCHANGED <<out, next, home>>,
           got' = [got EXCEPT ![out] = @ \o Taken(buf, r)],
           \/ buf' = <<>> /\ pend' = pend
           \/ buf' = <<>> /\ pend' = <<>>
           \/ buf' = <<>> \o pend /\ pend' = <<>>
    PROVE  /\ OrderInv' /\ r \in Int
           /\ buf' \in Seq(Nat) /\ pend' \in Seq(Nat) /\ got' \in [Streams -> Seq(Nat)]
<1> USE DEF Clean
<1>0. out \in Streams /\ got \in [Streams -> Seq(Nat)] /\ OrderInv
  BY DEF OutInv, TypeOK
<1>1. \A st : Owned(st)' = Owned(st)
  BY DEF Owned
<1>2. /\ got[out] \in Seq(Nat) /\ Increasing(got[out]) /\ AllIn(got[out], Owned(out))
      /\ buf \in Seq(Nat) /\ Increasing(buf) /\ AllIn(buf, Owned(out))
      /\ pend \in Seq(Nat) /\ Increasing(pend) /\ AllIn(pend, Owned(out))
      /\ Below(got[out], buf) /\ Below(got[out], pend) /\ Below(buf, pend)
  BY <1>0 DEF OrderInv
<1>3. Len(buf) \in Nat /\ Len(buf) <= Len(buf)
  BY <1>2
<1> DEFINE g == got[out] \o Taken(buf, r)
<1>4. /\ r \in Int /\ g \in Seq(Nat) /\ Increasing(g) /\ AllIn(g, Owned(out))
      /\ \A u \in Seq(Nat) : Below(got[out], u) /\ Below(buf, u) => Below(g, u)
  BY <1>2, <1>3, Received
<1>5. got' = [got EXCEPT ![out] = g]
  OBVIOUS
<1> HIDE DEF g
<1>6. /\ got' \in [Streams -> Seq(Nat)] /\ got'[out] = g
      /\ \A st \in Streams : st # out => got'[st] = got[st]
  BY <1>0, <1>4, <1>5
<1>7. \A st \in Streams : /\ got'[st] \in Seq(Nat) /\ Increasing(got'[st])
                          /\ AllIn(got'[st], Owned(st)')
  BY <1>0, <1>1, <1>4, <1>6 DEF OrderInv
<1>8. Below(g, pend)
  BY <1>2, <1>4
<1>9. <<>> \o pend = pend
  BY <1>2
<1>10. /\ <<>> \in Seq(Nat) /\ Increasing(<<>>) /\ AllIn(<<>>, Owned(out))
       /\ Below(g, <<>>) /\ Below(<<>>, pend) /\ Below(pend, <<>>) /\ Below(<<>>, <<>>)
  BY EmptyClean
<1>11. buf' \in {<<>>, pend} /\ pend' \in {<<>>, pend}
        /\ (buf' = <<>> \/ pend' = <<>>)
  BY <1>9
<1>12. /\ buf' \in Seq(Nat) /\ Increasing(buf') /\ AllIn(buf', Owned(out)')
       /\ pend' \in Seq(Nat) /\ Increasing(pend') /\ AllIn(pend', Owned(out)')
       /\ Below(g, buf') /\ Below(g, pend') /\ Below(buf', pend')
  BY <1>1, <1>2, <1>8, <1>10, <1>11
<1> QED
  BY <1>4, <1>6, <1>7, <1>12 DEF OrderInv

\* Steps that leave the bytes where they are keep the order.
LEMMA SameOrder ==
    ASSUME OutInv, UNCHANGED <<out, got, buf, pend, next, home>>
    PROVE  OrderInv'
<1>1. \A st : Owned(st)' = Owned(st)
  BY DEF Owned
<1> QED
  BY <1>1 DEF OutInv, OrderInv, Clean

-----------------------------------------------------------------------------
(* The invariant. *)

\* What a call that returns leaves in the variables of its result.
LEMMA ReturnTypes ==
    ASSUME NEW r \in Int, told \in BOOLEAN, Return(r)
    PROVE  pc' = "idle" /\ rc' \in Int /\ told' \in BOOLEAN
<1>1. told' = (told \/ r < 0)
  BY DEF Return
<1>2. told' \in BOOLEAN
  BY <1>1, Zenon
<1> QED
  BY <1>2 DEF Return

\* A new stream has an empty buffer and has written nothing.
LEMMA OutInvInit == Init => OutInv
<1> SUFFICES ASSUME Init PROVE OutInv
  OBVIOUS
<1>1. TypeOK
  <2>1. got \in [Streams -> Seq(Nat)] /\ home \in Seq(Streams) /\ Len(home) = next
    BY DEF Init
  <2>2. dropped \subseteq Nat /\ told \in BOOLEAN
    BY DEF Init
  <2> QED
    BY <2>1, <2>2 DEF Init, TypeOK, Calls
<1>2. BufferInBounds /\ CallInv
  BY SizeAssumption DEF Init, BufferInBounds, CallInv
<1>3. \A st \in Streams : got[st] = <<>>
  BY DEF Init
<1>4. OrderInv
  BY <1>3, EmptyClean DEF Init, OrderInv, Clean
<1> QED
  BY <1>1, <1>2, <1>4 DEF OutInv

\* Every step of every call keeps the invariant.
LEMMA OutInvNext == OutInv /\ [Next]_vars => OutInv'
<1> SUFFICES ASSUME OutInv, [Next]_vars PROVE OutInv'
  OBVIOUS
<1>t. TypeOK /\ CallInv /\ BufferInBounds
  BY DEF OutInv
<1>b. BufSize \in Nat \ {0} /\ Sizes \subseteq Nat
  BY SizeAssumption
<1>l. /\ buf \in Seq(Nat) /\ pend \in Seq(Nat) /\ Len(buf) \in Nat /\ Len(pend) \in Nat
      /\ Len(buf) <= BufSize
  BY <1>t DEF TypeOK, BufferInBounds
<1>1. ASSUME NEW n \in Sizes, write(n) PROVE OutInv'
  <2>0. n \in Nat /\ Given(n) /\ pend = <<>> /\ UNCHANGED <<out, got, target, dropped>>
    BY <1>1, <1>b, <1>t DEF write, CallInv
  <2>1. \/ buf' = buf \o Bytes(n) /\ pend' = pend
        \/ buf' = buf /\ pend' = Bytes(n)
    BY <1>1 DEF write
  <2>2. OrderInv' /\ buf' \in Seq(Nat) /\ pend' \in Seq(Nat)
    BY <2>0, <2>1, NewBytesOrder
  <2>3. /\ next' \in Nat /\ home' \in Seq(Streams) /\ Len(home') = next'
        /\ Bytes(n) \in Seq(Nat) /\ Len(Bytes(n)) = n
    BY <1>t, <2>0, NewBytes
  <2>4. TypeOK'
    BY <1>1, <1>t, <2>0, <2>2, <2>3 DEF TypeOK, write, Return, Calls
  <2>5. BufferInBounds'
    <3>1. CASE buf' = buf
      BY <1>l, <3>1 DEF BufferInBounds
    <3>2. CASE Room(n) /\ buf' = buf \o Bytes(n)
      <4>1. Len(buf \o Bytes(n)) = Len(buf) + n
        BY <1>l, <2>3, ConcatLen
      <4> QED
        BY <1>b, <1>l, <2>0, <3>2, <4>1 DEF Room, BufferInBounds
    <3> QED
      BY <1>1, <3>1, <3>2 DEF write
  <2>6. CallInv'
    BY <1>1, <2>0 DEF CallInv, write, Return
  <2> QED
    BY <2>2, <2>4, <2>5, <2>6 DEF OutInv
<1>2. CASE writeChar
  <2>0. Given(1) /\ pend = <<>> /\ UNCHANGED <<out, got, target, dropped>>
    BY <1>2, <1>t DEF writeChar, CallInv
  <2>1. \/ buf' = buf \o Bytes(1) /\ pend' = pend
        \/ buf' = buf /\ pend' = Bytes(1)
    BY <1>2 DEF writeChar
  <2>2. OrderInv' /\ buf' \in Seq(Nat) /\ pend' \in Seq(Nat)
    BY <2>0, <2>1, NewBytesOrder
  <2>3. /\ next' \in Nat /\ home' \in Seq(Streams) /\ Len(home') = next'
        /\ Bytes(1) \in Seq(Nat) /\ Len(Bytes(1)) = 1
    BY <1>t, <2>0, NewBytes
  <2>4. TypeOK'
    BY <1>2, <1>t, <2>0, <2>2, <2>3 DEF TypeOK, writeChar, Return, Calls
  <2>5. BufferInBounds'
    <3>1. CASE buf' = buf
      BY <1>l, <3>1 DEF BufferInBounds
    <3>2. CASE Len(buf) # BufSize /\ buf' = buf \o Bytes(1)
      <4>1. Len(buf \o Bytes(1)) = Len(buf) + 1
        BY <1>l, <2>3, ConcatLen
      <4> QED
        BY <1>b, <1>l, <3>2, <4>1 DEF BufferInBounds
    <3> QED
      BY <1>2, <3>1, <3>2 DEF writeChar
  <2>6. CallInv'
    BY <1>2, <2>0, <2>3 DEF CallInv, writeChar, Return
  <2> QED
    BY <2>2, <2>4, <2>5, <2>6 DEF OutInv
<1>3. ASSUME NEW s \in Streams, flush \/ delete \/ setStream(s) PROVE OutInv'
  <2>0. /\ pc = "idle" /\ pend = <<>>
        /\ UNCHANGED <<out, got, buf, pend, next, home, dropped>>
    BY <1>3, <1>t DEF flush, delete, setStream, CallInv
  <2>t. \/ UNCHANGED <<rc, told>> /\ pc' \in {"attach", "dead", "flush"}
        \/ pc' = "idle" /\ rc' \in Int /\ told' \in BOOLEAN
    <3>1. told \in BOOLEAN /\ 0 \in Int
      BY <1>t DEF TypeOK
    <3>2. CASE Return(0)
      BY <3>1, <3>2, ReturnTypes
    <3> QED
      BY <1>3, <3>2 DEF flush, delete, setStream
  <2>1. TypeOK'
    BY <1>3, <1>t, <2>t DEF TypeOK, flush, delete, setStream, Calls
  <2>2. CallInv'
    BY <1>3, <2>0 DEF CallInv, flush, delete, setStream, Return
  <2>3. OrderInv' /\ BufferInBounds'
    BY <1>t, <2>0, SameOrder DEF BufferInBounds
  <2> QED
    BY <2>1, <2>2, <2>3 DEF OutInv
<1>4. CASE reset
  <2>0. UNCHANGED <<out, got, pend, next, home>> /\ buf' = <<>> /\ pend = <<>> /\ pc' = "idle"
    BY <1>4, <1>t DEF reset, CallInv
  <2>1. TypeOK'
    <3>1. buf \in Seq(Nat) /\ dropped \subseteq Nat
      BY <1>t DEF TypeOK
    <3>2. \A i \in 1..Len(buf) : buf[i] \in Nat
      BY <3>1
    <3>3. dropped' \subseteq Nat
      BY <1>4, <3>1, <3>2 DEF reset
    <3>4. UNCHANGED <<call, pc, target, rc, told>>
      BY <1>4 DEF reset
    <3> QED
      BY <1>t, <2>0, <3>3, <3>4 DEF TypeOK
  <2>2. CallInv' /\ BufferInBounds'
    BY <1>b, <2>0 DEF CallInv, BufferInBounds
  <2>3. \A st : Owned(st)' = Owned(st)
    BY <2>0 DEF Owned
  <2>4. OrderInv'
    BY <2>0, <2>3, EmptyClean DEF OutInv, OrderInv, Clean
  <2> QED
    BY <2>1, <2>2, <2>4 DEF OutInv
<1>5. CASE flushed
  <2>0. pc = "flush" /\ UNCHANGED <<out, call, target, next, home, dropped>>
    BY <1>5 DEF flushed
  <2>1. PICK r \in Outcome(Len(buf)) : flushed!2!(r)
    BY <1>5 DEF flushed
  <2>2. \/ buf' = <<>> /\ pend' = pend
        \/ buf' = <<>> /\ pend' = <<>>
        \/ buf' = <<>> \o pend /\ pend' = <<>>
    BY <2>1 DEF AfterFlush
  <2>3. got' = [got EXCEPT ![out] = @ \o Taken(buf, r)]
    BY <2>1
  <2>4. /\ OrderInv' /\ r \in Int
        /\ buf' \in Seq(Nat) /\ pend' \in Seq(Nat) /\ got' \in [Streams -> Seq(Nat)]
    BY <2>0, <2>2, <2>3, FlushOrder
  <2>5. TypeOK'
    <3>1. told \in BOOLEAN /\ 0 \in Int /\ r \in Int
      BY <1>t, <2>4 DEF TypeOK
    <3>2. \/ UNCHANGED <<rc, told>> /\ pc' \in {"attach", "dead", "loop"}
          \/ pc' = "idle" /\ rc' \in Int /\ told' \in BOOLEAN
      BY <2>1, <3>1, ReturnTypes
    <3> QED
      BY <1>t, <2>0, <2>4, <3>2 DEF TypeOK
  <2>6. BufferInBounds'
    <3>1. CASE buf' = <<>>
      BY <1>b, <3>1 DEF BufferInBounds
    <3>2. CASE call = "writeChar" /\ buf' = <<>> \o pend
      <4>1. Len(pend) = 1 /\ <<>> \o pend = pend
        BY <1>l, <1>t, <2>0, <3>2 DEF CallInv
      <4>2. buf' = pend
        BY <3>2, <4>1
      <4> QED
        BY <1>b, <4>1, <4>2 DEF BufferInBounds
    <3> QED
      BY <2>1, <3>1, <3>2 DEF AfterFlush
  <2>7. CallInv'
    BY <1>t, <2>0, <2>1 DEF CallInv, Return, AfterFlush
  <2> QED
    BY <2>4, <2>5, <2>6, <2>7 DEF OutInv
<1>6. CASE direct
  <2>0. /\ pc = "loop" /\ call = "write" /\ buf = <<>> /\ BufSize <= Len(pend)
        /\ UNCHANGED <<out, buf, call, target, next, home, dropped>>
    BY <1>6, <1>b, <1>l, <1>t DEF direct, CallInv
  <2>1. PICK r \in Outcome(BufSize) : direct!2!(r)
    BY <1>6 DEF direct
  <2>2. \A st : Owned(st)' = Owned(st)
    BY <2>0 DEF Owned
  <2>3. /\ out \in Streams /\ got \in [Streams -> Seq(Nat)]
        /\ got[out] \in Seq(Nat) /\ Increasing(got[out]) /\ AllIn(got[out], Owned(out))
        /\ Increasing(pend) /\ AllIn(pend, Owned(out)) /\ Below(got[out], pend)
    BY <1>t DEF OutInv, TypeOK, OrderInv, Clean
  <2> DEFINE g == got[out] \o Taken(pend, r)
             rest == SubSeq(pend, BufSize + 1, Len(pend))
  <2>4. r \in Int /\ g \in Seq(Nat) /\ Increasing(g) /\ AllIn(g, Owned(out))
    BY <1>b, <1>l, <2>0, <2>3, Received
  <2>5. /\ rest \in Seq(Nat) /\ Increasing(rest) /\ AllIn(rest, Owned(out))
        /\ Below(g, rest)
    BY <1>b, <1>l, <2>0, <2>3, RestClean
  <2>6. got' = [got EXCEPT ![out] = g]
    BY <2>1
  <2>7. pend' \in {<<>>, rest}
    BY <2>1
  <2> HIDE DEF g, rest
  <2>8. /\ got' \in [Streams -> Seq(Nat)] /\ got'[out] = g
        /\ \A st \in Streams : st # out => got'[st] = got[st]
    BY <2>3, <2>4, <2>6
  <2>9. \A st \in Streams : Clean(got[st], st)' 
    BY <2>2, <2>4, <2>8 DEF OutInv, OrderInv, Clean
  <2>10. Clean(pend, out)' /\ Below(g, pend')
    BY <2>0, <2>2, <2>5, <2>7, EmptyClean DEF Clean
  <2>11. OrderInv'
    BY <2>0, <2>2, <2>8, <2>9, <2>10, EmptyClean DEF OrderInv, Clean
  <2>12. TypeOK'
    <3>1. told \in BOOLEAN /\ -1 \in Int
      BY <1>t DEF TypeOK
    <3>2. \/ UNCHANGED <<pc, rc, told>>
          \/ pc' = "idle" /\ rc' \in Int /\ told' \in BOOLEAN
      BY <2>1, <3>1, ReturnTypes
    <3>3. pend' \in Seq(Nat)
      BY <2>10 DEF Clean
    <3> QED
      BY <1>t, <2>0, <2>8, <3>2, <3>3 DEF TypeOK
  <2>13. CallInv' /\ BufferInBounds'
    BY <1>t, <2>0, <2>1 DEF CallInv, BufferInBounds, Return
  <2> QED
    BY <2>11, <2>12, <2>13 DEF OutInv
<1>7. CASE store
  <2>0. /\ pc = "loop" /\ call = "write" /\ buf = <<>> /\ Len(pend) <= BufSize
        /\ UNCHANGED <<out, call, target, got, next, home, dropped>>
        /\ buf' = <<>> \o pend /\ pend' = <<>> /\ pc' = "idle"
    BY <1>7, <1>t DEF store, CallInv, Return
  <2>1. buf' = pend
    BY <1>l, <2>0
  <2>2. TypeOK' /\ BufferInBounds' /\ CallInv'
    BY <1>7, <1>t, <2>0, <2>1 DEF TypeOK, store, Return, BufferInBounds, CallInv
  <2>3. \A st : Owned(st)' = Owned(st)
    BY <2>0 DEF Owned
  <2>4. OrderInv'
    BY <2>0, <2>1, <2>3, EmptyClean DEF OutInv, OrderInv, Clean
  <2> QED
    BY <2>2, <2>4 DEF OutInv
<1>8. CASE attach
  <2>0. /\ out' = target /\ target \in Streams /\ buf = <<>> /\ pend = <<>>
        /\ UNCHANGED <<buf, pend, got, next, home>>
    BY <1>8, <1>t DEF attach, CallInv, TypeOK
  <2>1. TypeOK' /\ BufferInBounds' /\ CallInv'
    BY <1>8, <1>t, <2>0 DEF TypeOK, attach, BufferInBounds, CallInv
  <2>2. \A st : Owned(st)' = Owned(st)
    BY <2>0 DEF Owned
  <2>3. OrderInv'
    BY <2>0, <2>2, EmptyClean DEF OutInv, OrderInv, Clean
  <2> QED
    BY <2>1, <2>3 DEF OutInv
<1>9. CASE UNCHANGED vars
  <2>1. UNCHANGED <<out, got, buf, pend, next, home>>
    BY <1>9 DEF vars
  <2>2. OrderInv'
    BY <2>1, SameOrder
  <2>3. TypeOK' /\ BufferInBounds' /\ CallInv'
    BY <1>9, <1>t DEF vars, TypeOK, BufferInBounds, CallInv
  <2> QED
    BY <2>2, <2>3 DEF OutInv
<1>10. out \in Streams
  BY <1>t DEF TypeOK
<1> QED
  BY <1>1, <1>2, <1>3, <1>4, <1>5, <1>6, <1>7, <1>8, <1>9, <1>10 DEF Next

\* The invariant says what the properties say.
LEMMA OutInvMeans == OutInv => TypeOK /\ BufferInBounds /\ InOrder /\ RightStream
<1> SUFFICES ASSUME OutInv PROVE InOrder /\ RightStream
  BY DEF OutInv
<1>1. /\ out \in Streams
      /\ \A s \in Streams : Clean(got[s], s)
      /\ Clean(buf, out) /\ Clean(pend, out)
      /\ Below(got[out], buf) /\ Below(got[out], pend) /\ Below(buf, pend)
  BY DEF OutInv, TypeOK, OrderInv
<1>2. /\ got[out] \in Seq(Nat) /\ Increasing(got[out]) /\ AllIn(got[out], Owned(out))
      /\ buf \in Seq(Nat) /\ Increasing(buf) /\ AllIn(buf, Owned(out))
      /\ pend \in Seq(Nat) /\ Increasing(pend) /\ AllIn(pend, Owned(out))
  BY <1>1 DEF Clean
<1>3. /\ got[out] \o buf \in Seq(Nat) /\ Increasing(got[out] \o buf)
      /\ AllIn(got[out] \o buf, Owned(out))
  BY <1>1, <1>2, ConcatClean
<1>4. Below(got[out] \o buf, pend)
  BY <1>1, <1>2, ConcatBelow
<1>5. Increasing((got[out] \o buf) \o pend)
  BY <1>2, <1>3, <1>4, ConcatClean
<1>6. InOrder
  BY <1>1, <1>5 DEF InOrder, Clean
<1>7. RightStream
  BY <1>1 DEF RightStream, Clean, AllIn, Owned
<1> QED
  BY <1>6, <1>7

\* BufferedOutStream never writes past its buffer, whatever the blocks it is
\* given and the answers of the streams.
THEOREM NoOverrun == Spec => []BufferInBounds
BY OutInvInit, OutInvNext, OutInvMeans, PTL DEF Spec

\* No byte is repeated or moved past another one, even after a failure or a
\* partial write of the stream.
THEOREM OrderKept == Spec => []InOrder
BY OutInvInit, OutInvNext, OutInvMeans, PTL DEF Spec

\* No byte reaches another stream than the one it was written for.
THEOREM StreamKept == Spec => []RightStream
BY OutInvInit, OutInvNext, OutInvMeans, PTL DEF Spec

-----------------------------------------------------------------------------
(* No byte is lost over streams that take what they are given.              *)

\* Byte b is in a stream, in the buffer, in the block that is written, or was
\* removed by reset().
Placed(b) ==
    \/ \E s \in Streams : b \in Range1(got[s])
    \/ b \in Range1(buf) \/ b \in Range1(pend) \/ b \in dropped

PlacedInv == \A b \in 1..next : Placed(b)

LEMMA ConcatRange ==
    ASSUME NEW s \in Seq(Nat), NEW t \in Seq(Nat)
    PROVE  Range1(s \o t) = Range1(s) \union Range1(t)
<1>1. /\ Len(s \o t) = Len(s) + Len(t) /\ Len(s) \in Nat /\ Len(t) \in Nat
      /\ \A i \in 1..(Len(s) + Len(t)) :
            (s \o t)[i] = IF i <= Len(s) THEN s[i] ELSE t[i - Len(s)]
  OBVIOUS
<1>2. ASSUME NEW b \in Range1(s \o t) PROVE b \in Range1(s) \union Range1(t)
  <2>1. PICK i \in 1..(Len(s) + Len(t)) : (s \o t)[i] = b
    BY <1>1, <1>2 DEF Range1
  <2>2. CASE i <= Len(s)
    BY <1>1, <2>1, <2>2 DEF Range1
  <2>3. CASE ~(i <= Len(s))
    <3>1. i - Len(s) \in 1..Len(t) /\ t[i - Len(s)] = b
      BY <1>1, <2>1, <2>3
    <3> QED
      BY <3>1 DEF Range1
  <2> QED
    BY <2>2, <2>3
<1>3. ASSUME NEW b \in Range1(s) PROVE b \in Range1(s \o t)
  <2>1. PICK i \in 1..Len(s) : s[i] = b
    BY <1>3 DEF Range1
  <2>2. i \in 1..(Len(s) + Len(t)) /\ (s \o t)[i] = b
    BY <1>1, <2>1
  <2> QED
    BY <1>1, <2>2 DEF Range1
<1>4. ASSUME NEW b \in Range1(t) PROVE b \in Range1(s \o t)
  <2>1. PICK i \in 1..Len(t) : t[i] = b
    BY <1>4 DEF Range1
  <2>2. Len(s) + i \in 1..(Len(s) + Len(t)) /\ (s \o t)[Len(s) + i] = b
    BY <1>1, <2>1
  <2> QED
    BY <1>1, <2>2 DEF Range1
<1> QED
  BY <1>2, <1>3, <1>4

LEMMA PieceIs ==
    ASSUME NEW s \in Seq(Nat), NEW a \in Nat \ {0}, NEW n \in Nat, n <= Len(s), a <= n
    PROVE  /\ Len(SubSeq(s, a, n)) = n - a + 1
           /\ \A j \in 1..Len(SubSeq(s, a, n)) : SubSeq(s, a, n)[j] = s[j + a - 1]
<1>1. Len(SubSeq(s, a, n)) = n - a + 1
  OBVIOUS
<1> QED
  BY <1>1

\* Cutting a sequence in two keeps all its bytes.
LEMMA CutRange ==
    ASSUME NEW s \in Seq(Nat), NEW k \in 0..Len(s), NEW b \in Range1(s)
    PROVE  b \in Range1(SubSeq(s, 1, k)) \/ b \in Range1(SubSeq(s, k + 1, Len(s)))
<1>1. PICK i \in 1..Len(s) : s[i] = b
  BY DEF Range1
<1>2. CASE i <= k
  <2>1. Len(SubSeq(s, 1, k)) = k /\ SubSeq(s, 1, k)[i] = s[i]
    BY <1>2
  <2> QED
    BY <1>1, <1>2, <2>1 DEF Range1
<1>3. CASE i > k
  <2> DEFINE r == SubSeq(s, k + 1, Len(s))
  <2>1. k + 1 \in Nat \ {0} /\ Len(s) \in Nat /\ k + 1 <= Len(s)
    BY <1>3
  <2>2. Len(r) = Len(s) - (k + 1) + 1 /\ \A j \in 1..Len(r) : r[j] = s[j + (k + 1) - 1]
    BY <2>1, PieceIs
  <2> HIDE DEF r
  <2>3. i - k \in 1..Len(r) /\ (i - k) + (k + 1) - 1 = i
    BY <1>3, <2>1, <2>2
  <2>4. r[i - k] = b
    BY <1>1, <2>2, <2>3
  <2> QED
    BY <2>3, <2>4 DEF Range1, r
<1> QED
  BY <1>2, <1>3

\* The bytes of a call, in a sequence of their own.
LEMMA BytesRange ==
    ASSUME next \in Nat, NEW n \in Nat
    PROVE  /\ Bytes(n) \in Seq(Nat)
           /\ \A b \in (next + 1)..(next + n) : b \in Range1(Bytes(n))
<1>1. Bytes(n) \in Seq(Nat) /\ Len(Bytes(n)) = n
  BY DEF Bytes
<1>2. ASSUME NEW b \in (next + 1)..(next + n) PROVE b \in Range1(Bytes(n))
  <2>1. b - next \in 1..n /\ Bytes(n)[b - next] = b
    BY <1>2 DEF Bytes
  <2> QED
    BY <1>1, <2>1 DEF Range1
<1> QED
  BY <1>1, <1>2

\* A stream that takes what it is given takes it all.
LEMMA TakenAll ==
    ASSUME ~MayFail, ~MayBeShort, NEW n \in Nat, NEW r \in Outcome(n)
    PROVE  r = n
BY DEF Outcome

LEMMA PlacedNext ==
    ASSUME ~MayFail, ~MayBeShort, OutInv, PlacedInv, [Next]_vars PROVE PlacedInv'
<1>t. /\ buf \in Seq(Nat) /\ pend \in Seq(Nat) /\ next \in Nat /\ out \in Streams
      /\ got \in [Streams -> Seq(Nat)]
  BY DEF OutInv, TypeOK
<1>c. CallInv
  BY DEF OutInv
<1>e. Range1(<<>>) = {}
  BY DEF Range1
\* A byte placed in a stream stays there.
<1>1. ASSUME UNCHANGED <<got, next, dropped>>,
             \A b : b \in Range1(buf) \union Range1(pend)
                      => b \in Range1(buf') \union Range1(pend')
      PROVE  PlacedInv'
  BY <1>1 DEF PlacedInv, Placed
<1>2. ASSUME NEW n \in Nat, next' = next + n, UNCHANGED <<got, dropped>>, pc = "idle",
             \/ buf' = buf \o Bytes(n) /\ UNCHANGED pend
             \/ pend' = Bytes(n) /\ UNCHANGED buf
      PROVE  PlacedInv'
  <2>1. Range1(pend) = {}
    BY <1>2, <1>c, <1>e DEF CallInv
  <2>2. /\ Range1(buf) \subseteq Range1(buf')
        /\ Range1(Bytes(n)) \subseteq Range1(buf') \union Range1(pend')
    BY <1>2, <1>t, BytesRange, ConcatRange
  <2>3. \A b \in 1..next : Placed(b)'
    BY <1>2, <2>1, <2>2 DEF PlacedInv, Placed
  <2>4. \A b \in (next + 1)..(next + n) : Placed(b)'
    BY <1>2, <1>t, <2>2, BytesRange DEF Placed
  <2> QED
    BY <1>2, <1>t, <2>3, <2>4 DEF PlacedInv
\* The bytes of x go to the stream, the others stay where they were.
<1>3. ASSUME NEW x \in Seq(Nat), got' = [got EXCEPT ![out] = @ \o x],
             UNCHANGED <<next, dropped>>,
             \A b : b \in Range1(buf) \union Range1(pend)
                      => b \in Range1(x) \union Range1(buf') \union Range1(pend')
      PROVE  PlacedInv'
  <2>1. Range1(got'[out]) = Range1(got[out]) \union Range1(x)
    BY <1>3, <1>t, ConcatRange
  <2>2. \A s \in Streams : Range1(got[s]) \subseteq Range1(got'[s])
    BY <1>3, <1>t, <2>1
  <2> QED
    BY <1>3, <1>t, <2>1, <2>2 DEF PlacedInv, Placed
<1>4. ASSUME NEW n \in Sizes, write(n) PROVE PlacedInv'
  BY <1>4, <1>2, SizeAssumption DEF write, Given
<1>5. CASE writeChar
  BY <1>5, <1>2 DEF writeChar, Given
<1>6. CASE flush \/ delete \/ (\E s \in Streams : setStream(s)) \/ attach
  BY <1>6, <1>1 DEF flush, delete, setStream, attach
<1>7. CASE reset
  BY <1>7 DEF reset, PlacedInv, Placed, Range1
<1>8. CASE flushed
  <2>1. PICK r \in Outcome(Len(buf)) : got' = [got EXCEPT ![out] = @ \o Taken(buf, r)]
    BY <1>8 DEF flushed
  <2>2. Len(buf) \in Nat /\ r = Len(buf)
    BY <1>t, <2>1, TakenAll
  <2>3. Taken(buf, r) = buf
    BY <1>t, <2>2 DEF Taken
  <2>4. Range1(pend) \subseteq Range1(buf') \union Range1(pend')
    <3>1. CASE UNCHANGED pend
      BY <3>1
    <3>2. CASE call = "writeChar" /\ buf' = <<>> \o pend
      BY <1>t, <3>2
    <3> QED
      BY <1>8, <3>1, <3>2, <2>2, TakenAll DEF flushed, AfterFlush
  <2> QED
    BY <1>8, <1>t, <1>3, <2>1, <2>3, <2>4 DEF flushed
<1>9. CASE direct
  <2>0. BufSize \in Nat /\ BufSize \in 0..Len(pend)
    BY <1>9, <1>t, SizeAssumption DEF direct
  <2>1. PICK r \in Outcome(BufSize) :
          /\ got' = [got EXCEPT ![out] = @ \o Taken(pend, r)]
          /\ ~(r < 0) => pend' = SubSeq(pend, BufSize + 1, Len(pend))
    BY <1>9 DEF direct
  <2>2. r = BufSize /\ ~(r < 0)
    BY <2>0, <2>1, TakenAll
  <2>3. Taken(pend, r) = SubSeq(pend, 1, BufSize) /\ SubSeq(pend, 1, BufSize) \in Seq(Nat)
    BY <1>t, <2>0, <2>2 DEF Taken
  <2>4. pend' = SubSeq(pend, BufSize + 1, Len(pend))
    BY <2>1, <2>2
  <2>5. \A b : b \in Range1(pend)
                 => b \in Range1(Taken(pend, r)) \union Range1(pend')
    BY <1>t, <2>0, <2>3, <2>4, CutRange
  <2> QED
    BY <1>9, <1>3, <2>1, <2>3, <2>5 DEF direct
<1>10. CASE store
  <2>1. Range1(buf') = Range1(buf) \union Range1(pend)
    BY <1>10, <1>t, ConcatRange DEF store
  <2> QED
    BY <1>10, <1>1, <2>1 DEF store
<1>11. CASE UNCHANGED vars
  BY <1>11, <1>1 DEF vars
<1> QED
  BY <1>4, <1>5, <1>6, <1>7, <1>8, <1>9, <1>10, <1>11 DEF Next

\* Over streams that take what they are given no byte is lost, whatever the
\* size of the buffer and of the blocks: each one is in a stream, in the
\* buffer or in the block being written unless reset() removed it, and the
\* destructor leaves none in the buffer.
THEOREM NoByteLost ==
    ASSUME ~MayFail, ~MayBeShort PROVE Spec => []NothingLost
<1>1. Init => PlacedInv
  BY DEF Init, PlacedInv
<1>2. OutInv /\ PlacedInv /\ [Next]_vars => OutInv' /\ PlacedInv'
  BY OutInvNext, PlacedNext
<1>3. OutInv /\ PlacedInv => NothingLost
  <2> SUFFICES ASSUME OutInv, PlacedInv PROVE NothingLost
    OBVIOUS
  <2>1. ASSUME NEW b \in 1..next, b \in Lost PROVE FALSE
    <3> DEFINE All == {Range1(got[s]) : s \in Streams}
    <3>1. \A s \in Streams : Range1(got[s]) \in All
      OBVIOUS
    <3>2. /\ b \notin UNION All /\ b \notin Range1(buf) /\ b \notin Range1(pend)
          /\ b \notin dropped
      BY <2>1 DEF Lost
    <3> HIDE DEF All
    <3>3. \A s \in Streams : b \notin Range1(got[s])
      BY <3>1, <3>2
    <3> QED
      BY <2>1, <3>2, <3>3 DEF PlacedInv, Placed
  <2>2. Lost = {}
    BY <2>1 DEF Lost
  <2> QED
    BY <2>2 DEF NothingLost, OutInv, CallInv
<1> QED
  BY OutInvInit, <1>1, <1>2, <1>3, PTL DEF Spec

-----------------------------------------------------------------------------
(* The buffered input stream, the pipe and the tee.  EveryByteOnce says       *)
(* nothing of which bytes the buffer holds, and PipeCopies nothing of the    *)
(* block between the two writes of the tee: the invariant says both.  The    *)
(* streams, the sizes and what may happen are those of any instance.         *)

CONSTANTS Length, PipeSize, SinksMayFail

VARIABLES in, pos, dpos, seen, block, skipped,
          sink, size, base, pres, pstate, tstate

Pipe == INSTANCE StreamPipe

\* The number of bytes of stream s that were read by the program or dropped.
Passed(s) == IF s = in THEN dpos[s] - (Len(buf) - pos) ELSE dpos[s]

\* The buffer holds the last bytes taken from the stream.
BufferInv ==
    /\ Len(buf) <= dpos[in]
    /\ \A i \in 1..Len(buf) : buf[i] = dpos[in] - Len(buf) + i

SeenInv ==
    \A s \in Streams : /\ Increasing(seen[s])
                       /\ Pipe!BytesOf(seen[s]) \union skipped[s] = 1..Passed(s)

InInv == Pipe!InTypeOK /\ BufferInv /\ SeenInv

\* The bytes the input stream has given.
GivenBytes == UNION {Pipe!BytesOf(seen[s]) : s \in Streams}

\* A read forgets nothing, and the bytes of its block are among those read.
Reads ==
    /\ \A s \in Streams : Pipe!BytesOf(seen[s]) \subseteq Pipe!BytesOf(seen[s])'
    /\ Pipe!BytesOf(block)' \subseteq Pipe!BytesOf(seen[in])'

PipeInv ==
    /\ pc \in {"idle", "read", "out1", "out2"}
    /\ sink \in [1..2 -> Seq(Nat)] /\ size \in Nat /\ base \in Nat
    /\ pres \in Int
    /\ pstate \in {"OK", "IN_ERROR", "OUT_ERROR"} /\ tstate \in 0..2
    /\ pc # "idle" => Len(sink[2]) - base = size

\* Between the two writes the first stream is one block ahead.
CopyInv ==
    /\ Pipe!BytesOf(sink[2]) \subseteq Pipe!BytesOf(sink[1])
    /\ Pipe!BytesOf(sink[1]) \subseteq GivenBytes
    /\ pc \in {"out1", "out2"} => Pipe!BytesOf(block) \subseteq GivenBytes
    /\ pc = "out2" => Pipe!BytesOf(block) \subseteq Pipe!BytesOf(sink[1])
    /\ tstate = 0 => sink[1] = IF pc = "out2" THEN sink[2] \o block ELSE sink[2]

\* The bytes of a concatenation.
LEMMA BytesOfConcat ==
  ASSUME NEW q \in Seq(Nat), NEW t \in Seq(Nat)
  PROVE  /\ q \o t \in Seq(Nat) /\ Len(q \o t) = Len(q) + Len(t)
         /\ Pipe!BytesOf(q \o t) = Pipe!BytesOf(q) \union Pipe!BytesOf(t)
<1>1. q \o t \in Seq(Nat) /\ Len(q \o t) = Len(q) + Len(t)
  OBVIOUS
<1>2. \A i \in 1..Len(q) : (q \o t)[i] = q[i] /\ i \in 1..Len(q \o t)
  BY <1>1
<1>3. \A i \in 1..Len(t) : (q \o t)[Len(q) + i] = t[i] /\ Len(q) + i \in 1..Len(q \o t)
  BY <1>1
<1>4. \A i \in 1..Len(q \o t) :
        \/ i \in 1..Len(q)
        \/ i - Len(q) \in 1..Len(t) /\ i = Len(q) + (i - Len(q))
  BY <1>1
<1>5. Pipe!BytesOf(q) \subseteq Pipe!BytesOf(q \o t)
  BY <1>2 DEF Pipe!BytesOf
<1>6. Pipe!BytesOf(t) \subseteq Pipe!BytesOf(q \o t)
  BY <1>3 DEF Pipe!BytesOf
<1>7. Pipe!BytesOf(q \o t) \subseteq Pipe!BytesOf(q) \union Pipe!BytesOf(t)
  <2>1. ASSUME NEW i \in 1..Len(q \o t) PROVE (q \o t)[i] \in Pipe!BytesOf(q) \union Pipe!BytesOf(t)
    <3>1. CASE i \in 1..Len(q)
      BY <1>2, <3>1 DEF Pipe!BytesOf
    <3>2. CASE i - Len(q) \in 1..Len(t) /\ i = Len(q) + (i - Len(q))
      BY <1>3, <3>2 DEF Pipe!BytesOf
    <3>. QED
      BY <1>4, <3>1, <3>2
  <2>. QED
    BY <2>1 DEF Pipe!BytesOf
<1>. QED
  BY <1>1, <1>5, <1>6, <1>7

\* Reading the bytes that follow position p keeps the order and extends the
\* range.
LEMMA Continues ==
  ASSUME NEW q \in Seq(Nat), NEW t \in Seq(Nat), NEW p \in Nat,
         Increasing(q), Pipe!BytesOf(q) \subseteq 1..p,
         \A i \in 1..Len(t) : t[i] = p + i
  PROVE  /\ Increasing(q \o t)
         /\ Pipe!BytesOf(q \o t) = Pipe!BytesOf(q) \union (p + 1 .. p + Len(t))
<1>1. \A i \in 1..Len(q) : q[i] \in 1..p
  BY DEF Pipe!BytesOf
<1>2. Pipe!BytesOf(t) = p + 1 .. p + Len(t)
  <2>1. \A x \in p + 1 .. p + Len(t) : x - p \in 1..Len(t) /\ x = t[x - p]
    OBVIOUS
  <2>2. \A i \in 1..Len(t) : t[i] \in p + 1 .. p + Len(t)
    OBVIOUS
  <2>. QED
    BY <2>1, <2>2 DEF Pipe!BytesOf
<1>3. ASSUME NEW i \in 1..Len(q \o t), NEW j \in 1..Len(q \o t), i < j
      PROVE  (q \o t)[i] < (q \o t)[j]
  <2>1. CASE j <= Len(q)
    BY <1>3, <2>1 DEF Increasing
  <2>2. CASE i <= Len(q) /\ Len(q) < j
    <3>1. (q \o t)[i] = q[i] /\ (q \o t)[j] = t[j - Len(q)] /\ j - Len(q) \in 1..Len(t)
      BY <2>2
    <3>2. t[j - Len(q)] = p + (j - Len(q)) /\ q[i] \in 1..p /\ Len(q) \in Nat
      BY <1>1, <2>2, <3>1
    <3>. QED
      BY <3>1, <3>2
  <2>3. CASE Len(q) < i
    <3>1. /\ (q \o t)[i] = t[i - Len(q)] /\ (q \o t)[j] = t[j - Len(q)]
          /\ i - Len(q) \in 1..Len(t) /\ j - Len(q) \in 1..Len(t)
      BY <1>3, <2>3
    <3>2. /\ t[i - Len(q)] = p + (i - Len(q)) /\ t[j - Len(q)] = p + (j - Len(q))
          /\ Len(q) \in Nat
      BY <3>1
    <3>. QED
      BY <1>3, <3>1, <3>2
  <2>. QED
    BY <1>3, <2>1, <2>2, <2>3
<1>. QED
  BY <1>2, <1>3, BytesOfConcat DEF Increasing

\* A transfer from a buffer that is, or has just been, filled up to position d
\* of the stream: both cases of read(buffer, size) and of read().
LEMMA GiveKeeps ==
  ASSUME Pipe!InParameters, InInv, NEW b \in Seq(Nat), NEW p \in 0..Len(b), NEW t \in Seq(Nat),
         NEW d \in 0..Length, NEW result \in Int,
         Pipe!Give(b, p, t, result), dpos' = [dpos EXCEPT ![in] = d],
         UNCHANGED <<in, skipped>>,
         Len(b) <= BufSize, Len(b) <= d,
         \A i \in 1..Len(b) : b[i] = d - Len(b) + i,
         p + Len(t) <= Len(b), \A i \in 1..Len(t) : t[i] = b[p + i],
         d - (Len(b) - p) = Passed(in)
  PROVE  InInv' /\ block' = t /\ seen' = [seen EXCEPT ![in] = @ \o t]
<1>. DEFINE had == Passed(in)
<1>0. /\ seen' = [seen EXCEPT ![in] = @ \o t] /\ buf' = b /\ pos' = p + Len(t) /\ block' = t
      /\ rc' = result /\ in' = in /\ skipped' = skipped /\ in \in Streams
  BY DEF Pipe!Give, InInv, Pipe!InTypeOK
<1>1. seen[in] \in Seq(Nat) /\ Len(t) \in Nat /\ Len(b) \in Nat /\ d \in Nat /\ p \in Nat
  BY DEF Pipe!InParameters, InInv, Pipe!InTypeOK
<1>2. seen[in] \o t \in Seq(Nat)
  BY <1>1
<1>3. Pipe!InTypeOK'
  BY <1>0, <1>1, <1>2 DEF InInv, Pipe!InTypeOK
<1>4. BufferInv'
  BY <1>0, <1>1 DEF BufferInv, InInv, Pipe!InTypeOK
<1>5. had \in Nat /\ \A i \in 1..Len(t) : t[i] = had + i
  <2>1. had = d - (Len(b) - p) /\ had \in Nat
    BY <1>1
  <2>2. ASSUME NEW i \in 1..Len(t) PROVE t[i] = had + i
    <3>1. p + i \in 1..Len(b)
      BY <1>1
    <3>2. t[i] = d - Len(b) + (p + i)
      BY <3>1
    <3>. QED
      BY <1>1, <2>1, <3>2
  <2>. QED
    BY <2>1, <2>2
<1>6. Pipe!BytesOf(seen[in]) \subseteq 1..had /\ Increasing(seen[in])
  BY <1>0 DEF InInv, SeenInv
<1>. HIDE DEF had
<1>7. /\ Increasing(seen[in] \o t)
      /\ Pipe!BytesOf(seen[in] \o t) = Pipe!BytesOf(seen[in]) \union (had + 1 .. had + Len(t))
  <2>1. ASSUME NEW q \in Seq(Nat), NEW n \in Nat, Increasing(q), Pipe!BytesOf(q) \subseteq 1..n,
               \A i \in 1..Len(t) : t[i] = n + i
        PROVE  Increasing(q \o t) /\ Pipe!BytesOf(q \o t) = Pipe!BytesOf(q) \union (n + 1 .. n + Len(t))
    BY <2>1, Continues
  <2>. QED
    BY <1>1, <1>5, <1>6, <2>1
<1>8. ASSUME NEW s \in Streams
      PROVE  Increasing(seen'[s]) /\ Pipe!BytesOf(seen'[s]) \union skipped'[s] = 1..Passed(s)'
  <2>1. CASE s = in
    <3>1. seen'[s] = seen[in] \o t /\ skipped'[s] = skipped[in] /\ dpos'[s] = d
      BY <1>0, <2>1 DEF InInv, Pipe!InTypeOK
    <3>2. Passed(s)' = had + Len(t)
      BY <1>0, <1>1, <2>1, <3>1 DEF Passed, had
    <3>3. Pipe!BytesOf(seen[in]) \union skipped[in] = 1..had
      BY <1>0 DEF InInv, SeenInv, had
    <3>4. 1..(had + Len(t)) = (1..had) \union (had + 1 .. had + Len(t))
      BY <1>1, <1>5
    <3>. QED
      BY <1>7, <3>1, <3>2, <3>3, <3>4
  <2>2. CASE s # in
    <3>1. seen'[s] = seen[s] /\ skipped'[s] = skipped[s] /\ Passed(s)' = Passed(s)
      BY <1>0, <2>2 DEF Passed, InInv, Pipe!InTypeOK
    <3>. QED
      BY <3>1 DEF InInv, SeenInv
  <2>. QED
    BY <2>1, <2>2
<1>9. SeenInv'
  BY <1>0, <1>8 DEF SeenInv
<1>. QED
  BY <1>0, <1>3, <1>4, <1>9 DEF InInv

\* What refill() leaves when the buffer is exhausted.
LEMMA RefillIs ==
  ASSUME Pipe!InParameters, InInv, NEW r \in Pipe!Outcome(BufSize), pos >= Len(buf)
  PROVE  /\ r \in Int /\ r <= BufSize /\ Passed(in) = dpos[in] /\ dpos[in] \in Nat
         /\ r > 0 => /\ r \in Nat /\ dpos[in] + r \in 0..Length
                     /\ Pipe!Refilled(r) \in Seq(Nat) /\ Len(Pipe!Refilled(r)) = r
                     /\ \A i \in 1..r : Pipe!Refilled(r)[i] = dpos[in] + i
<1>0. /\ in \in Streams /\ dpos[in] \in Nat /\ dpos[in] <= Length /\ Length \in Nat
      /\ BufSize \in Nat \ {0} /\ pos = Len(buf) /\ Len(buf) \in Nat
  BY DEF Pipe!InParameters, InInv, Pipe!InTypeOK
<1>1. r \in Int /\ r <= BufSize /\ (r > 0 => dpos[in] + r <= Length)
  <2>. DEFINE most == Pipe!Lower(BufSize, Length - dpos[in])
  <2>1. most \in Nat /\ most <= BufSize /\ most <= Length - dpos[in]
    BY <1>0 DEF Pipe!Lower
  <2>2. r = most \/ r \in 1..most \/ r = -1
    BY DEF Pipe!Outcome
  <2>. HIDE DEF most
  <2>. QED
    BY <1>0, <2>1, <2>2
<1>2. Passed(in) = dpos[in]
  BY <1>0 DEF Passed
<1>3. ASSUME r > 0
      PROVE  /\ r \in Nat /\ Pipe!Refilled(r) \in Seq(Nat) /\ Len(Pipe!Refilled(r)) = r
             /\ \A i \in 1..r : Pipe!Refilled(r)[i] = dpos[in] + i
  BY <1>0, <1>1, <1>3 DEF Pipe!Refilled
<1>. QED
  BY <1>0, <1>1, <1>2, <1>3

\* The transfer is a piece of the buffer, and does not run past its end.
LEMMA TransferIs ==
  ASSUME NEW b \in Seq(Nat), NEW p \in 0..Len(b), NEW n \in Nat
  PROVE  /\ Pipe!Transfer(b, p, n) \in Seq(Nat)
         /\ p + Len(Pipe!Transfer(b, p, n)) <= Len(b)
         /\ \A i \in 1..Len(Pipe!Transfer(b, p, n)) : Pipe!Transfer(b, p, n)[i] = b[p + i]
<1>. DEFINE last == Pipe!Lower(p + n, Len(b))
<1>1. last \in Nat /\ p <= last /\ last <= Len(b) /\ Len(b) \in Nat
  BY DEF Pipe!Lower
<1>. HIDE DEF last
<1>2. \A i \in p + 1 .. last : b[i] \in Nat
  BY <1>1
<1>3. /\ SubSeq(b, p + 1, last) \in Seq(Nat) /\ Len(SubSeq(b, p + 1, last)) = last - p
      /\ \A i \in 1..last - p : SubSeq(b, p + 1, last)[i] = b[p + i]
  BY <1>1, <1>2
<1>4. Pipe!Transfer(b, p, n) = SubSeq(b, p + 1, last)
  BY DEF Pipe!Transfer, last
<1>. QED
  BY <1>1, <1>3, <1>4

\* A transfer is a read in this sense.
LEMMA GiveReads ==
  ASSUME Pipe!InTypeOK, NEW t \in Seq(Nat), block' = t, in' = in,
         seen' = [seen EXCEPT ![in] = @ \o t]
  PROVE  Reads
<1>1. in \in Streams /\ seen \in [Streams -> Seq(Nat)] /\ seen[in] \in Seq(Nat)
  BY DEF Pipe!InTypeOK
<1>2. Pipe!BytesOf(seen[in] \o t) = Pipe!BytesOf(seen[in]) \union Pipe!BytesOf(t)
  BY <1>1, BytesOfConcat
<1>3. seen'[in] = seen[in] \o t /\ \A s \in Streams \ {in} : seen'[s] = seen[s]
  BY <1>1
<1>4. Pipe!BytesOf(seen[in])' = Pipe!BytesOf(seen'[in']) /\ Pipe!BytesOf(block)' = Pipe!BytesOf(block')
      /\ \A s \in Streams : Pipe!BytesOf(seen[s])' = Pipe!BytesOf(seen'[s])
  BY DEF Pipe!BytesOf
<1>. QED
  BY <1>1, <1>2, <1>3, <1>4 DEF Reads

\* So is a call that meets an error or the end of the stream.
LEMMA IdleReads ==
  ASSUME InInv, block' = <<>>, rc' \in Int, UNCHANGED <<in, buf, pos, dpos, seen, skipped>>
  PROVE  InInv' /\ Reads
<1>1. InInv'
  BY DEF InInv, Pipe!InTypeOK, BufferInv, SeenInv, Passed
<1>2. Pipe!BytesOf(block)' = {}
  BY DEF Pipe!BytesOf
<1>. QED
  BY <1>1, <1>2 DEF Reads, Pipe!BytesOf

\* read(buffer, size) keeps the invariant, whatever the stream answers.
LEMMA ReadKeeps ==
  ASSUME Pipe!InParameters, InInv, NEW n \in Nat, Pipe!read(n)
  PROVE  InInv' /\ Reads
<1>0. /\ UNCHANGED <<in, skipped>> /\ in \in Streams /\ buf \in Seq(Nat) /\ pos \in 0..Len(buf)
      /\ dpos \in [Streams -> 0..Length] /\ Len(buf) <= BufSize
      /\ Pipe!InTypeOK
  BY DEF Pipe!read, InInv, Pipe!InTypeOK
<1>1. ASSUME ~Pipe!MustRefill(n), Pipe!Give(buf, pos, Pipe!Transfer(buf, pos, n), Len(Pipe!Transfer(buf, pos, n))),
             UNCHANGED dpos
      PROVE  InInv' /\ Reads
  <2>. DEFINE t == Pipe!Transfer(buf, pos, n)
  <2>1. /\ t \in Seq(Nat) /\ pos + Len(t) <= Len(buf)
        /\ \A i \in 1..Len(t) : t[i] = buf[pos + i]
    BY <1>0, TransferIs
  <2>2. /\ dpos' = [dpos EXCEPT ![in] = dpos[in]] /\ dpos[in] \in 0..Length
        /\ Len(t) \in Int
    BY <1>0, <1>1, <2>1
  <2>3. /\ Len(buf) <= dpos[in]
        /\ \A i \in 1..Len(buf) : buf[i] = dpos[in] - Len(buf) + i
        /\ dpos[in] - (Len(buf) - pos) = Passed(in)
    BY <1>0 DEF InInv, BufferInv, Passed
  <2>4. Pipe!Give(buf, pos, t, Len(t))
    BY <1>1
  <2>. HIDE DEF t
  <2>5. InInv' /\ block' = t /\ seen' = [seen EXCEPT ![in] = @ \o t]
    BY <1>0, <2>1, <2>2, <2>3, <2>4, GiveKeeps
  <2>. QED
    BY <1>0, <2>1, <2>5, GiveReads
<1>2. ASSUME NEW r \in Pipe!Outcome(BufSize), Pipe!MustRefill(n), r <= 0, block' = <<>>, rc' = r,
             UNCHANGED <<buf, pos, dpos, seen>>
      PROVE  InInv' /\ Reads
  <2>1. r \in Int
    BY <1>2, RefillIs DEF Pipe!MustRefill
  <2>. QED
    BY <1>0, <1>2, <2>1, IdleReads
<1>3. ASSUME NEW r \in Pipe!Outcome(BufSize), Pipe!MustRefill(n), r > 0,
             Pipe!Give(Pipe!Refilled(r), 0, Pipe!Transfer(Pipe!Refilled(r), 0, n), Len(Pipe!Transfer(Pipe!Refilled(r), 0, n))),
             dpos' = [dpos EXCEPT ![in] = @ + r]
      PROVE  InInv' /\ Reads
  <2>. DEFINE b == Pipe!Refilled(r)
              t == Pipe!Transfer(b, 0, n)
  <2>1. /\ r \in Nat /\ r <= BufSize /\ Passed(in) = dpos[in] /\ dpos[in] \in Nat
        /\ dpos[in] + r \in 0..Length /\ b \in Seq(Nat) /\ Len(b) = r
        /\ \A i \in 1..r : b[i] = dpos[in] + i
    BY <1>3, RefillIs DEF Pipe!MustRefill
  <2>. HIDE DEF b
  <2>2. /\ t \in Seq(Nat) /\ 0 + Len(t) <= Len(b)
        /\ \A i \in 1..Len(t) : t[i] = b[0 + i]
    BY <2>1, TransferIs
  <2>3. Pipe!Give(b, 0, t, Len(t))
    BY <1>3 DEF b
  <2>. HIDE DEF t
  <2>. DEFINE d == dpos[in] + r
  <2>4. /\ d \in 0..Length /\ dpos' = [dpos EXCEPT ![in] = d] /\ Len(b) <= d
        /\ d - (Len(b) - 0) = Passed(in) /\ 0 \in 0..Len(b) /\ Len(t) \in Int
        /\ \A i \in 1..Len(b) : b[i] = d - Len(b) + i
    BY <1>0, <1>3, <2>1, <2>2
  <2>. HIDE DEF d
  <2>5. InInv' /\ block' = t /\ seen' = [seen EXCEPT ![in] = @ \o t]
    BY <1>0, <2>1, <2>2, <2>3, <2>4, GiveKeeps
  <2>. QED
    BY <1>0, <2>2, <2>5, GiveReads
<1>. QED
  BY <1>1, <1>2, <1>3 DEF Pipe!read

\* So does read().
LEMMA ReadCharKeeps ==
  ASSUME Pipe!InParameters, InInv, Pipe!readChar
  PROVE  InInv' /\ Reads
<1>0. /\ UNCHANGED <<in, skipped>> /\ in \in Streams /\ buf \in Seq(Nat) /\ pos \in 0..Len(buf)
      /\ dpos \in [Streams -> 0..Length] /\ Len(buf) <= BufSize
      /\ Pipe!InTypeOK
  BY DEF Pipe!readChar, InInv, Pipe!InTypeOK
<1>1. ASSUME ~Pipe!MustRefill(1), Pipe!Give(buf, pos, <<buf[pos + 1]>>, buf[pos + 1]), UNCHANGED dpos
      PROVE  InInv' /\ Reads
  <2>. DEFINE t == <<buf[pos + 1]>>
  <2>0. pos + 1 \in 1..Len(buf) /\ buf[pos + 1] \in Nat
    BY <1>0, <1>1 DEF Pipe!MustRefill
  <2>1. /\ t \in Seq(Nat) /\ pos + Len(t) <= Len(buf)
        /\ \A i \in 1..Len(t) : t[i] = buf[pos + i]
    BY <1>0, <2>0
  <2>2. /\ dpos' = [dpos EXCEPT ![in] = dpos[in]] /\ dpos[in] \in 0..Length
        /\ buf[pos + 1] \in Int
    BY <1>0, <1>1, <2>0
  <2>3. /\ Len(buf) <= dpos[in]
        /\ \A i \in 1..Len(buf) : buf[i] = dpos[in] - Len(buf) + i
        /\ dpos[in] - (Len(buf) - pos) = Passed(in)
    BY <1>0 DEF InInv, BufferInv, Passed
  <2>4. Pipe!Give(buf, pos, t, buf[pos + 1])
    BY <1>1
  <2>. HIDE DEF t
  <2>5. InInv' /\ block' = t /\ seen' = [seen EXCEPT ![in] = @ \o t]
    BY <1>0, <2>1, <2>2, <2>3, <2>4, GiveKeeps
  <2>. QED
    BY <1>0, <2>1, <2>5, GiveReads
<1>2. ASSUME NEW r \in Pipe!Outcome(BufSize), r <= 0, block' = <<>>,
             rc' = IF r = 0 THEN Pipe!ENDED ELSE Pipe!FAILED, UNCHANGED <<buf, pos, dpos, seen>>
      PROVE  InInv' /\ Reads
  <2>1. rc' \in Int
    BY <1>2 DEF Pipe!ENDED, Pipe!FAILED
  <2>. QED
    BY <1>0, <1>2, <2>1, IdleReads
<1>3. ASSUME NEW r \in Pipe!Outcome(BufSize), Pipe!MustRefill(1), r > 0,
             Pipe!Give(Pipe!Refilled(r), 0, <<Pipe!Refilled(r)[1]>>, Pipe!Refilled(r)[1]),
             dpos' = [dpos EXCEPT ![in] = @ + r]
      PROVE  InInv' /\ Reads
  <2>. DEFINE b == Pipe!Refilled(r)
              t == <<b[1]>>
  <2>1. /\ r \in Nat /\ r <= BufSize /\ Passed(in) = dpos[in] /\ dpos[in] \in Nat
        /\ dpos[in] + r \in 0..Length /\ b \in Seq(Nat) /\ Len(b) = r
        /\ \A i \in 1..r : b[i] = dpos[in] + i
    BY <1>3, RefillIs DEF Pipe!MustRefill
  <2>. HIDE DEF b
  <2>2. /\ t \in Seq(Nat) /\ 0 + Len(t) <= Len(b) /\ b[1] \in Int
        /\ \A i \in 1..Len(t) : t[i] = b[0 + i]
    BY <1>3, <2>1
  <2>3. Pipe!Give(b, 0, t, b[1])
    BY <1>3 DEF b
  <2>. HIDE DEF t
  <2>. DEFINE d == dpos[in] + r
  <2>4. /\ d \in 0..Length /\ dpos' = [dpos EXCEPT ![in] = d] /\ Len(b) <= d
        /\ d - (Len(b) - 0) = Passed(in) /\ 0 \in 0..Len(b)
        /\ \A i \in 1..Len(b) : b[i] = d - Len(b) + i
    BY <1>0, <1>3, <2>1
  <2>. HIDE DEF d
  <2>5. InInv' /\ block' = t /\ seen' = [seen EXCEPT ![in] = @ \o t]
    BY <1>0, <2>1, <2>2, <2>3, <2>4, GiveKeeps
  <2>. QED
    BY <1>0, <2>2, <2>5, GiveReads
<1>. QED
  BY <1>1, <1>2, <1>3 DEF Pipe!readChar

\* The unread bytes are the last ones taken from the stream.
LEMMA UnreadIs ==
  ASSUME Pipe!InParameters, InInv
  PROVE  /\ Pipe!Unread = Passed(in) + 1 .. dpos[in]
         /\ Passed(in) \in Nat /\ Passed(in) <= dpos[in] /\ dpos[in] \in Nat
<1>1. /\ pos \in Nat /\ Len(buf) \in Nat /\ pos <= Len(buf) /\ dpos[in] \in Nat
      /\ Passed(in) = dpos[in] - (Len(buf) - pos) /\ Len(buf) <= dpos[in]
  BY DEF Pipe!InParameters, InInv, Pipe!InTypeOK, BufferInv, Passed
<1>2. ASSUME NEW i \in pos + 1 .. Len(buf) PROVE buf[i] \in Passed(in) + 1 .. dpos[in]
  <2>1. i \in 1..Len(buf) /\ buf[i] = dpos[in] - Len(buf) + i
    BY <1>1 DEF InInv, BufferInv
  <2>. QED
    BY <1>1, <2>1
<1>3. ASSUME NEW x \in Passed(in) + 1 .. dpos[in]
      PROVE  \E i \in pos + 1 .. Len(buf) : buf[i] = x
  <2>. DEFINE i == x - dpos[in] + Len(buf)
  <2>1. i \in pos + 1 .. Len(buf) /\ i \in 1..Len(buf)
    BY <1>1
  <2>2. buf[i] = dpos[in] - Len(buf) + i
    BY <2>1 DEF InInv, BufferInv
  <2>3. dpos[in] - Len(buf) + i = x
    BY <1>1
  <2>. QED
    BY <2>1, <2>2, <2>3
<1>4. Pipe!Unread = {buf[i] : i \in pos + 1 .. Len(buf)}
  BY DEF Pipe!Unread
<1>5. Pipe!Unread \subseteq Passed(in) + 1 .. dpos[in]
  BY <1>2, <1>4
<1>6. Passed(in) + 1 .. dpos[in] \subseteq Pipe!Unread
  BY <1>3, <1>4
<1>7. Pipe!Unread = Passed(in) + 1 .. dpos[in]
  BY <1>5, <1>6
<1>8. Passed(in) \in Nat /\ Passed(in) <= dpos[in]
  BY <1>1
<1>. QED
  BY <1>1, <1>7, <1>8

\* reset() and setStream() keep the invariant and read nothing.
LEMMA ResetKeeps ==
  ASSUME Pipe!InParameters, InInv, NEW z \in Streams, Pipe!resetTo(z)
  PROVE  InInv' /\ UNCHANGED <<seen, block>>
<1>0. /\ buf' = <<>> /\ pos' = 0 /\ skipped' = [skipped EXCEPT ![in] = @ \union Pipe!Unread]
      /\ in' = z /\ UNCHANGED <<dpos, seen, block, rc>>
      /\ in \in Streams /\ dpos \in [Streams -> 0..Length] /\ Length \in Nat
      /\ skipped \in [Streams -> SUBSET Nat]
  BY DEF Pipe!resetTo, InInv, Pipe!InTypeOK, Pipe!InParameters
<1>1. /\ Pipe!Unread = Passed(in) + 1 .. dpos[in]
      /\ Passed(in) \in Nat /\ Passed(in) <= dpos[in] /\ dpos[in] \in Nat
  BY UnreadIs
<1>2. \A s \in Streams : Passed(s)' = dpos[s]
  BY <1>0 DEF Passed
<1>3. Pipe!Unread \in SUBSET Nat
  BY <1>1
<1>4. Pipe!InTypeOK'
  <2>1. skipped[in] \union Pipe!Unread \in SUBSET Nat
    BY <1>0, <1>3
  <2>2. skipped' \in [Streams -> SUBSET Nat]
    BY <1>0, <2>1
  <2>3. buf' \in Seq(Nat) /\ Len(buf') = 0 /\ 0 <= BufSize /\ pos' \in 0..Len(buf')
    BY <1>0 DEF Pipe!InParameters
  <2>. QED
    BY <1>0, <2>2, <2>3 DEF InInv, Pipe!InTypeOK
<1>5. BufferInv'
  BY <1>0 DEF BufferInv
<1>6. ASSUME NEW s \in Streams
      PROVE  Increasing(seen[s]) /\ Pipe!BytesOf(seen[s]) \union skipped'[s] = 1..dpos[s]
  <2>1. Increasing(seen[s]) /\ Pipe!BytesOf(seen[s]) \union skipped[s] = 1..Passed(s)
    BY DEF InInv, SeenInv
  <2>2. CASE s = in
    <3>1. skipped'[s] = skipped[s] \union (Passed(s) + 1 .. dpos[s])
      BY <1>0, <1>1, <2>2
    <3>2. 1..dpos[s] = (1..Passed(s)) \union (Passed(s) + 1 .. dpos[s])
      BY <1>1, <2>2
    <3>. QED
      BY <2>1, <3>1, <3>2
  <2>3. CASE s # in
    BY <1>0, <2>1, <2>3 DEF Passed
  <2>. QED
    BY <2>2, <2>3
<1>7. SeenInv'
  BY <1>0, <1>2, <1>6 DEF SeenInv
<1>. QED
  BY <1>0, <1>4, <1>5, <1>7 DEF InInv

\* Every call to the input stream keeps its invariant.
LEMMA InStep ==
  ASSUME Pipe!InParameters, InInv, Pipe!InNext
  PROVE  InInv' /\ \A s \in Streams : Pipe!BytesOf(seen[s]) \subseteq Pipe!BytesOf(seen[s])'
<1>1. ASSUME NEW n \in Sizes, Pipe!read(n) PROVE InInv' /\ Reads
  BY <1>1, ReadKeeps DEF Pipe!InParameters
<1>2. ASSUME Pipe!readChar PROVE InInv' /\ Reads
  BY <1>2, ReadCharKeeps
<1>3. ASSUME NEW s \in Streams, Pipe!resetTo(s) PROVE InInv' /\ UNCHANGED seen
  BY <1>3, ResetKeeps
<1>4. in \in Streams
  BY DEF InInv, Pipe!InTypeOK
<1>. QED
  BY <1>1, <1>2, <1>3, <1>4 DEF Pipe!InNext, Pipe!reset, Pipe!setStream, Reads, Pipe!BytesOf

\* The invariant says what EveryByteOnce says.
LEMMA InExact ==
  ASSUME Pipe!InParameters, InInv PROVE Pipe!EveryByteOnce
<1>. SUFFICES ASSUME NEW s \in Streams
              PROVE  LET rest == IF s = in THEN Pipe!Unread ELSE {}
                     IN  /\ Increasing(seen[s])
                         /\ Pipe!BytesOf(seen[s]) \union skipped[s] \union rest = 1..dpos[s]
                         /\ Pipe!BytesOf(seen[s]) \intersect rest = {}
  BY DEF Pipe!EveryByteOnce, Increasing
<1>1. Increasing(seen[s]) /\ Pipe!BytesOf(seen[s]) \union skipped[s] = 1..Passed(s)
  BY DEF InInv, SeenInv
<1>2. CASE s = in
  <2>1. /\ Pipe!Unread = Passed(s) + 1 .. dpos[s] /\ Passed(s) \in Nat
        /\ Passed(s) <= dpos[s] /\ dpos[s] \in Nat
    BY <1>2, UnreadIs
  <2>2. /\ 1..dpos[s] = (1..Passed(s)) \union (Passed(s) + 1 .. dpos[s])
        /\ (1..Passed(s)) \intersect (Passed(s) + 1 .. dpos[s]) = {}
    BY <2>1
  <2>. QED
    BY <1>1, <1>2, <2>1, <2>2
<1>3. CASE s # in
  BY <1>1, <1>3 DEF Passed
<1>. QED
  BY <1>2, <1>3

\* What the input stream has given stays given.
LEMMA GivenGrows ==
  ASSUME \A s \in Streams : Pipe!BytesOf(seen[s]) \subseteq Pipe!BytesOf(seen[s])'
  PROVE  GivenBytes \subseteq GivenBytes'
  BY DEF GivenBytes

\* The invariant holds initially.
LEMMA FirstState ==
  ASSUME Pipe!InParameters, Pipe!PipeParameters, Pipe!Init
  PROVE  InInv /\ PipeInv /\ CopyInv
<1>1. /\ in \in Streams /\ buf = <<>> /\ pos = 0 /\ block = <<>> /\ rc = 0
      /\ dpos = [s \in Streams |-> 0] /\ seen = [s \in Streams |-> <<>>]
      /\ skipped = [s \in Streams |-> {}]
  BY DEF Pipe!Init, Pipe!InInit
<1>2. /\ pc = "idle" /\ sink = <<<<>>, <<>>>> /\ size = 0 /\ base = 0
      /\ pres = 0 /\ pstate = "OK" /\ tstate = 0
  BY DEF Pipe!Init
<1>3. Pipe!InTypeOK
  BY <1>1 DEF Pipe!InTypeOK, Pipe!InParameters
<1>4. BufferInv
  BY <1>1 DEF BufferInv
<1>5. SeenInv
  <2>1. ASSUME NEW s \in Streams
        PROVE  Increasing(seen[s]) /\ Pipe!BytesOf(seen[s]) = {} /\ skipped[s] = {} /\ Passed(s) = 0
    BY <1>1 DEF Increasing, Pipe!BytesOf, Passed
  <2>2. 1..0 = {}
    OBVIOUS
  <2>3. ASSUME NEW s \in Streams
        PROVE  Increasing(seen[s]) /\ Pipe!BytesOf(seen[s]) \union skipped[s] = 1..Passed(s)
    BY <2>1, <2>2, Zenon
  <2>. QED
    BY <2>3 DEF SeenInv
<1>6. sink \in [1..2 -> Seq(Nat)] /\ sink[1] = <<>> /\ sink[2] = <<>>
  <2>1. sink = [k \in 1..2 |-> <<>>]
    BY <1>2
  <2>. QED
    BY <2>1
<1>7. PipeInv
  BY <1>2, <1>6 DEF PipeInv
<1>8. CopyInv
  BY <1>2, <1>6 DEF CopyInv, Pipe!BytesOf
<1>. QED
  BY <1>3, <1>4, <1>5, <1>7, <1>8 DEF InInv

\* A call of the program to the input stream leaves the copies as they are.
LEMMA InCallKeeps ==
  ASSUME Pipe!InParameters, InInv, PipeInv, CopyInv, Pipe!inCall
  PROVE  InInv' /\ PipeInv' /\ CopyInv'
<1>1. pc = "idle" /\ Pipe!InNext /\ UNCHANGED Pipe!pipeVars
  BY DEF Pipe!inCall
<1>2. InInv' /\ GivenBytes \subseteq GivenBytes'
  BY <1>1, InStep, GivenGrows
<1>3. PipeInv'
  BY <1>1 DEF PipeInv, Pipe!pipeVars
<1>4. CopyInv'
  <2>1. sink' = sink /\ pc' = pc /\ tstate' = tstate /\ pc = "idle"
    BY <1>1 DEF Pipe!pipeVars
  <2>. QED
    BY <1>2, <2>1 DEF CopyInv, Pipe!BytesOf
<1>. QED
  BY <1>2, <1>3, <1>4

\* The read of the loop of proceed().
LEMMA PipeReadKeeps ==
  ASSUME Pipe!InParameters, Pipe!PipeParameters, InInv, PipeInv, CopyInv, Pipe!pipeRead
  PROVE  InInv' /\ PipeInv' /\ CopyInv'
<1>1. InInv' /\ Reads
  BY ReadKeeps DEF Pipe!pipeRead, Pipe!PipeParameters
<1>2. /\ pc = "read" /\ pc' \in {"idle", "out1"} /\ UNCHANGED <<sink, size, base, tstate>>
      /\ pstate' \in {"IN_ERROR", pstate}
  BY DEF Pipe!pipeRead
<1>3. pres' \in {-1, size, pres}
  BY DEF Pipe!pipeRead
<1>4. PipeInv'
  BY <1>2, <1>3 DEF PipeInv
<1>5. GivenBytes \subseteq GivenBytes' /\ in' \in Streams
  BY <1>1, GivenGrows DEF Reads, InInv, Pipe!InTypeOK
<1>6. Pipe!BytesOf(block)' \subseteq GivenBytes'
  BY <1>1, <1>5 DEF Reads, GivenBytes
<1>7. CopyInv'
  BY <1>2, <1>5, <1>6 DEF CopyInv, Pipe!BytesOf
<1>. QED
  BY <1>1, <1>4, <1>7

\* The writes of the tee, when they succeed and when one fails.
LEMMA PipeWriteKeeps ==
  ASSUME Pipe!InParameters, InInv, PipeInv, CopyInv, Pipe!pipeWrite
  PROVE  InInv' /\ PipeInv' /\ CopyInv'
<1>0. UNCHANGED <<in, buf, pos, dpos, seen, block, rc, skipped>> /\ base' = base
  BY DEF Pipe!pipeWrite, Pipe!inVars
<1>1. InInv' /\ GivenBytes' = GivenBytes /\ Pipe!BytesOf(block)' = Pipe!BytesOf(block)
  BY <1>0 DEF InInv, Pipe!InTypeOK, BufferInv, SeenInv, Passed, GivenBytes, Pipe!BytesOf
<1>2. /\ sink \in [1..2 -> Seq(Nat)] /\ sink[1] \in Seq(Nat) /\ sink[2] \in Seq(Nat)
      /\ block \in Seq(Nat)
  BY DEF PipeInv, InInv, Pipe!InTypeOK
<1>3. /\ Pipe!BytesOf(sink[1] \o block) = Pipe!BytesOf(sink[1]) \union Pipe!BytesOf(block)
      /\ Pipe!BytesOf(sink[2] \o block) = Pipe!BytesOf(sink[2]) \union Pipe!BytesOf(block)
      /\ Len(sink[2] \o block) = Len(sink[2]) + Len(block)
      /\ sink[1] \o block \in Seq(Nat) /\ sink[2] \o block \in Seq(Nat)
  BY <1>2, BytesOfConcat
<1>4. (pc = "out1" /\ Pipe!teeWrite(1)) \/ (pc = "out2" /\ Pipe!teeWrite(2))
  BY DEF Pipe!pipeWrite
<1>5. CASE /\ pc = "out1" /\ pc' = "out2" /\ sink' = [sink EXCEPT ![1] = @ \o block]
           /\ size' = size /\ UNCHANGED <<pres, pstate, tstate>>
  <2>1. sink'[1] = sink[1] \o block /\ sink'[2] = sink[2] /\ sink' \in [1..2 -> Seq(Nat)]
    BY <1>2, <1>3, <1>5
  <2>2. PipeInv'
    BY <1>0, <1>5, <2>1 DEF PipeInv
  <2>3. CopyInv'
    <3>1. Pipe!BytesOf(sink[1])' = Pipe!BytesOf(sink[1] \o block) /\ Pipe!BytesOf(sink[2])' = Pipe!BytesOf(sink[2])
      BY <2>1 DEF Pipe!BytesOf
    <3>2. tstate' = 0 => sink'[1] = sink'[2] \o block'
      BY <1>0, <1>5, <2>1 DEF CopyInv
    <3>3. /\ Pipe!BytesOf(sink[2]) \subseteq Pipe!BytesOf(sink[1]) /\ Pipe!BytesOf(sink[1]) \subseteq GivenBytes
          /\ Pipe!BytesOf(block) \subseteq GivenBytes
      BY <1>5 DEF CopyInv
    <3>4. /\ Pipe!BytesOf(sink[2])' \subseteq Pipe!BytesOf(sink[1])' /\ Pipe!BytesOf(sink[1])' \subseteq GivenBytes'
          /\ Pipe!BytesOf(block)' \subseteq GivenBytes' /\ Pipe!BytesOf(block)' \subseteq Pipe!BytesOf(sink[1])'
      BY <1>1, <1>3, <3>1, <3>3
    <3>. QED
      BY <1>5, <3>2, <3>4 DEF CopyInv
  <2>. QED
    BY <1>1, <2>2, <2>3
<1>6. CASE /\ pc = "out2" /\ pc' = "read" /\ sink' = [sink EXCEPT ![2] = @ \o block]
           /\ size' = size + Len(block) /\ UNCHANGED <<pres, pstate, tstate>>
  <2>1. sink'[2] = sink[2] \o block /\ sink'[1] = sink[1] /\ sink' \in [1..2 -> Seq(Nat)]
    BY <1>2, <1>3, <1>6
  <2>2. PipeInv'
    <3>1. Len(sink[2]) \in Nat /\ Len(block) \in Nat
      BY <1>2
    <3>2. Len(sink'[2]) - base' = size' /\ size' \in Nat
      <4>1. Len(sink[2]) - base = size /\ size \in Nat /\ base \in Nat
        BY <1>6 DEF PipeInv
      <4>2. Len(sink'[2]) = Len(sink[2]) + Len(block)
        BY <1>3, <2>1
      <4>. QED
        BY <1>0, <1>6, <3>1, <4>1, <4>2
    <3>. QED
      BY <1>0, <1>6, <2>1, <3>2 DEF PipeInv
  <2>3. CopyInv'
    <3>1. Pipe!BytesOf(sink[2])' = Pipe!BytesOf(sink[2] \o block) /\ Pipe!BytesOf(sink[1])' = Pipe!BytesOf(sink[1])
      BY <2>1 DEF Pipe!BytesOf
    <3>2. tstate' = 0 => sink'[1] = sink'[2]
      BY <1>0, <1>6, <2>1 DEF CopyInv
    <3>. QED
      BY <1>1, <1>3, <1>6, <3>1, <3>2 DEF CopyInv
  <2>. QED
    BY <1>1, <2>2, <2>3
<1>7. CASE /\ tstate' \in {1, 2} /\ pstate' = "OUT_ERROR" /\ pres' = -1 /\ pc' = "idle"
           /\ UNCHANGED <<sink, size>>
  <2>1. PipeInv'
    BY <1>0, <1>7 DEF PipeInv
  <2>2. CopyInv'
    <3>1. Pipe!BytesOf(sink[1])' = Pipe!BytesOf(sink[1]) /\ Pipe!BytesOf(sink[2])' = Pipe!BytesOf(sink[2])
      BY <1>7 DEF Pipe!BytesOf
    <3>. QED
      BY <1>1, <1>7, <3>1 DEF CopyInv
  <2>. QED
    BY <1>1, <2>1, <2>2
<1>. QED
  BY <1>4, <1>5, <1>6, <1>7 DEF Pipe!teeWrite

\* Every step keeps the invariant.
LEMMA PipeStep ==
  ASSUME Pipe!InParameters, Pipe!PipeParameters, InInv, PipeInv, CopyInv, [Pipe!Next]_(Pipe!vars)
  PROVE  InInv' /\ PipeInv' /\ CopyInv'
<1>1. ASSUME Pipe!proceed \/ Pipe!teeFlush \/ UNCHANGED Pipe!vars PROVE InInv' /\ PipeInv' /\ CopyInv'
  <2>1. /\ UNCHANGED <<in, buf, pos, dpos, seen, block, rc, skipped, sink>>
        /\ pres' = pres /\ pstate' = pstate
        /\ pc' = pc \/ (pc = "idle" /\ pc' = "read")
        /\ tstate' = tstate \/ tstate' \in {1, 2}
    BY <1>1 DEF Pipe!proceed, Pipe!teeFlush, Pipe!vars, Pipe!inVars, Pipe!pipeVars
  <2>2. InInv'
    BY <2>1 DEF InInv, Pipe!InTypeOK, BufferInv, SeenInv, Passed
  <2>3. PipeInv'
    <3>1. Len(sink[2]) \in Nat
      BY DEF PipeInv
    <3>2. size' \in Nat /\ base' \in Nat /\ (pc' # "idle" => Len(sink[2]) - base' = size')
      <4>1. CASE Pipe!proceed
        BY <3>1, <4>1 DEF Pipe!proceed
      <4>2. CASE Pipe!teeFlush \/ UNCHANGED Pipe!vars
        BY <4>2 DEF Pipe!teeFlush, Pipe!vars, Pipe!pipeVars, PipeInv
      <4>. QED
        BY <1>1, <4>1, <4>2
    <3>. QED
      BY <2>1, <3>2 DEF PipeInv
  <2>4. CopyInv'
    <3>1. /\ GivenBytes' = GivenBytes /\ Pipe!BytesOf(block)' = Pipe!BytesOf(block)
          /\ Pipe!BytesOf(sink[1])' = Pipe!BytesOf(sink[1]) /\ Pipe!BytesOf(sink[2])' = Pipe!BytesOf(sink[2])
      BY <2>1 DEF GivenBytes, Pipe!BytesOf
    <3>. QED
      BY <2>1, <3>1 DEF CopyInv
  <2>. QED
    BY <2>2, <2>3, <2>4
<1>. QED
  BY <1>1, InCallKeeps, PipeReadKeeps, PipeWriteKeeps DEF Pipe!Next

\* For any sizes of stream, buffer, block and request, and whatever errors and
\* short reads occur: a buffered input stream gives every byte once and in
\* order, and proceed() counts and copies to both streams of the tee exactly
\* the bytes it was given.
THEOREM PipeIsExact ==
  ASSUME Pipe!InParameters, Pipe!PipeParameters
  PROVE  Pipe!Spec => [](Pipe!TypeOK /\ Pipe!EveryByteOnce /\ Pipe!PipeCounts /\ Pipe!PipeCopies)
<1>1. Pipe!Init => InInv /\ PipeInv /\ CopyInv
  BY FirstState
<1>2. InInv /\ PipeInv /\ CopyInv /\ [Pipe!Next]_(Pipe!vars) => (InInv /\ PipeInv /\ CopyInv)'
  BY PipeStep
<1>3. ASSUME InInv, PipeInv, CopyInv
      PROVE  Pipe!TypeOK /\ Pipe!EveryByteOnce /\ Pipe!PipeCounts /\ Pipe!PipeCopies
  <2>1. sink \in Seq(Seq(Nat))
    <3>1. sink = [k \in 1..2 |-> sink[k]] /\ \A k \in 1..2 : sink[k] \in Seq(Nat)
      BY <1>3 DEF PipeInv
    <3>2. [k \in 1..2 |-> sink[k]] \in Seq(Seq(Nat))
      BY <3>1
    <3>. QED
      BY <3>1, <3>2
  <2>2. Pipe!TypeOK
    BY <1>3, <2>1 DEF InInv, PipeInv, Pipe!TypeOK
  <2>3. Pipe!PipeCounts
    BY <1>3 DEF PipeInv, CopyInv, Pipe!PipeCounts
  <2>4. Pipe!PipeCopies
    BY <1>3 DEF CopyInv, Pipe!PipeCopies, GivenBytes
  <2>. QED
    BY <1>3, <2>2, <2>3, <2>4, InExact
<1>. QED
  BY <1>1, <1>2, <1>3, PTL DEF Pipe!Spec
=============================================================================
