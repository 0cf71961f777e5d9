------------------------ MODULE StackAllocatorProofs ------------------------
(***************************************************************************)
(* For chunks of any size, at any addresses, and for requests of any size  *)
(* a chunk can hold: when the application releases only marks of the       *)
(* current chunk, no living block leaves its chunk or meets another; when  *)
(* it also takes its marks before the end of a chunk, no byte is lost.     *)
(***************************************************************************)
EXTENDS StackAllocator, TLAPS

\* The chunks of the stack are different buffers.
StackInv ==
  \A i, j \in 1 .. Len(stack) : stack[i] = stack[j] => i = j

\* top and max are in the current chunk.
TopInv ==
  stack # <<>> => /\ stack[1] <= top /\ top <= max
                  /\ max = stack[1] + Size

\* The blocks of the current chunk are before top.
BelowInv ==
  stack # <<>> =>
    \A i \in 1 .. Len(granted) :
      granted[i].at \in stack[1] .. stack[1] + Size => End(granted[i]) <= top

\* A mark of a living chunk is after the blocks of this chunk that were
\* living when it was taken; marks are taken in the order of the blocks.
MarksInv ==
  \A m \in 1 .. Len(marks) :
    /\ marks[m].n <= Len(granted)
    /\ \A k \in 1 .. m : marks[k].n <= marks[m].n
    /\ \A i \in 1 .. marks[m].n, c \in Chunks :
         Inside(marks[m].pos, c) /\ granted[i].at \in c .. c + Size
           => End(granted[i]) <= marks[m].pos

\* With marks taken inside the chunks, each is the end of a block.
MarkEndInv ==
  MarkInside =>
    \A m \in 1 .. Len(marks) :
      /\ marks[m].n > 0
      /\ marks[m].pos = End(granted[marks[m].n])

StackAllocInv ==
  /\ TypeOK /\ StackInv /\ TopInv /\ BelowInv /\ MarksInv
  /\ BlocksInChunks /\ BlocksDisjoint

EndInv == MarkEndInv /\ (MarkInside => TopIsEndOfLast)

-----------------------------------------------------------------------------
\* An address belongs to at most one chunk, its end included.
LEMMA OneChunk ==
  ASSUME NEW a \in Nat, NEW b \in Buffers, NEW c \in Buffers,
         a \in b .. b + Size, a \in c .. c + Size
  PROVE  b = c
<1>1. b \in Nat /\ c \in Nat /\ Size \in Nat
  BY BuffersAssumption, SizeAssumption
<1>2. b < c => b + Size < c
  BY BuffersAssumption
<1>3. c < b => c + Size < b
  BY BuffersAssumption
<1>4. QED
  BY <1>1, <1>2, <1>3

\* What the types say of the elements of the sequences.
LEMMA Elements ==
  ASSUME TypeOK
  PROVE  /\ Len(granted) \in Nat /\ Len(marks) \in Nat /\ Len(stack) \in Nat
         /\ stack # <<>> => Len(stack) > 0
         /\ \A i \in 1 .. Len(stack) : stack[i] \in Buffers /\ stack[i] \in Nat
         /\ \A c \in Chunks : c \in Buffers /\ c \in Nat
         /\ \A i \in 1 .. Len(granted) :
              granted[i].at \in Nat /\ granted[i].size \in Nat
         /\ \A i \in 1 .. Len(marks) :
              marks[i].pos \in Nat /\ marks[i].n \in Nat
<1>1. /\ Len(granted) \in Nat /\ Len(marks) \in Nat /\ Len(stack) \in Nat
      /\ stack # <<>> => Len(stack) > 0
  BY DEF TypeOK
<1>2. /\ \A i \in 1 .. Len(stack) : stack[i] \in Buffers
      /\ \A i \in 1 .. Len(granted) : granted[i] \in Blocks
      /\ \A i \in 1 .. Len(marks) : marks[i] \in Marks
  BY DEF TypeOK
<1>3. \A i \in 1 .. Len(stack) : stack[i] \in Nat
  BY <1>2, BuffersAssumption
<1>4. \A c \in Chunks : c \in Buffers /\ c \in Nat
  BY <1>2, <1>3 DEF Chunks
<1>5. \A i \in 1 .. Len(granted) :
        granted[i].at \in Nat /\ granted[i].size \in Nat
  BY <1>2 DEF Blocks
<1>6. \A i \in 1 .. Len(marks) : marks[i].pos \in Nat /\ marks[i].n \in Nat
  BY <1>2 DEF Marks
<1>7. QED
  BY <1>1, <1>2, <1>3, <1>4, <1>5, <1>6

\* What a prefix of a sequence is.
LEMMA Prefix ==
  ASSUME NEW S, NEW s \in Seq(S), NEW n \in Nat, n <= Len(s)
  PROVE  /\ SubSeq(s, 1, n) \in Seq(S) /\ Len(SubSeq(s, 1, n)) = n
         /\ \A i \in 1 .. n : SubSeq(s, 1, n)[i] = s[i]
OBVIOUS

\* Two chunks are apart.
LEMMA Apart ==
  ASSUME NEW b \in Buffers, NEW c \in Buffers, b # c
  PROVE  b \in Nat /\ c \in Nat /\ (b + Size < c \/ c + Size < b)
<1>1. b \in Nat /\ c \in Nat /\ Size \in Nat
  BY BuffersAssumption, SizeAssumption
<1>2. (b < c => b + Size < c) /\ (c < b => c + Size < b)
  BY BuffersAssumption
<1>3. QED
  BY <1>1, <1>2

\* The first states satisfy the invariant.
LEMMA InitInv == Init => StackAllocInv
<1> SUFFICES ASSUME Init PROVE StackAllocInv
  OBVIOUS
<1>1. TypeOK
  <2>1. stack \in Seq(Buffers) /\ granted \in Seq(Blocks) /\ marks \in Seq(Marks)
    BY DEF Init
  <2>2. top \in Nat /\ max \in Nat
    BY DEF Init
  <2>3. aborted \in BOOLEAN
    BY Zenon DEF Init
  <2>4. QED
    BY <2>1, <2>2, <2>3 DEF TypeOK
<1>2. stack = <<>> /\ Len(stack) = 0 /\ Len(granted) = 0 /\ Len(marks) = 0
  BY DEF Init
<1>3. StackInv /\ TopInv /\ BelowInv /\ MarksInv
  BY <1>2 DEF StackInv, TopInv, BelowInv, MarksInv
<1>4. BlocksInChunks /\ BlocksDisjoint
  BY <1>2 DEF BlocksInChunks, BlocksDisjoint
<1>5. QED
  BY <1>1, <1>3, <1>4 DEF StackAllocInv

\* Granting a block, in a chunk of the stack or in a new one that holds no
\* living block, says nothing new about the marks.
LEMMA GrantedKept ==
  ASSUME StackAllocInv, marks' = marks,
         Len(granted') = Len(granted) + 1,
         \A i \in 1 .. Len(granted) : granted'[i] = granted[i],
         \A c \in Chunks' :
           \/ c \in Chunks
           \/ \A i \in 1 .. Len(granted) : granted[i].at \notin c .. c + Size
  PROVE  MarksInv'
<1> USE DEF StackAllocInv
<1> SUFFICES ASSUME NEW m \in 1 .. Len(marks)
             PROVE  /\ marks[m].n <= Len(granted')
                    /\ \A k \in 1 .. m : marks[k].n <= marks[m].n
                    /\ \A i \in 1 .. marks[m].n, c \in Chunks' :
                         Inside(marks[m].pos, c)
                         /\ granted'[i].at \in c .. c + Size
                           => End(granted'[i]) <= marks[m].pos
  BY DEF MarksInv
<1>1. /\ marks[m].n \in Nat /\ marks[m].n <= Len(granted)
      /\ \A k \in 1 .. m : marks[k].n <= marks[m].n
  BY Elements DEF MarksInv
<1>2. \A i \in 1 .. marks[m].n : i \in 1 .. Len(granted)
  BY <1>1, Elements
<1>3. ASSUME NEW i \in 1 .. marks[m].n, NEW c \in Chunks',
             Inside(marks[m].pos, c), granted'[i].at \in c .. c + Size
      PROVE  End(granted'[i]) <= marks[m].pos
  <2>1. granted'[i] = granted[i] /\ c \in Chunks
    BY <1>2, <1>3
  <2>2. QED
    BY <1>3, <2>1 DEF MarksInv
<1>4. marks[m].n <= Len(granted')
  BY <1>1, Elements
<1>5. QED
  BY <1>1, <1>3, <1>4

\* allocate() from the current chunk: the block is behind all those of the
\* chunk and before its end.
LEMMA TopStep ==
  ASSUME StackAllocInv, NEW n \in Requests, allocateTop(n)
  PROVE  StackAllocInv'
<1> USE DEF StackAllocInv
<1>0. n \in Nat /\ Size \in Nat /\ top \in Nat /\ max \in Nat
  BY SizeAssumption, RequestsAssumption DEF TypeOK
<1>a. stack # <<>> /\ (max - top) \notin 0 .. n - 1
  BY DEF allocateTop, HasRoom
<1>b. stack[1] \in Buffers /\ stack[1] \in Nat /\ stack[1] \in Chunks
  BY <1>a, Elements DEF Chunks
<1>c. /\ stack[1] <= top /\ max = stack[1] + Size /\ top <= max
      /\ top + n <= max
  BY <1>0, <1>a, <1>b DEF TopInv
<1>d. top' = top + n /\ UNCHANGED <<stack, max, marks, aborted>>
  BY DEF allocateTop
<1>1. Block(top, n) \in Blocks
  BY <1>0 DEF Block, Blocks
<1>2. /\ granted' \in Seq(Blocks)
      /\ Len(granted') = Len(granted) + 1
      /\ \A i \in 1 .. Len(granted) : granted'[i] = granted[i]
      /\ granted'[Len(granted) + 1] = Block(top, n)
  BY <1>1 DEF allocateTop, TypeOK
<1>e. granted'[Len(granted) + 1].at = top /\ End(Block(top, n)) = top + n
  BY <1>2 DEF Block, End
<1>3. Chunks' = Chunks
  BY <1>d DEF Chunks
<1>4. TypeOK'
  BY <1>0, <1>2, <1>d DEF TypeOK
<1>5. StackInv' /\ TopInv'
  BY <1>0, <1>b, <1>c, <1>d DEF StackInv, TopInv
<1>6. BlocksInChunks'
  <2> SUFFICES ASSUME NEW i \in 1 .. Len(granted')
               PROVE  \E c \in Chunks : /\ c <= granted'[i].at
                                        /\ End(granted'[i]) <= c + Size
    BY <1>3 DEF BlocksInChunks
  <2>1. CASE i \in 1 .. Len(granted)
    BY <1>2, <2>1 DEF BlocksInChunks
  <2>2. CASE i = Len(granted) + 1
    BY <1>2, <1>b, <1>c, <1>e, <2>2
  <2>3. QED
    BY <1>2, <2>1, <2>2, Elements
<1>7. BelowInv'
  <2> SUFFICES ASSUME NEW i \in 1 .. Len(granted'),
                      granted'[i].at \in stack[1] .. stack[1] + Size
               PROVE  End(granted'[i]) <= top + n
    BY <1>d DEF BelowInv
  <2>1. CASE i \in 1 .. Len(granted)
    <3>1. End(granted[i]) <= top
      BY <1>2, <1>a, <2>1 DEF BelowInv
    <3>2. granted[i].at \in Nat /\ granted[i].size \in Nat
      BY <2>1, Elements
    <3>3. End(granted[i]) \in Nat
      BY <3>2 DEF End
    <3>4. QED
      BY <1>0, <1>2, <2>1, <3>1, <3>3
  <2>2. CASE i = Len(granted) + 1
    BY <1>0, <1>2, <1>e, <2>2
  <2>3. QED
    BY <1>2, <2>1, <2>2, Elements
<1>8. BlocksDisjoint'
  <2>1. ASSUME NEW i \in 1 .. Len(granted)
        PROVE  End(granted[i]) <= top \/ top + n <= granted[i].at
    <3>1. PICK c \in Chunks :
            c <= granted[i].at /\ End(granted[i]) <= c + Size
      BY DEF BlocksInChunks
    <3>2. /\ c \in Buffers /\ c \in Nat
          /\ granted[i].at \in Nat /\ granted[i].size \in Nat
      BY Elements
    <3>3. End(granted[i]) \in Nat /\ granted[i].at <= End(granted[i])
      BY <3>2 DEF End
    <3>4. CASE c = stack[1]
      <4>1. granted[i].at \in stack[1] .. stack[1] + Size
        BY <1>0, <3>1, <3>2, <3>3, <3>4
      <4>2. QED
        BY <1>a, <4>1 DEF BelowInv
    <3>5. CASE c # stack[1]
      <4>1. c + Size < stack[1] \/ stack[1] + Size < c
        BY <1>b, <3>2, <3>5, Apart
      <4>2. QED
        BY <1>0, <1>b, <1>c, <3>1, <3>2, <3>3, <4>1
    <3>6. QED
      BY <3>4, <3>5
  <2> SUFFICES ASSUME NEW i \in 1 .. Len(granted'),
                      NEW j \in 1 .. Len(granted'), i < j
               PROVE  \/ End(granted'[i]) <= granted'[j].at
                      \/ End(granted'[j]) <= granted'[i].at
    BY DEF BlocksDisjoint
  <2>2. i \in 1 .. Len(granted)
    BY <1>2, Elements
  <2>3. CASE j \in 1 .. Len(granted)
    BY <1>2, <2>2, <2>3 DEF BlocksDisjoint
  <2>4. CASE j = Len(granted) + 1
    <3>1. granted'[i] = granted[i] /\ granted'[j].at = top
      BY <1>2, <1>e, <2>2, <2>4
    <3>2. End(granted'[j]) = top + n
      BY <1>2, <1>e, <2>4
    <3>3. End(granted[i]) <= top \/ top + n <= granted[i].at
      BY <2>1, <2>2
    <3>4. QED
      BY <3>1, <3>2, <3>3
  <2>5. j \in 1 .. Len(granted) \/ j = Len(granted) + 1
    BY <1>2, Elements
  <2>6. QED
    BY <2>3, <2>4, <2>5
<1>9. MarksInv'
  BY <1>2, <1>3, <1>d, GrantedKept
<1>10. QED
  BY <1>4, <1>5, <1>6, <1>7, <1>8, <1>9

\* allocate() in a new chunk: no living block is in its buffer.
LEMMA ChunkStep ==
  ASSUME StackAllocInv, NEW n \in Requests, NEW c \in Buffers,
         allocateChunk(n, c)
  PROVE  StackAllocInv'
<1> USE DEF StackAllocInv
<1>0. n \in Nat /\ Size \in Nat /\ n <= Size /\ c \in Nat /\ c \notin Chunks
  BY SizeAssumption, BuffersAssumption, RequestsAssumption
     DEF allocateChunk
<1>a. top' = c + n /\ max' = c + Size /\ UNCHANGED <<marks, aborted>>
  BY DEF allocateChunk
<1>1. Block(c, n) \in Blocks
  BY <1>0 DEF Block, Blocks
<1>2. /\ granted' \in Seq(Blocks)
      /\ Len(granted') = Len(granted) + 1
      /\ \A i \in 1 .. Len(granted) : granted'[i] = granted[i]
      /\ granted'[Len(granted) + 1] = Block(c, n)
  BY <1>1 DEF allocateChunk, TypeOK
<1>b. granted'[Len(granted) + 1].at = c /\ End(Block(c, n)) = c + n
  BY <1>2 DEF Block, End
<1>3. /\ stack' \in Seq(Buffers)
      /\ Len(stack') = Len(stack) + 1 /\ stack'[1] = c
      /\ \A i \in 2 .. Len(stack) + 1 : stack'[i] = stack[i - 1]
  BY DEF allocateChunk, TypeOK
<1>4. Chunks' = Chunks \union {c}
  <2>1. ASSUME NEW x \in Chunks PROVE x \in Chunks'
    <3>1. PICK i \in 1 .. Len(stack) : x = stack[i]
      BY DEF Chunks
    <3>2. /\ i + 1 \in 1 .. Len(stack') /\ i + 1 \in 2 .. Len(stack) + 1
          /\ (i + 1) - 1 = i
      BY <1>3, Elements
    <3>3. QED
      BY <1>3, <3>1, <3>2 DEF Chunks
  <2>2. c \in Chunks'
    BY <1>3, Elements DEF Chunks
  <2>3. ASSUME NEW x \in Chunks' PROVE x \in Chunks \union {c}
    <3>1. PICK i \in 1 .. Len(stack') : x = stack'[i]
      BY DEF Chunks
    <3>2. i = 1 \/ (i - 1 \in 1 .. Len(stack) /\ x = stack[i - 1])
      BY <1>3, <3>1, Elements
    <3>3. QED
      BY <1>3, <3>1, <3>2 DEF Chunks
  <2>4. QED
    BY <2>1, <2>2, <2>3
<1>5. TypeOK'
  BY <1>0, <1>2, <1>3, <1>a DEF TypeOK
<1>6. StackInv'
  <2> SUFFICES ASSUME NEW i \in 1 .. Len(stack'), NEW j \in 1 .. Len(stack'),
                      stack'[i] = stack'[j]
               PROVE  i = j
    BY DEF StackInv
  <2>1. /\ i = 1 \/ (i - 1 \in 1 .. Len(stack) /\ stack'[i] = stack[i - 1])
        /\ j = 1 \/ (j - 1 \in 1 .. Len(stack) /\ stack'[j] = stack[j - 1])
    BY <1>3, Elements
  <2>2. CASE i = 1 \/ j = 1
    BY <1>0, <1>3, <2>1, <2>2 DEF Chunks
  <2>3. CASE i # 1 /\ j # 1
    <3>1. i - 1 = j - 1
      BY <2>1, <2>3 DEF StackInv
    <3>2. QED
      BY <1>3, <3>1, Elements
  <2>4. QED
    BY <2>2, <2>3
<1>7. TopInv'
  BY <1>0, <1>3, <1>a DEF TopInv
<1>8. ASSUME NEW i \in 1 .. Len(granted)
      PROVE  /\ granted[i].at \notin c .. c + Size
             /\ End(granted[i]) <= c \/ c + n <= granted[i].at
  <2>1. PICK d \in Chunks :
          d <= granted[i].at /\ End(granted[i]) <= d + Size
    BY DEF BlocksInChunks
  <2>2. /\ d \in Buffers /\ d \in Nat /\ d # c
        /\ granted[i].at \in Nat /\ granted[i].size \in Nat
    BY <1>0, Elements
  <2>3. End(granted[i]) \in Nat /\ granted[i].at <= End(granted[i])
    BY <2>2 DEF End
  <2>4. QED
    BY <1>0, <2>1, <2>2, <2>3, Apart
<1>9. BelowInv'
  <2> SUFFICES ASSUME NEW i \in 1 .. Len(granted'),
                      granted'[i].at \in c .. c + Size
               PROVE  End(granted'[i]) <= c + n
    BY <1>3, <1>a DEF BelowInv
  <2>1. i = Len(granted) + 1
    BY <1>2, <1>8, Elements
  <2>2. QED
    BY <1>0, <1>2, <1>b, <2>1
<1>10. BlocksInChunks'
  <2> SUFFICES ASSUME NEW i \in 1 .. Len(granted')
               PROVE  \E d \in Chunks' : /\ d <= granted'[i].at
                                         /\ End(granted'[i]) <= d + Size
    BY DEF BlocksInChunks
  <2>1. CASE i \in 1 .. Len(granted)
    BY <1>2, <1>4, <2>1 DEF BlocksInChunks
  <2>2. CASE i = Len(granted) + 1
    BY <1>0, <1>2, <1>4, <1>b, <2>2
  <2>3. QED
    BY <1>2, <2>1, <2>2, Elements
<1>11. BlocksDisjoint'
  <2> SUFFICES ASSUME NEW i \in 1 .. Len(granted'),
                      NEW j \in 1 .. Len(granted'), i < j
               PROVE  \/ End(granted'[i]) <= granted'[j].at
                      \/ End(granted'[j]) <= granted'[i].at
    BY DEF BlocksDisjoint
  <2>1. i \in 1 .. Len(granted)
    BY <1>2, Elements
  <2>2. CASE j \in 1 .. Len(granted)
    BY <1>2, <2>1, <2>2 DEF BlocksDisjoint
  <2>3. CASE j = Len(granted) + 1
    BY <1>2, <1>8, <1>b, <2>1, <2>3
  <2>4. QED
    BY <1>2, <2>2, <2>3, Elements
<1>12. MarksInv'
  BY <1>2, <1>4, <1>8, <1>a, GrantedKept
<1>13. QED
  BY <1>5, <1>6, <1>7, <1>9, <1>10, <1>11, <1>12

\* mark() remembers top, which is after the blocks of its chunk.
LEMMA MarkStep ==
  ASSUME StackAllocInv, mark
  PROVE  StackAllocInv'
<1> USE DEF StackAllocInv
<1>0. top \in Nat /\ Size \in Nat /\ [pos |-> top, n |-> Len(granted)] \in Marks
  BY Elements, SizeAssumption DEF TypeOK, Marks
<1>1. /\ marks' \in Seq(Marks)
      /\ Len(marks') = Len(marks) + 1
      /\ \A m \in 1 .. Len(marks) : marks'[m] = marks[m]
      /\ marks'[Len(marks) + 1] = [pos |-> top, n |-> Len(granted)]
  BY <1>0 DEF mark, TypeOK
<1>2. UNCHANGED <<stack, top, max, granted, aborted>> /\ Chunks' = Chunks
  BY DEF mark, Chunks
<1>3. TypeOK'
  BY <1>1, <1>2 DEF TypeOK
<1>4. /\ StackInv' /\ TopInv' /\ BelowInv' /\ BlocksInChunks'
      /\ BlocksDisjoint'
  BY <1>2 DEF StackInv, TopInv, BelowInv, BlocksInChunks, BlocksDisjoint
<1>5. ASSUME NEW i \in 1 .. Len(granted), NEW c \in Chunks,
             Inside(top, c), granted[i].at \in c .. c + Size
      PROVE  End(granted[i]) <= top
  <2>1. stack # <<>> /\ c \in Buffers /\ c \in Nat
    BY Elements DEF Chunks, TypeOK
  <2>2. stack[1] \in Buffers /\ stack[1] \in Nat
    BY <2>1, Elements
  <2>3. top \in c .. c + Size /\ top \in stack[1] .. stack[1] + Size
    BY <1>0, <1>5, <2>1, <2>2 DEF TopInv, TypeOK, Inside
  <2>4. c = stack[1]
    BY <1>0, <2>1, <2>2, <2>3, OneChunk
  <2>5. QED
    BY <1>5, <2>1, <2>4 DEF BelowInv
<1>6. MarksInv'
  <2> SUFFICES ASSUME NEW m \in 1 .. Len(marks')
               PROVE  /\ marks'[m].n <= Len(granted)
                      /\ \A k \in 1 .. m : marks'[k].n <= marks'[m].n
                      /\ \A i \in 1 .. marks'[m].n, c \in Chunks :
                           Inside(marks'[m].pos, c)
                           /\ granted[i].at \in c .. c + Size
                             => End(granted[i]) <= marks'[m].pos
    BY <1>2 DEF MarksInv
  <2>1. CASE m \in 1 .. Len(marks)
    <3>1. \A k \in 1 .. m : k \in 1 .. Len(marks)
      BY <2>1, Elements
    <3>2. \A k \in 1 .. m : marks'[k] = marks[k]
      BY <1>1, <3>1
    <3>3. marks'[m] = marks[m]
      BY <1>1, <2>1
    <3>4. QED
      BY <2>1, <3>2, <3>3 DEF MarksInv
  <2>2. CASE m = Len(marks) + 1
    <3>1. marks'[m].n = Len(granted) /\ marks'[m].pos = top
      BY <1>1, <2>2
    <3>2. \A k \in 1 .. m : k = m \/ k \in 1 .. Len(marks)
      BY <2>2, Elements
    <3>3. ASSUME NEW k \in 1 .. m PROVE marks'[k].n <= marks'[m].n
      <4>1. CASE k = m
        BY <3>1, <4>1, Elements
      <4>2. CASE k \in 1 .. Len(marks)
        BY <1>1, <3>1, <4>2 DEF MarksInv
      <4>3. QED
        BY <3>2, <4>1, <4>2
    <3>4. QED
      BY <1>5, <3>1, <3>3, Elements
  <2>3. QED
    BY <1>1, <2>1, <2>2, Elements
<1>7. QED
  BY <1>3, <1>4, <1>6

\* A mark of the current chunk leaves the stack of chunks as it is.
LEMMA ReleaseHere ==
  ASSUME StackAllocInv, SameChunk, NEW i \in 1 .. Len(marks), release(i)
  PROVE  /\ stack # <<>> /\ stack' = stack /\ top' = marks[i].pos
         /\ Inside(marks[i].pos, stack[1])
         /\ UNCHANGED <<max, aborted>>
         /\ granted' = SubSeq(granted, 1, marks[i].n)
         /\ marks' = SubSeq(marks, 1, i)
<1> USE DEF StackAllocInv
<1>1. stack # <<>> /\ Inside(marks[i].pos, Head(stack))
  BY DEF release
<1>2. Head(stack) = stack[1] /\ 1 \in 1 .. Len(stack)
  BY <1>1 DEF TypeOK
<1>3. FirstHolding(marks[i].pos) = {1}
  BY <1>1, <1>2, Elements DEF FirstHolding
<1>4. SubSeq(stack, 1, Len(stack)) = stack
  BY DEF TypeOK
<1>5. QED
  BY <1>1, <1>2, <1>3, <1>4 DEF release

\* release() in the current chunk: the blocks that stay are before the mark.
LEMMA ReleaseStep ==
  ASSUME StackAllocInv, SameChunk, NEW i \in 1 .. Len(marks), release(i)
  PROVE  StackAllocInv'
<1> USE DEF StackAllocInv
<1>0. /\ marks[i].n \in Nat /\ marks[i].pos \in Nat
      /\ marks[i].n <= Len(granted) /\ i \in Nat /\ i <= Len(marks)
  BY Elements DEF MarksInv
<1>a. /\ granted' = SubSeq(granted, 1, marks[i].n)
      /\ marks' = SubSeq(marks, 1, i)
      /\ UNCHANGED <<stack, max, aborted>> /\ stack # <<>>
      /\ top' = marks[i].pos /\ Inside(marks[i].pos, stack[1])
  BY ReleaseHere
<1>1. /\ Len(granted') = marks[i].n
      /\ \A k \in 1 .. marks[i].n : granted'[k] = granted[k]
      /\ granted' \in Seq(Blocks)
      /\ \A k \in 1 .. marks[i].n : k \in 1 .. Len(granted)
  <2>1. \A k \in 1 .. marks[i].n : k \in 1 .. Len(granted)
    BY <1>0, Elements
  <2>2. granted \in Seq(Blocks)
    BY DEF TypeOK
  <2>3. QED
    BY <1>0, <1>a, <2>1, <2>2, Prefix
<1>2. /\ Len(marks') = i
      /\ \A k \in 1 .. i : marks'[k] = marks[k]
      /\ marks' \in Seq(Marks)
  <2>1. marks \in Seq(Marks)
    BY DEF TypeOK
  <2>2. QED
    BY <1>0, <1>a, <2>1, Prefix
<1>3. Chunks' = Chunks
  BY <1>a DEF Chunks
<1>4. TypeOK'
  BY <1>0, <1>1, <1>2, <1>a DEF TypeOK
<1>5. StackInv'
  BY <1>a DEF StackInv
<1>6. stack[1] \in Chunks /\ stack[1] \in Nat /\ Size \in Nat
  BY <1>a, Elements, SizeAssumption DEF Chunks
<1>7. TopInv'
  BY <1>0, <1>6, <1>a DEF TopInv, Inside
<1>8. BelowInv'
  BY <1>0, <1>1, <1>6, <1>a DEF BelowInv, MarksInv
<1>9. BlocksInChunks'
  BY <1>1, <1>3 DEF BlocksInChunks
<1>10. BlocksDisjoint'
  BY <1>1 DEF BlocksDisjoint
<1>11. MarksInv'
  <2> SUFFICES ASSUME NEW m \in 1 .. i
               PROVE  /\ marks'[m].n <= marks[i].n
                      /\ \A k \in 1 .. m : marks'[k].n <= marks'[m].n
                      /\ \A k \in 1 .. marks'[m].n, c \in Chunks :
                           Inside(marks'[m].pos, c)
                           /\ granted'[k].at \in c .. c + Size
                             => End(granted'[k]) <= marks'[m].pos
    BY <1>1, <1>2, <1>3 DEF MarksInv
  <2>1. /\ marks'[m] = marks[m] /\ marks[m].n \in Nat
        /\ m \in 1 .. Len(marks)
        /\ \A k \in 1 .. m : k \in 1 .. i
    BY <1>0, <1>2, Elements
  <2>2. marks[m].n <= marks[i].n
    BY DEF MarksInv
  <2>3. \A k \in 1 .. marks[m].n : k \in 1 .. marks[i].n
    BY <1>0, <2>1, <2>2
  <2>4. \A k \in 1 .. m : marks'[k].n <= marks'[m].n
    BY <1>2, <2>1 DEF MarksInv
  <2>5. ASSUME NEW k \in 1 .. marks'[m].n, NEW c \in Chunks,
               Inside(marks'[m].pos, c), granted'[k].at \in c .. c + Size
        PROVE  End(granted'[k]) <= marks'[m].pos
    <3>1. k \in 1 .. marks[m].n /\ granted'[k] = granted[k]
      BY <1>1, <2>1, <2>3
    <3>2. QED
      BY <2>1, <2>5, <3>1 DEF MarksInv
  <2>6. QED
    BY <2>1, <2>2, <2>4, <2>5
<1>12. QED
  BY <1>4, <1>5, <1>7, <1>8, <1>9, <1>10, <1>11

\* clear() leaves nothing the invariant speaks of.
LEMMA ClearStep ==
  ASSUME StackAllocInv, clear
  PROVE  StackAllocInv'
<1>1. TypeOK'
  BY DEF StackAllocInv, clear, TypeOK
<1>2. /\ StackInv' /\ TopInv' /\ BelowInv' /\ MarksInv' /\ BlocksInChunks'
      /\ BlocksDisjoint'
  BY DEF clear, StackInv, TopInv, BelowInv, MarksInv, BlocksInChunks,
         BlocksDisjoint
<1>3. QED
  BY <1>1, <1>2 DEF StackAllocInv

\* The invariant is inductive when only marks of the current chunk are
\* released.
LEMMA StackAllocInductive ==
  ASSUME SameChunk, StackAllocInv, [Next]_vars
  PROVE  StackAllocInv'
<1>1. CASE Next
  BY <1>1, TopStep, ChunkStep, MarkStep, ReleaseStep, ClearStep DEF Next
<1>2. CASE UNCHANGED vars
  <2>1. Chunks' = Chunks
    BY <1>2 DEF Chunks, vars
  <2>2. QED
    BY <1>2, <2>1 DEF vars, StackAllocInv, TypeOK, StackInv, TopInv, BelowInv,
         MarksInv, BlocksInChunks, BlocksDisjoint
<1>3. QED
  BY <1>1, <1>2

\* Living blocks never leave their chunks and no byte of one is given twice
\* (StackAllocator::allocate, release, clear), for an application that
\* releases only marks of the current chunk.
THEOREM BlocksStaySound ==
  ASSUME SameChunk PROVE Spec => []BlocksSound
<1>1. Init => StackAllocInv
  BY InitInv
<1>2. StackAllocInv /\ [Next]_vars => StackAllocInv'
  BY StackAllocInductive
<1>3. StackAllocInv => BlocksSound
  BY DEF StackAllocInv, BlocksSound
<1>4. QED
  BY <1>1, <1>2, <1>3, PTL DEF Spec

-----------------------------------------------------------------------------
\* A granted block leaves the marks on the ends of their blocks.
LEMMA MarkEndsKept ==
  ASSUME StackAllocInv, MarkEndInv, marks' = marks,
         \A i \in 1 .. Len(granted) : granted'[i] = granted[i]
  PROVE  MarkEndInv'
<1>1. \A m \in 1 .. Len(marks) :
        marks[m].n \in Nat /\ marks[m].n <= Len(granted)
  BY Elements DEF StackAllocInv, MarksInv
<1>2. Len(granted) \in Nat
  BY Elements DEF StackAllocInv
<1>3. QED
  BY <1>1, <1>2 DEF MarkEndInv

\* The ends of the blocks are kept by every step, when the marks are taken
\* inside the chunks.
LEMMA EndStep ==
  ASSUME SameChunk, MarkInside, StackAllocInv, EndInv, Next
  PROVE  EndInv'
<1> USE DEF EndInv
<1>0. granted \in Seq(Blocks) /\ marks \in Seq(Marks)
  BY DEF StackAllocInv, TypeOK
<1>1. ASSUME NEW n \in Requests, allocateTop(n) PROVE EndInv'
  <2>1. /\ Len(granted') = Len(granted) + 1 /\ top' = top + n
        /\ \A i \in 1 .. Len(granted) : granted'[i] = granted[i]
        /\ granted'[Len(granted) + 1] = Block(top, n) /\ marks' = marks
    BY <1>0, <1>1 DEF allocateTop
  <2>2. granted' # <<>>
    BY <1>0, <2>1
  <2>3. QED
    BY <2>1, <2>2, MarkEndsKept DEF TopIsEndOfLast, Block, End
<1>2. ASSUME NEW n \in Requests, NEW c \in Buffers, allocateChunk(n, c)
      PROVE  EndInv'
  <2>1. /\ Len(granted') = Len(granted) + 1 /\ top' = c + n
        /\ \A i \in 1 .. Len(granted) : granted'[i] = granted[i]
        /\ granted'[Len(granted) + 1] = Block(c, n) /\ marks' = marks
    BY <1>0, <1>2 DEF allocateChunk
  <2>2. granted' # <<>>
    BY <1>0, <2>1
  <2>3. QED
    BY <2>1, <2>2, MarkEndsKept DEF TopIsEndOfLast, Block, End
<1>3. ASSUME mark PROVE EndInv'
  <2>1. UNCHANGED <<stack, top, granted>> /\ stack # <<>>
    BY <1>3 DEF mark
  <2>2. /\ Len(marks') = Len(marks) + 1
        /\ \A m \in 1 .. Len(marks) : marks'[m] = marks[m]
        /\ marks'[Len(marks) + 1] = [pos |-> top, n |-> Len(granted)]
    BY <1>0, <1>3 DEF mark
  <2>3. Len(granted) > 0 /\ top = End(granted[Len(granted)])
    BY <1>0, <2>1 DEF TopIsEndOfLast
  <2>4. ASSUME NEW m \in 1 .. Len(marks')
        PROVE  marks'[m].n > 0 /\ marks'[m].pos = End(granted[marks'[m].n])
    <3>1. CASE m \in 1 .. Len(marks)
      BY <2>2, <3>1 DEF MarkEndInv
    <3>2. CASE m = Len(marks) + 1
      BY <2>2, <2>3, <3>2
    <3>3. QED
      BY <1>0, <2>2, <3>1, <3>2
  <2>5. QED
    BY <2>1, <2>4 DEF MarkEndInv, TopIsEndOfLast
<1>4. ASSUME NEW i \in 1 .. Len(marks), release(i) PROVE EndInv'
  <2>1. /\ granted' = SubSeq(granted, 1, marks[i].n)
        /\ marks' = SubSeq(marks, 1, i) /\ top' = marks[i].pos
    BY <1>4, ReleaseHere
  <2>2. /\ marks[i].n \in Nat /\ marks[i].n <= Len(granted)
        /\ i \in Nat /\ i <= Len(marks)
        /\ marks[i].n > 0 /\ marks[i].pos = End(granted[marks[i].n])
    BY Elements DEF StackAllocInv, MarksInv, MarkEndInv
  <2>3. /\ Len(granted') = marks[i].n
        /\ \A k \in 1 .. marks[i].n : granted'[k] = granted[k]
    BY <1>0, <2>1, <2>2, Prefix
  <2>4. /\ Len(marks') = i
        /\ \A k \in 1 .. i : marks'[k] = marks[k] /\ k \in 1 .. Len(marks)
    BY <1>0, <2>1, <2>2, Prefix
  <2>5. granted' # <<>> /\ top' = End(granted'[Len(granted')])
    BY <2>1, <2>2, <2>3
  <2>6. ASSUME NEW k \in 1 .. i
        PROVE  marks[k].n > 0 /\ marks[k].pos = End(granted'[marks[k].n])
    <3>1. marks[k].n \in Nat /\ marks[k].n <= marks[i].n
      BY Elements, <2>2, <2>4 DEF StackAllocInv, MarksInv
    <3>2. marks[k].n > 0 /\ marks[k].pos = End(granted[marks[k].n])
      BY <2>4 DEF MarkEndInv
    <3>3. granted'[marks[k].n] = granted[marks[k].n]
      BY <2>2, <2>3, <3>1, <3>2
    <3>4. QED
      BY <3>2, <3>3
  <2>7. QED
    BY <2>4, <2>5, <2>6 DEF MarkEndInv, TopIsEndOfLast
<1>5. ASSUME clear PROVE EndInv'
  BY <1>5 DEF clear, MarkEndInv, TopIsEndOfLast
<1>6. QED
  BY <1>1, <1>2, <1>3, <1>4, <1>5 DEF Next

\* release() recovers every byte granted after the mark, and clear() all of
\* them: the next block of a chunk is right behind the youngest living one.
\* For an application that takes marks inside the chunks and releases those
\* of the current chunk.
THEOREM NoByteLost ==
  ASSUME SameChunk, MarkInside PROVE Spec => []TopIsEndOfLast
<1>1. Init => StackAllocInv /\ EndInv
  <2>1. Init => StackAllocInv
    BY InitInv
  <2>2. Init => EndInv
    BY DEF Init, EndInv, MarkEndInv, TopIsEndOfLast
  <2>3. QED
    BY <2>1, <2>2
<1>2. StackAllocInv /\ EndInv /\ [Next]_vars => StackAllocInv' /\ EndInv'
  <2> SUFFICES ASSUME StackAllocInv, EndInv, [Next]_vars
               PROVE  StackAllocInv' /\ EndInv'
    OBVIOUS
  <2>1. StackAllocInv'
    BY StackAllocInductive
  <2>2. CASE Next
    BY <2>1, <2>2, EndStep
  <2>3. CASE UNCHANGED vars
    BY <2>1, <2>3 DEF vars, EndInv, MarkEndInv, TopIsEndOfLast
  <2>4. QED
    BY <2>2, <2>3
<1>3. EndInv => TopIsEndOfLast
  BY DEF EndInv
<1>4. QED
  BY <1>1, <1>2, <1>3, PTL DEF Spec
=============================================================================
