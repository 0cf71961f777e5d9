---------------------------- MODULE SystemProofs ----------------------------
(***************************************************************************)
(* Proofs about the wrappers of the system: processes and pipes, threads   *)
(* and mutexes, sockets.                                                   *)
(***************************************************************************)
EXTENDS Process, FiniteSetTheorems, NaturalsInduction, WellFoundedInduction, TLAPS

-----------------------------------------------------------------------------
(* Processes and pipes, in a program with one thread.                      *)

\* What a descriptor may designate.
Files ==
  {Tty(k) : k \in Std} \union {Closed}
    \union {End(e, u, n) : e \in {"r", "w"}, u \in Threads, n \in Nat}

Kids == [state : {"none", "forked", "ended", "reaped"}, std : [Std -> Files],
         held : SUBSET Files, code : {0, 1}]

Places == {"idle", "cloexec", "piped", "in", "out", "err", "fork", "restore",
           "built", "baseBuilt", "basePiped"}

\* The types of the variables.
ProcessTyped ==
  /\ fds \in [Fds -> Files] /\ cloexec \subseteq Fds
  /\ errno \in [Threads -> BOOLEAN] /\ pc \in [Threads -> Places]
  /\ runs \in [Threads -> Nat]
  /\ rfd \in [Threads -> Fds \union {NoFd}] /\ wfd \in [Threads -> Fds \union {NoFd}]
  /\ want \in [Threads -> [Std -> {"std", "r", "w"}]]
  /\ old \in [Threads -> [Std -> Fds \union {NoFd}]]
  /\ error \in [Threads -> BOOLEAN]
  /\ kid \in [Threads -> Kids] /\ pid \in [Threads -> BOOLEAN]
  /\ rcode \in [Threads -> {0, 1}] /\ waitFault \in BOOLEAN

\* The table of the descriptors while run() has replaced the standard ones,
\* those of K being back: what was replaced is kept in old, and nothing else
\* is open than that and the streams.
TableOk(t, table, K) ==
  /\ \A k \in Std :
       IF k \in K \/ old[t][k] = NoFd THEN table[k] = Tty(k)
       ELSE /\ old[t][k] \notin Std /\ table[old[t][k]] = Tty(k)
            /\ want[t][k] # "std" /\ table[k] = End(want[t][k], t, runs[t])
  /\ \A f \in Fds \ Std : table[f] # Closed =>
       \/ f \in {rfd[t], wfd[t]}
       \/ \E k \in Std \ K : old[t][k] = f
  /\ rfd[t] # NoFd =>
       rfd[t] \notin Std /\ table[rfd[t]] = End("r", t, runs[t])
  /\ wfd[t] # NoFd =>
       /\ wfd[t] \notin Std /\ wfd[t] # rfd[t]
       /\ table[wfd[t]] = IF pc[t] \in {"baseBuilt", "basePiped"} THEN Closed
                          ELSE End("w", t, runs[t])

\* Before and during run() both streams exist; the descriptors that run() has
\* not come to are not replaced.
RunOk(t) ==
  /\ pc[t] \in {"cloexec", "piped", "in", "out", "err", "fork", "restore",
                "basePiped", "baseBuilt"} => wfd[t] # NoFd
  /\ pc[t] \in {"cloexec", "piped", "in", "out", "err", "fork", "restore"} =>
       rfd[t] # NoFd
  /\ pc[t] = "idle" => wfd[t] = NoFd
  /\ pc[t] = "in" => \A k \in Std : old[t][k] = NoFd
  /\ pc[t] = "out" => \A k \in {1, 2} : old[t][k] = NoFd
  /\ pc[t] = "err" => old[t][2] = NoFd

\* The object has a pid exactly as long as it does not know the end of its
\* process, and none before the fork.
PidOk(t) ==
  /\ pid[t] <=> kid[t].state \in {"forked", "ended"}
  /\ kid[t].state = "reaped" => rcode[t] = kid[t].code
  /\ pc[t] \in {"idle", "cloexec", "piped", "in", "out", "err", "fork", "basePiped"}
       => ~pid[t]
  /\ pc[t] = "restore" /\ error[t] => ~pid[t]

\* The inductive invariant, whatever the number of threads.
ThreadInv ==
  /\ ProcessTyped /\ ~waitFault
  /\ \A t \in Threads : RunOk(t) /\ PidOk(t)

\* A process that runs has the writing end only if it was asked to: exec
\* closes that of the stream.
HeldOk(t) ==
  /\ pc[t] \in {"piped", "in", "out", "err", "fork", "restore"} =>
       wfd[t] \in cloexec
  /\ kid[t].state # "forked" => kid[t].held = {}
  /\ End("w", t, runs[t]) \in kid[t].held => \E k \in Std : want[t][k] = "w"

\* The inductive invariant of a program with one thread.
ProcessInv(t) ==
  /\ ThreadInv
  /\ TableOk(t, fds, IF InRun(t) THEN {} ELSE Std)
  /\ HeldOk(t)

\* A set of natural numbers has a least element, which Lowest() returns.
LEMMA LowestIn ==
  ASSUME NEW S \in SUBSET Nat, S # {}
  PROVE  Lowest(S) \in S
<1>. DEFINE R == OpToRel(<, Nat)
<1>1. IsWellFoundedOn(R, Nat)
  BY NatLessThanWellFounded
<1>2. \A x, y \in Nat : y < x => <<y, x>> \in R
  BY DEF OpToRel
<1>. HIDE DEF R
<1>3. PICK x \in S : \A y \in S : ~(<<y, x>> \in R)
  BY <1>1, WFMin
<1>4. ASSUME NEW y \in S PROVE x <= y
  <2>1. x \in Nat /\ y \in Nat /\ ~(y < x)
    BY <1>2, <1>3
  <2>. QED
    BY <2>1
<1>. QED
  BY <1>4 DEF Lowest

\* The open files are told apart.
LEMMA FilesDiffer ==
  /\ \A k, j : Tty(k) = Tty(j) => k = j
  /\ \A k : Tty(k) # Closed
  /\ \A e \in {"r", "w"} : \A u, n : End(e, u, n) # Closed
  /\ \A e \in {"r", "w"} : \A u, n, k : End(e, u, n) # Tty(k)
  /\ \A u, n, v, m : End("r", u, n) # End("w", v, m)
  BY DEF Tty, End, Closed

\* The standard descriptors are descriptors, and NoFd is none.
LEMMA FdsAre ==
  ASSUME Parameters
  PROVE  Std \subseteq Fds /\ NoFd \notin Fds /\ Fds \in SUBSET Nat
         /\ 0 \in Std /\ 1 \in Std /\ 2 \in Std /\ Std = {0, 1, 2}
  BY DEF Parameters, Std, Fds, NoFd

LEMMA FilesAre ==
  /\ \A k \in Std : Tty(k) \in Files
  /\ Closed \in Files
  /\ \A e \in {"r", "w"}, u \in Threads, n \in Nat : End(e, u, n) \in Files
  BY DEF Files

\* Where two descriptors are free, pipe() takes two different ones.
LEMMA TwoFree ==
  ASSUME Parameters, Cardinality(Free) >= 2
  PROVE  /\ Lowest(Free) \in Free
         /\ Lowest(Free \ {Lowest(Free)}) \in Free
         /\ Lowest(Free \ {Lowest(Free)}) # Lowest(Free)
<1>1. Free \in SUBSET Nat
  BY FdsAre DEF Free
<1>2. IsFiniteSet(Free)
  <2>1. IsFiniteSet(Fds)
    BY FS_Interval DEF Parameters, Fds
  <2>. QED
    BY <2>1, FS_Subset DEF Free
<1>3. Free # {}
  BY FS_EmptySet
<1>4. Lowest(Free) \in Free
  BY <1>1, <1>3, LowestIn
<1>5. Free \ {Lowest(Free)} # {}
  <2>1. Cardinality(Free \ {Lowest(Free)}) = Cardinality(Free) - 1
    BY <1>2, <1>4, FS_RemoveElement
  <2>2. Cardinality(Free) \in Nat
    BY <1>2, FS_CardinalityType
  <2>. QED
    BY <2>1, <2>2, FS_EmptySet
<1>6. Lowest(Free \ {Lowest(Free)}) \in Free \ {Lowest(Free)}
  BY <1>1, <1>5, LowestIn
<1>. QED
  BY <1>4, <1>6

\* A restoration brings one more standard descriptor back.
LEMMA RestoredTable ==
  ASSUME Parameters, NEW t \in Threads, ProcessTyped,
         NEW table \in [Fds -> Files], NEW K \in SUBSET Std, NEW k \in Std \ K,
         TableOk(t, table, K)
  PROVE  /\ Restored(t, k, table) \in [Fds -> Files]
         /\ TableOk(t, Restored(t, k, table), K \union {k})
<1>. DEFINE o == old[t][k]
            new == Restored(t, k, table)
<1>1. k \in Fds /\ k # NoFd /\ o \in Fds \union {NoFd}
  BY FdsAre DEF ProcessTyped
<1>2. CASE o = NoFd
  <2>1. new = table
    BY <1>2 DEF Restored
  <2>2. table[k] = Tty(k) /\ \A f \in Fds : old[t][k] # f
    BY <1>2, FdsAre DEF TableOk
  <2>3. TableOk(t, table, K \union {k})
    BY <2>2 DEF TableOk
  <2>. QED
    BY <2>1, <2>3
<1>3. CASE o # NoFd
  <2>1. o \in Fds \ Std /\ table[o] = Tty(k)
    BY <1>1, <1>3 DEF TableOk
  <2>2. new = [table EXCEPT ![k] = Tty(k), ![o] = Closed]
    BY <1>3, <2>1 DEF Restored
  <2>. HIDE DEF new
  <2>3. /\ new \in [Fds -> Files] /\ new[k] = Tty(k) /\ new[o] = Closed
        /\ \A f \in Fds : f # k /\ f # o => new[f] = table[f]
    BY <1>1, <2>1, <2>2, FilesAre
  <2>4. \A j \in Std : IF j \in K \union {k} \/ old[t][j] = NoFd THEN new[j] = Tty(j)
          ELSE /\ old[t][j] \notin Std /\ new[old[t][j]] = Tty(j)
               /\ want[t][j] # "std" /\ new[j] = End(want[t][j], t, runs[t])
    <3>. SUFFICES ASSUME NEW j \in Std, j # k
                  PROVE  IF j \in K \union {k} \/ old[t][j] = NoFd THEN new[j] = Tty(j)
                         ELSE /\ old[t][j] \notin Std /\ new[old[t][j]] = Tty(j)
                              /\ want[t][j] # "std" /\ new[j] = End(want[t][j], t, runs[t])
      BY <2>3
    <3>1. new[j] = table[j]
      BY <2>1, <2>3, FdsAre
    <3>2. CASE j \in K \/ old[t][j] = NoFd
      BY <3>1, <3>2 DEF TableOk
    <3>3. CASE ~(j \in K \/ old[t][j] = NoFd)
      <4>1. /\ old[t][j] \notin Std /\ table[old[t][j]] = Tty(j)
            /\ want[t][j] # "std" /\ table[j] = End(want[t][j], t, runs[t])
        BY <3>3 DEF TableOk
      <4>2. old[t][j] \in Fds /\ old[t][j] # k /\ old[t][j] # o
        BY <2>1, <3>3, <4>1, FilesDiffer DEF ProcessTyped
      <4>. QED
        BY <2>3, <3>1, <3>3, <4>1, <4>2
    <3>. QED
      BY <3>2, <3>3
  <2>5. ASSUME NEW f \in Fds \ Std, new[f] # Closed
        PROVE  f \in {rfd[t], wfd[t]} \/ \E j \in Std \ (K \union {k}) : old[t][j] = f
    <3>1. f # o /\ table[f] # Closed
      BY <2>3, <2>5
    <3>. QED
      BY <2>5, <3>1 DEF TableOk
  <2>6. rfd[t] # NoFd => rfd[t] \notin Std /\ new[rfd[t]] = End("r", t, runs[t])
    <3>1. rfd[t] # NoFd =>
            rfd[t] \notin Std /\ rfd[t] \in Fds /\ table[rfd[t]] = End("r", t, runs[t])
      BY DEF TableOk, ProcessTyped
    <3>. QED
      BY <2>1, <2>3, <3>1, FilesDiffer
  <2>7. wfd[t] # NoFd =>
          /\ wfd[t] \notin Std /\ wfd[t] # rfd[t]
          /\ new[wfd[t]] = IF pc[t] \in {"baseBuilt", "basePiped"} THEN Closed
                           ELSE End("w", t, runs[t])
    <3>1. wfd[t] # NoFd =>
            /\ wfd[t] \notin Std /\ wfd[t] \in Fds /\ wfd[t] # rfd[t]
            /\ table[wfd[t]] = IF pc[t] \in {"baseBuilt", "basePiped"} THEN Closed
                               ELSE End("w", t, runs[t])
      BY DEF TableOk, ProcessTyped
    <3>. QED
      BY <2>1, <2>3, <3>1, FilesDiffer
  <2>8. TableOk(t, new, K \union {k})
    BY <2>4, <2>5, <2>6, <2>7 DEF TableOk
  <2>. QED
    BY <2>3, <2>8 DEF new
<1>. QED
  BY <1>2, <1>3

LEMMA ProcessTypedInit == Parameters /\ Init => ProcessTyped
<1>. SUFFICES ASSUME Parameters, Init PROVE ProcessTyped
  OBVIOUS
<1>1. fds \in [Fds -> Files]
  BY FilesAre DEF Init
<1>2. NoKid \in Kids
  BY FilesAre DEF NoKid, Kids
<1>. QED
  BY <1>1, <1>2 DEF Init, ProcessTyped, Places

LEMMA ProcessTypedNext ==
  ASSUME Parameters, ProcessTyped, \A u \in Threads : RunOk(u),
         [Next]_vars
  PROVE  ProcessTyped'
<1>1. CASE UNCHANGED vars
  BY <1>1 DEF vars, ProcessTyped
<1>2. ASSUME NEW t \in Threads, Step(t) PROVE ProcessTyped'
  <2>0. /\ {"idle", "cloexec", "piped", "in", "out", "err", "fork", "restore",
            "built", "baseBuilt", "basePiped"} = Places
        /\ \A k \in Std : old[t][k] \in Fds \union {NoFd}
    BY DEF Places, ProcessTyped
  <2>1. CASE pipe(t)
    <3>. DEFINE r == Lowest(Free)
                w == Lowest(Free \ {r})
    <3>1. CASE /\ Cardinality(Free) >= 2
               /\ fds' = [fds EXCEPT ![r] = End("r", t, runs[t] + 1),
                                     ![w] = End("w", t, runs[t] + 1)]
               /\ rfd' = [rfd EXCEPT ![t] = r] /\ wfd' = [wfd EXCEPT ![t] = w]
               /\ runs' = [runs EXCEPT ![t] = @ + 1]
               /\ Goto(t, "cloexec") /\ UNCHANGED errno
      <4>1. r \in Fds /\ w \in Fds
        BY <3>1, TwoFree DEF Free
      <4>. HIDE DEF r, w
      <4>2. runs[t] + 1 \in Nat
        BY DEF ProcessTyped
      <4>3. /\ End("r", t, runs[t] + 1) \in Files
            /\ End("w", t, runs[t] + 1) \in Files
        BY <4>2, FilesAre
      <4>4. fds' \in [Fds -> Files]
        BY <3>1, <4>1, <4>3 DEF ProcessTyped
      <4>. QED
        BY <2>0, <2>1, <3>1, <4>1, <4>2, <4>4 DEF pipe, Goto, ProcessTyped
    <3>2. CASE /\ errno' = [errno EXCEPT ![t] = TRUE]
               /\ UNCHANGED <<fds, rfd, wfd, runs, pc>>
      BY <2>1, <3>2 DEF pipe, ProcessTyped
    <3>. QED
      BY <2>1, <3>1, <3>2 DEF pipe
  <2>2. CASE setCloexec(t)
    <3>1. rfd[t] \in Fds /\ wfd[t] \in Fds
      BY <2>2 DEF setCloexec, RunOk, ProcessTyped
    <3>. QED
      BY <2>0, <2>2, <3>1 DEF setCloexec, Goto, local, ProcessTyped
  <2>3. CASE run(t)
    <3>1. want' \in [Threads -> [Std -> {"std", "r", "w"}]]
      <4>1. PICK i \in {"std", "r"}, o \in {"std", "w"}, e \in {"std", "w"} :
              want' = [want EXCEPT ![t] = [k \in Std |-> <<i, o, e>>[k + 1]]]
        BY <2>3 DEF run
      <4>2. [k \in Std |-> <<i, o, e>>[k + 1]] \in [Std -> {"std", "r", "w"}]
        BY DEF Std
      <4>. QED
        BY <4>1, <4>2 DEF ProcessTyped
    <3>. QED
      BY <2>0, <2>3, <3>1 DEF run, Goto, ProcessTyped
  <2>4. ASSUME NEW k \in Std, NEW here \in {"in", "out", "err"}, NEW next \in Places,
               redirect(t, k, here, next)
        PROVE  ProcessTyped'
    <3>1. pc' \in [Threads -> Places]
      BY <2>4 DEF redirect, Goto, ProcessTyped
    <3>2. CASE UNCHANGED <<fds, cloexec, errno, old, error>>
      BY <2>4, <3>1, <3>2 DEF redirect, ProcessTyped
    <3>3. CASE /\ UNCHANGED <<errno, error>> /\ want[t][k] # "std" /\ Free # {}
               /\ old' = [old EXCEPT ![t][k] = Lowest(Free)]
               /\ fds' = [fds EXCEPT ![Lowest(Free)] = fds[k], ![k] = fds[Target(t, k)]]
               /\ cloexec' = cloexec \ {k, Lowest(Free)}
      <4>1. Lowest(Free) \in Fds /\ k \in Fds
        BY <3>3, LowestIn, FdsAre DEF Free
      <4>2. fds[Target(t, k)] \in Files /\ fds[k] \in Files
        <5>1. rfd[t] \in Fds /\ wfd[t] \in Fds
          BY <2>4 DEF redirect, RunOk, ProcessTyped
        <5>. QED
          BY <4>1, <5>1 DEF Target, ProcessTyped
      <4>3. fds' \in [Fds -> Files]
        BY <3>3, <4>1, <4>2 DEF ProcessTyped
      <4>4. old' \in [Threads -> [Std -> Fds \union {NoFd}]]
        BY <3>3, <4>1 DEF ProcessTyped
      <4>. QED
        BY <2>4, <3>1, <3>3, <4>3, <4>4 DEF redirect, ProcessTyped
    <3>4. CASE /\ error' = [error EXCEPT ![t] = TRUE] /\ errno' = [errno EXCEPT ![t] = TRUE]
               /\ UNCHANGED <<fds, cloexec, old>>
      BY <2>4, <3>1, <3>4 DEF redirect, ProcessTyped
    <3>. QED
      BY <2>4, <3>2, <3>3, <3>4 DEF redirect
  <2>5. CASE fork(t)
    <3>1. pc' \in [Threads -> Places]
      BY <2>0, <2>5 DEF fork, Goto, ProcessTyped
    <3>2. kid' \in [Threads -> Kids]
      <4>. DEFINE new == [state |-> "forked", std |-> [k \in Std |-> fds[k]], code |-> 0,
                          held |-> {fds[f] : f \in Fds \ cloexec}]
      <4>1. new \in Kids
        BY FdsAre DEF Kids, ProcessTyped
      <4>. HIDE DEF new
      <4>2. kid' = kid \/ kid' = [kid EXCEPT ![t] = new]
        BY <2>5 DEF fork, new
      <4>. QED
        BY <4>1, <4>2 DEF ProcessTyped
    <3>3. /\ pid' \in [Threads -> BOOLEAN] /\ errno' \in [Threads -> BOOLEAN]
          /\ error' \in [Threads -> BOOLEAN]
      BY <2>5 DEF fork, ProcessTyped
    <3>. QED
      BY <2>5, <3>1, <3>2, <3>3 DEF fork, ProcessTyped
  <2>6. CASE restore(t)
    <3>1. ASSUME NEW table \in [Fds -> Files], NEW k \in Std
          PROVE  Restored(t, k, table) \in [Fds -> Files]
      <4>1. old[t][k] = NoFd \/ (old[t][k] \in Fds /\ table[old[t][k]] \in Files)
        BY <2>0
      <4>. QED
        BY <4>1, FdsAre, FilesAre DEF Restored
    <3>2. fds' \in [Fds -> Files]
      <4>1. fds \in [Fds -> Files]
        BY DEF ProcessTyped
      <4>. DEFINE a == Restored(t, 0, fds)
                  b == Restored(t, 1, a)
      <4>2. a \in [Fds -> Files]
        BY <3>1, <4>1, FdsAre
      <4>. HIDE DEF a
      <4>3. b \in [Fds -> Files]
        BY <3>1, <4>2, FdsAre
      <4>. HIDE DEF b
      <4>4. Restored(t, 2, b) \in [Fds -> Files]
        BY <3>1, <4>3, FdsAre
      <4>. QED
        BY <2>6, <4>4 DEF restore, a, b
    <3>. QED
      BY <2>0, <2>6, <3>2 DEF restore, Goto, local, ProcessTyped
  <2>7. ASSUME NEW f, Close(t, f)
        PROVE  /\ fds' \in [Fds -> Files] /\ cloexec' \subseteq Fds
               /\ errno' \in [Threads -> BOOLEAN]
    BY <2>7, FilesAre DEF Close, ProcessTyped
  <2>8. CASE deleteOut(t)
    BY <2>0, <2>7, <2>8 DEF deleteOut, Goto, local, ProcessTyped
  <2>9. CASE deleteOutBase(t)
    BY <2>0, <2>7, <2>9 DEF deleteOutBase, Goto, ProcessTyped
  <2>10. CASE deleteIn(t)
    BY <2>0, <2>7, <2>10 DEF deleteIn, Goto, ProcessTyped
  <2>11. CASE wait(t)
    <3>0. kid[t] \in Kids
      BY DEF ProcessTyped
    <3>. DEFINE new == [kid[t] EXCEPT !.state = "reaped"]
    <3>1. kid[t].code \in {0, 1} /\ new \in Kids
      BY <3>0 DEF Kids
    <3>. HIDE DEF new
    <3>2. kid' = [kid EXCEPT ![t] = new]
      BY <2>11 DEF wait, new
    <3>3. kid' \in [Threads -> Kids]
      BY <3>1, <3>2 DEF ProcessTyped
    <3>. QED
      BY <2>11, <3>1, <3>3 DEF wait, Reaped, ProcessTyped
  <2>12. CASE again(t)
    BY <2>0, <2>12 DEF again, Goto, local, ProcessTyped
  <2>13. CASE kidEnds(t)
    <3>0. kid[t] \in Kids
      BY DEF ProcessTyped
    <3>1. PICK c \in {0, 1} : kid' = [kid EXCEPT ![t] =
                      [kid[t] EXCEPT !.state = "ended", !.code = c, !.held = {}]]
      BY <2>13 DEF kidEnds
    <3>2. [kid[t] EXCEPT !.state = "ended", !.code = c, !.held = {}] \in Kids
      BY <3>0 DEF Kids
    <3>3. kid' \in [Threads -> Kids]
      BY <3>1, <3>2 DEF ProcessTyped
    <3>. QED
      BY <2>13, <3>3 DEF kidEnds, ProcessTyped
  <2>. QED
    BY <1>2, <2>0, <2>1, <2>2, <2>3, <2>4, <2>5, <2>6, <2>8, <2>9, <2>10, <2>11, <2>12,
       <2>13, FdsAre DEF Step
<1>. QED
  BY <1>1, <1>2 DEF Next

\* The invariant of any number of threads holds initially...
LEMMA ThreadInvInit == Parameters /\ Init => ThreadInv
<1>. SUFFICES ASSUME Parameters, Init PROVE ThreadInv
  OBVIOUS
<1>1. ProcessTyped
  BY ProcessTypedInit
<1>2. ASSUME NEW t \in Threads PROVE RunOk(t) /\ PidOk(t)
  BY FdsAre DEF Init, NoKid, RunOk, PidOk
<1>. QED
  BY <1>1, <1>2 DEF ThreadInv, Init

\* ...and is kept by every step.
LEMMA ThreadInvNext ==
  ASSUME Parameters, ThreadInv, [Next]_vars
  PROVE  ThreadInv'
<1>1. ProcessTyped'
  BY ProcessTypedNext DEF ThreadInv
<1>2. CASE UNCHANGED vars
  BY <1>1, <1>2 DEF vars, ThreadInv, RunOk, PidOk
<1>3. ASSUME NEW t \in Threads, Step(t)
      PROVE  ~waitFault' /\ \A u \in Threads : RunOk(u)' /\ PidOk(u)'
  <2>0. /\ ~waitFault /\ \A u \in Threads : RunOk(u) /\ PidOk(u)
        /\ ProcessTyped
    BY DEF ThreadInv
  <2>1. CASE pipe(t)
    <3>1. CASE /\ Cardinality(Free) >= 2 /\ Goto(t, "cloexec")
               /\ rfd' = [rfd EXCEPT ![t] = Lowest(Free)]
               /\ wfd' = [wfd EXCEPT ![t] = Lowest(Free \ {Lowest(Free)})]
      <4>1. Lowest(Free) # NoFd /\ Lowest(Free \ {Lowest(Free)}) # NoFd
        BY <3>1, TwoFree, FdsAre DEF Free
      <4>. QED
        BY <2>0, <2>1, <3>1, <4>1 DEF pipe, Goto, RunOk, PidOk, ProcessTyped
    <3>2. CASE UNCHANGED <<fds, rfd, wfd, runs, pc>>
      BY <2>0, <2>1, <3>2 DEF pipe, RunOk, PidOk
    <3>. QED
      BY <2>1, <3>1, <3>2 DEF pipe
  <2>2. CASE setCloexec(t)
    BY <2>0, <2>2 DEF setCloexec, Goto, local, RunOk, PidOk, ProcessTyped
  <2>3. CASE run(t)
    BY <2>0, <2>3, FdsAre DEF run, Goto, RunOk, PidOk, ProcessTyped
  <2>4. CASE redirect(t, 0, "in", "out")
    BY <2>0, <2>4, FdsAre DEF redirect, Goto, RunOk, PidOk, ProcessTyped
  <2>5. CASE redirect(t, 1, "out", "err")
    BY <2>0, <2>5, FdsAre DEF redirect, Goto, RunOk, PidOk, ProcessTyped
  <2>6. CASE redirect(t, 2, "err", "fork")
    BY <2>0, <2>6, FdsAre DEF redirect, Goto, RunOk, PidOk, ProcessTyped
  <2>7. CASE fork(t)
    BY <2>0, <2>7 DEF fork, Goto, RunOk, PidOk, ProcessTyped
  <2>8. CASE restore(t)
    BY <2>0, <2>8 DEF restore, Goto, local, RunOk, PidOk, ProcessTyped
  <2>9. CASE deleteOut(t)
    BY <2>0, <2>9 DEF deleteOut, Goto, local, RunOk, PidOk, ProcessTyped
  <2>10. CASE deleteOutBase(t)
    BY <2>0, <2>10 DEF deleteOutBase, Goto, RunOk, PidOk, ProcessTyped
  <2>11. CASE deleteIn(t)
    BY <2>0, <2>11 DEF deleteIn, RunOk, PidOk, ProcessTyped
  <2>12. CASE wait(t)
    BY <2>0, <2>12 DEF wait, Reaped, RunOk, PidOk, ProcessTyped, Kids
  <2>13. CASE again(t)
    BY <2>0, <2>13 DEF again, Goto, local, RunOk, PidOk, ProcessTyped
  <2>14. CASE kidEnds(t)
    BY <2>0, <2>14 DEF kidEnds, RunOk, PidOk, ProcessTyped, Kids
  <2>. QED
    BY <1>3, <2>1, <2>2, <2>3, <2>4, <2>5, <2>6, <2>7, <2>8, <2>9, <2>10, <2>11, <2>12,
       <2>13, <2>14 DEF Step
<1>. QED
  BY <1>1, <1>2, <1>3 DEF Next, ThreadInv

\* Whatever the threads do, wait(), isAlive() and returnCode() never wait for a
\* process whose end is known, and keep the code of that end.
THEOREM ProcessReapedOnce ==
  ASSUME Parameters PROVE Spec => []ReapedOnce
<1>1. Init => ThreadInv
  BY ThreadInvInit
<1>2. ThreadInv /\ [Next]_vars => ThreadInv'
  BY ThreadInvNext
<1>3. ThreadInv => ReapedOnce
  BY DEF ThreadInv, PidOk, ReapedOnce
<1>. QED
  BY <1>1, <1>2, <1>3, PTL DEF Spec

\* The table stays right when nothing it speaks of changes.
LEMMA TableSame ==
  ASSUME NEW t, TableOk(t, fds, IF InRun(t) THEN {} ELSE Std),
         UNCHANGED <<fds, old, want, runs, rfd, wfd>>,
         InRun(t)' <=> InRun(t),
         pc'[t] \in {"baseBuilt", "basePiped"} <=> pc[t] \in {"baseBuilt", "basePiped"}
  PROVE  TableOk(t, fds, IF InRun(t) THEN {} ELSE Std)'
  BY DEF TableOk

\* In a program with one thread the table of descriptors stays right.
LEMMA TableNext ==
  ASSUME Parameters, NEW t \in Threads, ProcessInv(t), Step(t), ThreadInv'
  PROVE  TableOk(t, fds, IF InRun(t) THEN {} ELSE Std)'
<1>0. /\ ProcessTyped /\ RunOk(t) /\ PidOk(t) /\ ProcessTyped' /\ RunOk(t)'
      /\ TableOk(t, fds, IF InRun(t) THEN {} ELSE Std)
  BY DEF ProcessInv, ThreadInv
<1>1. CASE pipe(t)
  <2>. DEFINE r == Lowest(Free)
              w == Lowest(Free \ {r})
  <2>1. CASE /\ Cardinality(Free) >= 2
             /\ fds' = [fds EXCEPT ![r] = End("r", t, runs[t] + 1),
                                   ![w] = End("w", t, runs[t] + 1)]
             /\ rfd' = [rfd EXCEPT ![t] = r] /\ wfd' = [wfd EXCEPT ![t] = w]
             /\ runs' = [runs EXCEPT ![t] = @ + 1]
             /\ Goto(t, "cloexec")
    <3>1. /\ r \in Fds /\ w \in Fds /\ r # w
          /\ fds[r] = Closed /\ fds[w] = Closed
      BY <2>1, TwoFree DEF Free
    <3>. HIDE DEF r, w
    <3>2. ~InRun(t) /\ rfd[t] = NoFd /\ wfd[t] = NoFd
      BY <1>1 DEF pipe, InRun
    <3>3. \A k \in Std : fds[k] = Tty(k)
      BY <1>0, <3>2 DEF TableOk
    <3>4. r \notin Std /\ w \notin Std
      BY <3>1, <3>3, FilesDiffer
    <3>5. \A f \in Fds \ Std : fds[f] = Closed
      BY <1>0, <3>2, FdsAre DEF TableOk
    <3>6. /\ pc'[t] = "cloexec" /\ rfd'[t] = r /\ wfd'[t] = w
          /\ runs'[t] = runs[t] + 1 /\ ~InRun(t)'
      BY <1>0, <2>1 DEF Goto, InRun, ProcessTyped
    <3>7. /\ \A f \in Fds : f # r /\ f # w => fds'[f] = fds[f]
          /\ fds'[r] = End("r", t, runs'[t]) /\ fds'[w] = End("w", t, runs'[t])
      BY <1>0, <2>1, <3>1, <3>6 DEF ProcessTyped
    <3>8. \A k \in Std : fds'[k] = Tty(k)
      BY <3>3, <3>4, <3>7, FdsAre
    <3>. QED
      BY <3>1, <3>4, <3>5, <3>6, <3>7, <3>8 DEF TableOk
  <2>2. CASE UNCHANGED <<fds, rfd, wfd, runs, pc>>
    BY <1>0, <1>1, <2>2, TableSame DEF pipe, InRun
  <2>. QED
    BY <1>1, <2>1, <2>2 DEF pipe
<1>2. CASE setCloexec(t)
  BY <1>0, <1>2, TableSame DEF setCloexec, Goto, local, InRun, ProcessTyped
<1>3. CASE run(t)
  <2>1. /\ \A k \in Std : old'[t][k] = NoFd
        /\ pc'[t] = "in" /\ pc[t] = "piped"
        /\ UNCHANGED <<fds, rfd, wfd, runs>> /\ ~InRun(t) /\ InRun(t)'
    BY <1>0, <1>3 DEF run, Goto, InRun, ProcessTyped
  <2>. QED
    BY <1>0, <2>1 DEF TableOk
<1>4. ASSUME NEW k \in Std, NEW here \in {"in", "out", "err"},
             NEW next \in {"out", "err", "fork"}, redirect(t, k, here, next),
             old[t][k] = NoFd
      PROVE  TableOk(t, fds, IF InRun(t) THEN {} ELSE Std)'
  <2>1. /\ pc[t] = here /\ pc'[t] = next /\ InRun(t) /\ InRun(t)'
        /\ UNCHANGED <<rfd, wfd, want, runs>>
    BY <1>0, <1>4 DEF redirect, Goto, InRun, ProcessTyped
  <2>2. CASE UNCHANGED <<fds, old>>
    BY <1>0, <2>1, <2>2, TableSame
  <2>3. CASE /\ want[t][k] # "std" /\ Free # {}
             /\ old' = [old EXCEPT ![t][k] = Lowest(Free)]
             /\ fds' = [fds EXCEPT ![Lowest(Free)] = fds[k], ![k] = fds[Target(t, k)]]
    <3>. DEFINE s == Lowest(Free)
    <3>1. s \in Fds /\ fds[s] = Closed /\ k \in Fds
      BY <2>3, LowestIn, FdsAre DEF Free
    <3>. HIDE DEF s
    <3>2. ASSUME NEW j \in Std PROVE fds[j] # Closed
      <4>1. want[t][j] # "std" => want[t][j] \in {"r", "w"}
        BY <1>0 DEF ProcessTyped
      <4>2. fds[j] = Tty(j)
              \/ (want[t][j] # "std" /\ fds[j] = End(want[t][j], t, runs[t]))
        BY <1>0, <2>1 DEF TableOk
      <4>. QED
        BY <4>1, <4>2, FilesDiffer
    <3>3. s \notin Std /\ s # k /\ s # NoFd /\ fds[k] = Tty(k)
      BY <1>0, <1>4, <2>1, <3>1, <3>2, FdsAre DEF TableOk
    <3>4. /\ rfd[t] \in Fds \ Std /\ wfd[t] \in Fds \ Std /\ rfd[t] # wfd[t]
          /\ fds[rfd[t]] = End("r", t, runs[t]) /\ fds[wfd[t]] = End("w", t, runs[t])
      BY <1>0, <2>1 DEF RunOk, TableOk, ProcessTyped
    <3>5. fds[Target(t, k)] = End(want[t][k], t, runs[t])
      BY <1>0, <2>3, <3>4 DEF Target, ProcessTyped
    <3>6. /\ fds'[s] = Tty(k) /\ fds'[k] = End(want[t][k], t, runs[t])
          /\ \A f \in Fds : f # s /\ f # k => fds'[f] = fds[f]
      BY <1>0, <2>3, <3>1, <3>3, <3>5 DEF s, ProcessTyped
    <3>7. old'[t][k] = s /\ \A j \in Std : j # k => old'[t][j] = old[t][j]
      BY <1>0, <2>3 DEF s, ProcessTyped
    <3>8. ASSUME NEW j \in Std
          PROVE  IF old'[t][j] = NoFd THEN fds'[j] = Tty(j)
                 ELSE /\ old'[t][j] \notin Std /\ fds'[old'[t][j]] = Tty(j)
                      /\ want[t][j] # "std" /\ fds'[j] = End(want[t][j], t, runs[t])
      <4>1. CASE j = k
        BY <2>3, <3>3, <3>6, <3>7, <4>1
      <4>2. CASE j # k
        <5>1. j \in Fds /\ j # s /\ fds'[j] = fds[j] /\ old'[t][j] = old[t][j]
          BY <3>3, <3>6, <3>7, <4>2, FdsAre
        <5>2. CASE old[t][j] = NoFd
          BY <1>0, <2>1, <5>1, <5>2 DEF TableOk
        <5>3. CASE old[t][j] # NoFd
          <6>1. /\ old[t][j] \in Fds \ Std /\ fds[old[t][j]] = Tty(j)
                /\ want[t][j] # "std" /\ fds[j] = End(want[t][j], t, runs[t])
            BY <1>0, <2>1, <5>3 DEF TableOk, ProcessTyped
          <6>2. fds'[old[t][j]] = Tty(j)
            BY <3>1, <3>6, <6>1, FilesDiffer
          <6>. QED
            BY <5>1, <5>3, <6>1, <6>2
        <5>. QED
          BY <5>2, <5>3
      <4>. QED
        BY <4>1, <4>2
    <3>9. ASSUME NEW f \in Fds \ Std, fds'[f] # Closed
          PROVE  f \in {rfd[t], wfd[t]} \/ \E j \in Std : old'[t][j] = f
      <4>1. CASE f = s
        BY <3>7, <4>1
      <4>2. CASE f # s
        <5>1. fds[f] # Closed
          BY <3>6, <3>9, <4>2
        <5>2. f \in {rfd[t], wfd[t]} \/ \E j \in Std : old[t][j] = f
          BY <1>0, <2>1, <5>1 DEF TableOk
        <5>. QED
          BY <1>4, <3>7, <5>2, FdsAre
      <4>. QED
        BY <4>1, <4>2
    <3>10. /\ fds'[rfd[t]] = End("r", t, runs[t]) /\ fds'[wfd[t]] = End("w", t, runs[t])
      BY <3>1, <3>4, <3>6, FilesDiffer
    <3>. QED
      BY <2>1, <3>4, <3>8, <3>9, <3>10 DEF TableOk
  <2>. QED
    BY <1>4, <2>2, <2>3 DEF redirect
<1>5. CASE fork(t)
  BY <1>0, <1>5, TableSame DEF fork, Goto, InRun, ProcessTyped
<1>6. CASE restore(t)
  <2>. DEFINE a == Restored(t, 0, fds)
              b == Restored(t, 1, a)
  <2>0. InRun(t) /\ fds \in [Fds -> Files] /\ TableOk(t, fds, {})
    BY <1>0, <1>6 DEF restore, InRun, ProcessTyped
  <2>1. a \in [Fds -> Files] /\ TableOk(t, a, {} \union {0})
    BY <1>0, <2>0, RestoredTable, FdsAre
  <2>. HIDE DEF a
  <2>2. 1 \in Std \ ({} \union {0}) /\ {} \union {0} \in SUBSET Std
    BY FdsAre
  <2>3. b \in [Fds -> Files] /\ TableOk(t, b, ({} \union {0}) \union {1})
    BY <1>0, <2>1, <2>2, RestoredTable
  <2>. HIDE DEF b
  <2>4. /\ 2 \in Std \ (({} \union {0}) \union {1})
        /\ ({} \union {0}) \union {1} \in SUBSET Std
        /\ (({} \union {0}) \union {1}) \union {2} = Std
    BY FdsAre
  <2>5. TableOk(t, Restored(t, 2, b), Std)
    BY <1>0, <2>3, <2>4, RestoredTable
  <2>6. fds' = Restored(t, 2, b) /\ UNCHANGED <<old, want, runs, rfd, wfd>>
    BY <1>6 DEF restore, local, a, b
  <2>7. /\ ~InRun(t)' /\ pc[t] = "restore"
        /\ pc'[t] \notin {"baseBuilt", "basePiped"}
    BY <1>0, <1>6 DEF restore, Goto, InRun, ProcessTyped
  <2>8. TableOk(t, fds', Std)
    BY <2>5, <2>6
  <2>. QED
    BY <2>6, <2>7, <2>8 DEF TableOk
<1>7. CASE deleteOut(t)
  <2>1. /\ UNCHANGED <<old, want, runs, rfd, wfd>> /\ ~InRun(t) /\ ~InRun(t)'
        /\ pc'[t] \in {"baseBuilt", "basePiped"}
        /\ pc[t] \notin {"baseBuilt", "basePiped"}
        /\ wfd[t] # NoFd
    BY <1>0, <1>7 DEF deleteOut, Goto, local, InRun, ProcessTyped
  <2>2. wfd[t] \in Fds \ Std /\ wfd[t] # rfd[t]
    BY <1>0, <2>1 DEF TableOk, ProcessTyped
  <2>3. fds' = [fds EXCEPT ![wfd[t]] = Closed]
    BY <1>7 DEF deleteOut, Close
  <2>4. fds'[wfd[t]] = Closed /\ \A f \in Fds : f # wfd[t] => fds'[f] = fds[f]
    BY <1>0, <2>2, <2>3 DEF ProcessTyped
  <2>5. rfd[t] \in Fds \union {NoFd}
    BY <1>0 DEF ProcessTyped
  <2>. QED
    BY <1>0, <2>1, <2>2, <2>4, <2>5, FdsAre DEF TableOk
<1>8. CASE deleteOutBase(t)
  <2>1. /\ UNCHANGED <<old, want, runs, rfd>> /\ ~InRun(t) /\ ~InRun(t)'
        /\ pc[t] \in {"baseBuilt", "basePiped"} /\ wfd[t] # NoFd /\ wfd'[t] = NoFd
    BY <1>0, <1>8 DEF deleteOutBase, Goto, InRun, RunOk, ProcessTyped
  <2>2. wfd[t] \in Fds \ Std /\ fds[wfd[t]] = Closed
    BY <1>0, <2>1 DEF TableOk, ProcessTyped
  <2>3. fds' = [fds EXCEPT ![wfd[t]] = Closed]
    BY <1>8 DEF deleteOutBase, Close
  <2>4. fds' = fds
    BY <1>0, <2>2, <2>3 DEF ProcessTyped
  <2>. QED
    BY <1>0, <2>1, <2>2, <2>4 DEF TableOk
<1>9. CASE deleteIn(t)
  <2>1. /\ UNCHANGED <<old, want, runs, wfd, pc>> /\ ~InRun(t) /\ ~InRun(t)'
        /\ pc[t] \notin {"baseBuilt", "basePiped"} /\ rfd[t] # NoFd /\ rfd'[t] = NoFd
    BY <1>0, <1>9 DEF deleteIn, InRun, ProcessTyped
  <2>2. rfd[t] \in Fds \ Std /\ wfd[t] # rfd[t] /\ wfd[t] \in Fds \union {NoFd}
    BY <1>0, <2>1 DEF TableOk, ProcessTyped
  <2>3. fds' = [fds EXCEPT ![rfd[t]] = Closed]
    BY <1>9 DEF deleteIn, Close
  <2>4. fds'[rfd[t]] = Closed /\ \A f \in Fds : f # rfd[t] => fds'[f] = fds[f]
    BY <1>0, <2>2, <2>3 DEF ProcessTyped
  <2>. QED
    BY <1>0, <2>1, <2>2, <2>4, FdsAre DEF TableOk
<1>10. CASE wait(t)
  BY <1>0, <1>10, TableSame DEF wait, InRun
<1>11. CASE again(t)
  BY <1>0, <1>11, TableSame DEF again, Goto, local, InRun, ProcessTyped
<1>12. CASE kidEnds(t)
  BY <1>0, <1>12, TableSame DEF kidEnds, InRun
<1>13. /\ redirect(t, 0, "in", "out") => old[t][0] = NoFd
       /\ redirect(t, 1, "out", "err") => old[t][1] = NoFd
       /\ redirect(t, 2, "err", "fork") => old[t][2] = NoFd
  BY <1>0, FdsAre DEF redirect, RunOk
<1>. QED
  BY <1>1, <1>2, <1>3, <1>4, <1>5, <1>6, <1>7, <1>8, <1>9, <1>10, <1>11, <1>12, <1>13,
     FdsAre DEF Step

\* A process that runs keeps no writing end it was not asked to have.
LEMMA HeldNext ==
  ASSUME Parameters, NEW t \in Threads, ProcessInv(t), Step(t), ThreadInv'
  PROVE  HeldOk(t)'
<1>0. /\ ProcessTyped /\ RunOk(t) /\ PidOk(t) /\ HeldOk(t) /\ ProcessTyped'
      /\ TableOk(t, fds, IF InRun(t) THEN {} ELSE Std)
  BY DEF ProcessInv, ThreadInv
<1>1. CASE pipe(t)
  <2>1. kid[t].held = {} /\ kid' = kid
    BY <1>0, <1>1 DEF pipe, PidOk, HeldOk
  <2>2. pc'[t] \in {"idle", "cloexec"}
    BY <1>0, <1>1 DEF pipe, Goto, ProcessTyped
  <2>. QED
    BY <2>1, <2>2 DEF HeldOk
<1>2. CASE setCloexec(t)
  <2>1. wfd[t] \in cloexec' /\ UNCHANGED <<kid, wfd, want, runs>>
    BY <1>2 DEF setCloexec, local
  <2>. QED
    BY <1>0, <2>1 DEF HeldOk
<1>3. CASE run(t)
  <2>1. kid[t].held = {} /\ UNCHANGED <<kid, wfd, cloexec>> /\ wfd[t] \in cloexec
    BY <1>0, <1>3 DEF run, PidOk, HeldOk
  <2>. QED
    BY <2>1 DEF HeldOk
<1>4. ASSUME NEW k \in Std, NEW here \in {"in", "out", "err"}, NEW next,
             redirect(t, k, here, next)
      PROVE  HeldOk(t)'
  <2>1. /\ UNCHANGED <<kid, wfd, want, runs>> /\ InRun(t) /\ wfd[t] \in cloexec
        /\ wfd[t] \in Fds
    BY <1>0, <1>4 DEF redirect, InRun, RunOk, HeldOk, ProcessTyped
  <2>2. wfd[t] \notin Std /\ fds[wfd[t]] = End("w", t, runs[t])
    BY <1>0, <1>4, <2>1, FdsAre DEF redirect, TableOk
  <2>3. Free # {} => wfd[t] # Lowest(Free)
    <3>1. Free # {} => Lowest(Free) \in Free
      BY LowestIn, FdsAre DEF Free
    <3>. QED
      BY <2>2, <3>1, FilesDiffer DEF Free
  <2>4. wfd[t] \in cloexec'
    BY <1>4, <2>1, <2>2, <2>3 DEF redirect
  <2>. QED
    BY <1>0, <2>1, <2>4 DEF HeldOk
<1>5. CASE fork(t)
  <2>1. /\ UNCHANGED <<wfd, want, runs, cloexec>> /\ InRun(t) /\ wfd[t] \in cloexec
        /\ kid[t].held = {}
    BY <1>0, <1>5 DEF fork, InRun, PidOk, HeldOk
  <2>2. CASE UNCHANGED kid
    BY <2>1, <2>2 DEF HeldOk
  <2>3. CASE kid' = [kid EXCEPT ![t] =
                [state |-> "forked", std |-> [k \in Std |-> fds[k]], code |-> 0,
                 held |-> {fds[f] : f \in Fds \ cloexec}]]
    <3>1. kid'[t].state = "forked" /\ kid'[t].held = {fds[f] : f \in Fds \ cloexec}
      BY <1>0, <2>3 DEF ProcessTyped
    <3>2. ASSUME NEW f \in Fds \ cloexec, fds[f] = End("w", t, runs[t])
          PROVE  \E k \in Std : want[t][k] = "w"
      <4>1. CASE f \in Std
        <5>1. /\ want[t][f] \in {"std", "r", "w"}
              /\ want[t][f] # "std" /\ fds[f] = End(want[t][f], t, runs[t])
          BY <1>0, <2>1, <3>2, <4>1, FilesDiffer DEF TableOk, ProcessTyped
        <5>. QED
          BY <3>2, <4>1, <5>1, FilesDiffer
      <4>2. CASE f \notin Std
        <5>1. f \in {rfd[t], wfd[t]} \/ \E k \in Std : old[t][k] = f
          BY <1>0, <2>1, <3>2, <4>2, FilesDiffer DEF TableOk
        <5>2. f # wfd[t]
          BY <2>1
        <5>3. f # rfd[t]
          BY <1>0, <3>2, FilesDiffer, FdsAre DEF TableOk
        <5>4. PICK k \in Std : old[t][k] = f
          BY <5>1, <5>2, <5>3
        <5>5. fds[f] = Tty(k)
          BY <1>0, <2>1, <5>4, FdsAre DEF TableOk
        <5>. QED
          BY <3>2, <5>5, FilesDiffer
      <4>. QED
        BY <4>1, <4>2
    <3>. QED
      BY <2>1, <3>1, <3>2 DEF HeldOk
  <2>. QED
    BY <1>5, <2>2, <2>3 DEF fork
<1>6. CASE restore(t)
  <2>1. UNCHANGED <<kid, wfd, want, runs, cloexec>> /\ wfd[t] \in cloexec
    BY <1>0, <1>6 DEF restore, local, HeldOk
  <2>. QED
    BY <1>0, <2>1 DEF HeldOk
<1>7. CASE deleteOut(t)
  <2>1. UNCHANGED <<kid, wfd, want, runs>> /\ pc'[t] \in {"baseBuilt", "basePiped"}
    BY <1>0, <1>7 DEF deleteOut, Goto, local, ProcessTyped
  <2>. QED
    BY <1>0, <2>1 DEF HeldOk
<1>8. CASE deleteOutBase(t)
  <2>1. UNCHANGED <<kid, want, runs>> /\ pc'[t] \in {"built", "idle"}
    BY <1>0, <1>8 DEF deleteOutBase, Goto, ProcessTyped
  <2>. QED
    BY <1>0, <2>1 DEF HeldOk
<1>9. CASE deleteIn(t)
  <2>1. UNCHANGED <<kid, want, runs, pc>> /\ pc[t] \in {"built", "idle"}
    BY <1>9 DEF deleteIn
  <2>. QED
    BY <1>0, <2>1 DEF HeldOk
<1>10. CASE wait(t)
  <2>0. kid[t].held = {} /\ kid[t] \in Kids
    BY <1>0, <1>10 DEF wait, HeldOk, ProcessTyped
  <2>1. kid'[t].held = {} /\ UNCHANGED <<wfd, cloexec, pc>>
    BY <1>0, <1>10, <2>0 DEF wait, ProcessTyped, Kids
  <2>. QED
    BY <1>0, <2>1 DEF HeldOk
<1>11. CASE again(t)
  <2>1. UNCHANGED <<kid, wfd, want, runs, cloexec>> /\ pc'[t] = "idle"
    BY <1>0, <1>11 DEF again, Goto, local, ProcessTyped
  <2>. QED
    BY <1>0, <2>1 DEF HeldOk
<1>12. CASE kidEnds(t)
  <2>0. kid[t] \in Kids
    BY <1>0 DEF ProcessTyped
  <2>1. kid'[t].held = {} /\ UNCHANGED <<wfd, cloexec, pc>>
    BY <1>0, <1>12, <2>0 DEF kidEnds, ProcessTyped, Kids
  <2>. QED
    BY <1>0, <2>1 DEF HeldOk
<1>. QED
  BY <1>1, <1>2, <1>3, <1>4, <1>5, <1>6, <1>7, <1>8, <1>9, <1>10, <1>11, <1>12,
     FdsAre DEF Step

\* In a program whose processes are built by one thread, whatever its choices
\* and the failures of pipe(), dup() and fork(): between two runs the table of
\* descriptors is as it was but for the streams, no stream loses its
\* descriptor, and a reader sees the end of file once the writers are gone.
THEOREM ProcessesAreSound ==
  ASSUME Parameters, NEW t, Threads = {t}
  PROVE  Spec => [](TableRestored /\ StreamStaysOpen /\ EndOfFileComes)
<1>1. Init => ProcessInv(t)
  <2>. SUFFICES ASSUME Init PROVE ProcessInv(t)
    OBVIOUS
  <2>1. ThreadInv
    BY ThreadInvInit
  <2>2. ~InRun(t)
    BY DEF Init, InRun
  <2>3. TableOk(t, fds, Std)
    BY FdsAre DEF Init, TableOk
  <2>4. HeldOk(t)
    BY DEF Init, NoKid, HeldOk
  <2>. QED
    BY <2>1, <2>2, <2>3, <2>4 DEF ProcessInv
<1>2. ProcessInv(t) /\ [Next]_vars => ProcessInv(t)'
  <2>. SUFFICES ASSUME ProcessInv(t), [Next]_vars PROVE ProcessInv(t)'
    OBVIOUS
  <2>1. ThreadInv'
    BY ThreadInvNext DEF ProcessInv
  <2>2. CASE UNCHANGED vars
    BY <2>1, <2>2 DEF vars, ProcessInv, TableOk, HeldOk, InRun
  <2>3. CASE Step(t)
    BY <2>1, <2>3, TableNext, HeldNext DEF ProcessInv
  <2>. QED
    BY <2>2, <2>3 DEF Next
<1>3. ProcessInv(t) => TableRestored /\ StreamStaysOpen /\ EndOfFileComes
  <2>. SUFFICES ASSUME ProcessInv(t)
                PROVE  TableRestored /\ StreamStaysOpen /\ EndOfFileComes
    OBVIOUS
  <2>0. /\ ProcessTyped /\ TableOk(t, fds, IF InRun(t) THEN {} ELSE Std) /\ HeldOk(t)
    BY DEF ProcessInv, ThreadInv
  <2>1. TableRestored
    BY <2>0 DEF TableOk, TableRestored
  <2>2. StreamStaysOpen
    BY <2>0 DEF TableOk, StreamStaysOpen
  <2>3. EndOfFileComes
    <3>. SUFFICES ASSUME pc[t] = "built", wfd[t] = NoFd
                  PROVE  /\ \A f \in Fds : fds[f] # End("w", t, runs[t])
                         /\ End("w", t, runs[t]) \in kid[t].held =>
                              \E k \in Std : want[t][k] = "w"
      BY DEF EndOfFileComes
    <3>1. ASSUME NEW f \in Fds PROVE fds[f] # End("w", t, runs[t])
      <4>1. ~InRun(t) /\ f # wfd[t]
        BY FdsAre DEF InRun
      <4>2. CASE f \in Std
        BY <2>0, <4>1, <4>2, FilesDiffer DEF TableOk
      <4>3. CASE f \notin Std
        <5>1. fds[f] # Closed => f = rfd[t] /\ fds[f] = End("r", t, runs[t])
          BY <2>0, <4>1, <4>3, FdsAre DEF TableOk
        <5>. QED
          BY <5>1, FilesDiffer
      <4>. QED
        BY <4>2, <4>3
    <3>. QED
      BY <2>0, <3>1 DEF HeldOk
  <2>. QED
    BY <2>1, <2>2, <2>3
<1>. QED
  BY <1>1, <1>2, <1>3, PTL DEF Spec

-----------------------------------------------------------------------------
(* Threads and mutexes, any number of them.                                *)

CONSTANTS Mutexes, Runnables, Null, RunnableOf, CanFail, CanKill, CanTry, Misuse,
          Budget

VARIABLES life, started, joined, joining, running, cancel, key, thr, owner, wants,
          budget, last, aborted

Thr == INSTANCE Thread

\* The types of the variables that the proofs use.
ThreadsTyped ==
  /\ life \in [Threads -> {"none", "made", "created", "entered", "body", "ending", "dead"}]
  /\ started \in [Threads -> BOOLEAN] /\ joined \in [Threads -> BOOLEAN]
  /\ joining \in Threads \union {Null}
  /\ running \in [Threads -> BOOLEAN] /\ cancel \in [Threads -> BOOLEAN]
  /\ key \in [Threads -> Threads \union {Null}]
  /\ thr \in [Runnables -> Threads \union {Null}]
  /\ owner \in [Mutexes -> Threads \union {Null}]
  /\ wants \in [Threads -> Mutexes \union {Null}]

\* The flag follows the life of the thread, and join() waits for its end.
LifeInv ==
  /\ ThreadsTyped
  /\ \A t \in Threads :
       /\ running[t] <=> life[t] \in {"entered", "body", "ending"}
       /\ joined[t] => life[t] = "dead"
       /\ life[t] \in {"body", "ending", "dead"} => key[t] = t

\* A runnable knows the one thread that is made for it.
KnownInv ==
  \A t \in Threads : life[t] # "none" => thr[RunnableOf[t]] = t

\* Nobody is cancelled, and only a body holds a mutex or waits for one.
HoldInv ==
  /\ \A t \in Threads :
       /\ ~cancel[t]
       /\ wants[t] # Null => life[t] = "body"
  /\ \A m \in Mutexes : owner[m] # Null => life[owner[m]] = "body"

LEMMA LifeInit == Thr!Parameters /\ Thr!Init => LifeInv /\ KnownInv /\ HoldInv
  BY DEF Thr!Parameters, Thr!Init, LifeInv, ThreadsTyped, KnownInv, HoldInv

LEMMA ThreadsTypedNext ==
  ASSUME Thr!Parameters, ThreadsTyped, [Thr!Next]_(Thr!vars)
  PROVE  ThreadsTyped'
<1>1. CASE UNCHANGED Thr!vars
  BY <1>1 DEF Thr!vars, ThreadsTyped
<1>2. CASE Thr!joinReturn
  BY <1>2 DEF Thr!joinReturn, Thr!flow, Thr!locks, ThreadsTyped
<1>3. ASSUME NEW t \in Threads, Thr!make(t) \/ Thr!start(t) \/ Thr!join(t) \/ Thr!kill(t)
      PROVE  ThreadsTyped'
  <2>1. CASE Thr!make(t)
    BY <2>1 DEF Thr!make, Thr!locks, Thr!Parameters, ThreadsTyped
  <2>2. CASE Thr!start(t)
    BY <2>2 DEF Thr!start, Thr!locks, ThreadsTyped
  <2>3. CASE Thr!join(t)
    BY <2>3 DEF Thr!join, Thr!flow, Thr!locks, ThreadsTyped
  <2>4. CASE Thr!kill(t)
    BY <2>4 DEF Thr!kill, Thr!flow, Thr!locks, Thr!mainv, ThreadsTyped
  <2>. QED
    BY <1>3, <2>1, <2>2, <2>3, <2>4
<1>4. ASSUME NEW t \in Threads, \/ Thr!enter(t) \/ Thr!setSpecific(t) \/ Thr!lockReturn(t)
                                \/ Thr!end(t) \/ Thr!cancelled(t) \/ Thr!cleanup(t)
      PROVE  ThreadsTyped'
  <2>1. CASE Thr!enter(t)
    BY <2>1 DEF Thr!enter, Thr!locks, Thr!mainv, ThreadsTyped
  <2>2. CASE Thr!setSpecific(t)
    BY <2>2 DEF Thr!setSpecific, Thr!locks, Thr!mainv, ThreadsTyped
  <2>3. CASE Thr!lockReturn(t)
    BY <2>3 DEF Thr!lockReturn, Thr!flow, Thr!mainv, ThreadsTyped
  <2>4. CASE Thr!end(t) \/ Thr!cancelled(t)
    BY <2>4 DEF Thr!end, Thr!cancelled, Thr!locks, Thr!mainv, ThreadsTyped
  <2>5. CASE Thr!cleanup(t)
    BY <2>5 DEF Thr!cleanup, Thr!locks, Thr!mainv, ThreadsTyped
  <2>. QED
    BY <1>4, <2>1, <2>2, <2>3, <2>4, <2>5
<1>5. ASSUME NEW t \in Threads, NEW m \in Mutexes,
             Thr!lock(t, m) \/ Thr!tryLock(t, m) \/ Thr!unlock(t, m)
      PROVE  ThreadsTyped'
  BY <1>5 DEF Thr!lock, Thr!tryLock, Thr!unlock, Thr!flow, Thr!locks, Thr!mainv,
              ThreadsTyped
<1>. QED
  BY <1>1, <1>2, <1>3, <1>4, <1>5 DEF Thr!Next, Thr!Step

LEMMA LifeNext ==
  ASSUME Thr!Parameters, LifeInv, [Thr!Next]_(Thr!vars)
  PROVE  LifeInv'
<1>0. ThreadsTyped /\ ThreadsTyped'
  BY ThreadsTypedNext DEF LifeInv
<1>1. CASE UNCHANGED Thr!vars
  BY <1>0, <1>1 DEF Thr!vars, LifeInv
<1>2. CASE Thr!joinReturn
  BY <1>0, <1>2 DEF Thr!joinReturn, Thr!flow, LifeInv, ThreadsTyped
<1>3. ASSUME NEW t \in Threads, Thr!make(t) \/ Thr!start(t) \/ Thr!join(t) \/ Thr!kill(t)
      PROVE  LifeInv'
  <2>1. CASE Thr!make(t)
    BY <1>0, <2>1 DEF Thr!make, LifeInv, ThreadsTyped
  <2>2. CASE Thr!start(t)
    <3>1. /\ UNCHANGED <<joined, running, key>> /\ life[t] = "made"
          /\ life' = life \/ life' = [life EXCEPT ![t] = "created"]
      BY <2>2 DEF Thr!start
    <3>2. /\ life'[t] \in {"made", "created"} /\ \A u \in Threads \ {t} : life'[u] = life[u]
      BY <1>0, <3>1 DEF ThreadsTyped
    <3>. QED
      BY <1>0, <3>1, <3>2 DEF LifeInv
  <2>3. CASE Thr!join(t)
    BY <1>0, <2>3 DEF Thr!join, Thr!flow, LifeInv, ThreadsTyped
  <2>4. CASE Thr!kill(t)
    BY <1>0, <2>4 DEF Thr!kill, Thr!flow, Thr!mainv, LifeInv, ThreadsTyped
  <2>. QED
    BY <1>3, <2>1, <2>2, <2>3, <2>4
<1>4. ASSUME NEW t \in Threads, \/ Thr!enter(t) \/ Thr!setSpecific(t) \/ Thr!lockReturn(t)
                                \/ Thr!end(t) \/ Thr!cancelled(t) \/ Thr!cleanup(t)
      PROVE  LifeInv'
  BY <1>0, <1>4 DEF Thr!enter, Thr!setSpecific, Thr!lockReturn, Thr!end, Thr!cancelled,
                    Thr!cleanup, Thr!InBody, Thr!flow, Thr!mainv, LifeInv, ThreadsTyped
<1>5. ASSUME NEW t \in Threads, NEW m \in Mutexes,
             Thr!lock(t, m) \/ Thr!tryLock(t, m) \/ Thr!unlock(t, m)
      PROVE  LifeInv'
  BY <1>0, <1>5 DEF Thr!lock, Thr!tryLock, Thr!unlock, Thr!flow, Thr!mainv, LifeInv
<1>. QED
  BY <1>1, <1>2, <1>3, <1>4, <1>5 DEF Thr!Next, Thr!Step

\* isRunning() is true in the whole body of a thread and false once join() has
\* returned, whichever way the thread ended.
THEOREM ThreadFlagTrue ==
  ASSUME Thr!Parameters PROVE Thr!Spec => []Thr!FlagTrue
<1>1. Thr!Init => LifeInv
  BY LifeInit
<1>2. LifeInv /\ [Thr!Next]_(Thr!vars) => LifeInv'
  BY LifeNext
<1>3. LifeInv => Thr!FlagTrue
  BY DEF LifeInv, Thr!FlagTrue
<1>. QED
  BY <1>1, <1>2, <1>3, PTL DEF Thr!Spec

\* A body finds itself with current() and with thread() of its runnable, when
\* no runnable is given to two threads.
THEOREM ThreadSelfKnown ==
  ASSUME Thr!Parameters,
         \A t, u \in Threads : RunnableOf[t] = RunnableOf[u] => t = u
  PROVE  Thr!Spec => []Thr!SelfKnown
<1>. DEFINE Inv == LifeInv /\ KnownInv
<1>1. Thr!Init => Inv
  BY LifeInit
<1>2. Inv /\ [Thr!Next]_(Thr!vars) => Inv'
  <2>. SUFFICES ASSUME LifeInv, KnownInv, [Thr!Next]_(Thr!vars) PROVE KnownInv'
    BY LifeNext
  <2>0. ThreadsTyped
    BY DEF LifeInv
  <2>1. CASE UNCHANGED Thr!vars
    BY <2>1 DEF Thr!vars, KnownInv
  <2>2. CASE Thr!joinReturn
    BY <2>2 DEF Thr!joinReturn, Thr!flow, KnownInv
  <2>3. ASSUME NEW t \in Threads, Thr!make(t) PROVE KnownInv'
    BY <2>0, <2>3 DEF Thr!make, Thr!Parameters, KnownInv, ThreadsTyped
  <2>4. ASSUME NEW t \in Threads, Thr!start(t) \/ Thr!join(t) \/ Thr!kill(t)
        PROVE  KnownInv'
    BY <2>0, <2>4 DEF Thr!start, Thr!join, Thr!kill, Thr!flow, Thr!mainv, KnownInv,
                      ThreadsTyped
  <2>5. ASSUME NEW t \in Threads, \/ Thr!enter(t) \/ Thr!setSpecific(t)
                                  \/ Thr!lockReturn(t) \/ Thr!end(t)
                                  \/ Thr!cancelled(t) \/ Thr!cleanup(t)
        PROVE  KnownInv'
    BY <2>0, <2>5 DEF Thr!enter, Thr!setSpecific, Thr!lockReturn, Thr!end,
         Thr!cancelled, Thr!cleanup, Thr!InBody, Thr!flow, Thr!mainv, KnownInv,
         ThreadsTyped
  <2>6. ASSUME NEW t \in Threads, NEW m \in Mutexes,
               Thr!lock(t, m) \/ Thr!tryLock(t, m) \/ Thr!unlock(t, m)
        PROVE  KnownInv'
    BY <2>6 DEF Thr!lock, Thr!tryLock, Thr!unlock, Thr!flow, Thr!mainv, KnownInv
  <2>. QED
    BY <2>1, <2>2, <2>3, <2>4, <2>5, <2>6 DEF Thr!Next, Thr!Step
<1>3. Inv => Thr!SelfKnown
  BY DEF LifeInv, KnownInv, Thr!SelfKnown
<1>. QED
  BY <1>1, <1>2, <1>3, PTL DEF Thr!Spec

\* No thread that has left its body holds a mutex.
NoMutexLeft ==
  \A t \in Threads : life[t] \in {"ending", "dead"} => ~Thr!Holds(t)

\* Without kill(), a mutex is only held by a thread whose body goes on: no
\* thread ends with a mutex that another one waits for, which is why every
\* join() can return.
THEOREM EndsHoldNothing ==
  ASSUME Thr!Parameters, ~CanKill PROVE Thr!Spec => []NoMutexLeft
<1>. DEFINE Inv == LifeInv /\ HoldInv
<1>1. Thr!Init => Inv
  BY LifeInit
<1>2. Inv /\ [Thr!Next]_(Thr!vars) => Inv'
  <2>. SUFFICES ASSUME LifeInv, HoldInv, [Thr!Next]_(Thr!vars) PROVE HoldInv'
    BY LifeNext
  <2>0. ThreadsTyped /\ Null \notin Threads /\ Null \notin Mutexes
    BY DEF LifeInv, Thr!Parameters
  <2>1. CASE UNCHANGED Thr!vars
    BY <2>1 DEF Thr!vars, HoldInv
  <2>2. CASE Thr!joinReturn
    BY <2>2 DEF Thr!joinReturn, Thr!flow, Thr!locks, HoldInv
  <2>3. ASSUME NEW t \in Threads, Thr!make(t) \/ Thr!start(t) \/ Thr!join(t) \/ Thr!kill(t)
        PROVE  HoldInv'
    <3>1. UNCHANGED <<cancel, wants, owner>> /\ \A u \in Threads : life[u] = "body" => life'[u] = "body"
      <4>1. CASE Thr!make(t)
        BY <2>0, <4>1 DEF Thr!make, Thr!locks, ThreadsTyped
      <4>2. CASE Thr!start(t)
        BY <2>0, <4>2 DEF Thr!start, Thr!locks, ThreadsTyped
      <4>3. CASE Thr!join(t)
        BY <4>3 DEF Thr!join, Thr!flow, Thr!locks
      <4>4. ~Thr!kill(t)
        BY DEF Thr!kill
      <4>. QED
        BY <2>3, <4>1, <4>2, <4>3, <4>4
    <3>. QED
      BY <2>0, <3>1 DEF HoldInv, ThreadsTyped
  <2>4. ASSUME NEW t \in Threads, Thr!enter(t) \/ Thr!setSpecific(t) \/ Thr!lockReturn(t)
        PROVE  HoldInv'
    BY <2>0, <2>4 DEF Thr!enter, Thr!setSpecific, Thr!lockReturn, Thr!flow, Thr!locks,
                      Thr!mainv, HoldInv, ThreadsTyped
  <2>5. ASSUME NEW t \in Threads, Thr!end(t) \/ Thr!cancelled(t) \/ Thr!cleanup(t)
        PROVE  HoldInv'
    BY <2>0, <2>5 DEF Thr!end, Thr!cancelled, Thr!cleanup, Thr!InBody, Thr!Holds,
         Thr!flow, Thr!locks, Thr!mainv, HoldInv, ThreadsTyped
  <2>6. ASSUME NEW t \in Threads, NEW m \in Mutexes,
               Thr!lock(t, m) \/ Thr!tryLock(t, m) \/ Thr!unlock(t, m)
        PROVE  HoldInv'
    BY <2>0, <2>6 DEF Thr!lock, Thr!tryLock, Thr!unlock, Thr!InBody, Thr!flow, Thr!mainv,
                HoldInv, ThreadsTyped
  <2>. QED
    BY <2>1, <2>2, <2>3, <2>4, <2>5, <2>6 DEF Thr!Next, Thr!Step
<1>3. Inv => NoMutexLeft
  BY DEF LifeInv, ThreadsTyped, HoldInv, Thr!Holds, Thr!Parameters, NoMutexLeft
<1>. QED
  BY <1>1, <1>2, <1>3, PTL DEF Thr!Spec

-----------------------------------------------------------------------------
(* Sockets: a server and any number of clients.                            *)

CONSTANTS Clients, SocketFds, Ports, GivenPort, Preempt, OtherCloses, Reconnect,
          CloseTwice, Careful

VARIABLES sfds, srv, bound, spc, con, cl, clpc, stop, fault

Soc == INSTANCE Sockets WITH Fds <- SocketFds, fds <- sfds, pc <- spc

Holdable == SocketFds \union {Soc!NoFd}
Marks == {"free", "dropped", "listen", "connection", "client"}
States == {"null", "live", "deleted"}

Servers == [sock : States, on : BOOLEAN, fd : Holdable,
            port : Ports \union {Soc!NoPort} \union {Soc!Swap(p) : p \in Ports}]

Sockets == [fd : Holdable, in : States, out : States, to : Holdable]

\* The types of the variables.
SocketsTyped ==
  /\ sfds \in [SocketFds -> Marks]
  /\ srv \in Servers /\ con \in Holdable
  /\ spc \in {"idle", "loop", "listen", "accept", "refused", "serve", "delete"}
  /\ cl \in [Clients -> Sockets] /\ clpc \in [Clients -> {"idle", "delete"}]

\* The objects are used by one thread: at most one of them is in the middle of
\* its deletion, with a number that nobody has taken yet.
DeletionOk ==
  /\ spc = "serve" => con \in SocketFds
  /\ spc = "delete" => con \in SocketFds /\ sfds[con] = "free"
  /\ \A c \in Clients : clpc[c] = "delete" =>
       /\ cl[c].fd = Soc!NoFd /\ cl[c].to \in SocketFds /\ sfds[cl[c].to] = "free"
       /\ spc # "delete" /\ \A d \in Clients \ {c} : clpc[d] = "idle"

\* No two clients have the same descriptor, and one that is connected has no
\* deleted stream and writes to its own descriptor.
ClientsOk ==
  \A c \in Clients : cl[c].fd # Soc!NoFd =>
    /\ \A d \in Clients \ {c} : cl[d].fd # cl[c].fd
    /\ cl[c].in # "deleted" /\ cl[c].out # "deleted"
    /\ cl[c].out = "live" => cl[c].to = cl[c].fd

\* manage() goes on with a socket that is not deleted, and only an open one is
\* bound.
ServerOk ==
  /\ spc \in {"listen", "accept", "refused"} => srv.sock = "live"
  /\ spc \in {"loop", "serve", "delete"} /\ srv.on => srv.sock = "live"
  /\ bound # Soc!NoPort => srv.sock = "live"

\* The inductive invariant of a program with one thread.
SocketsInv ==
  /\ SocketsTyped /\ Soc!NoDeadObject /\ Soc!HeldIsOpen
  /\ DeletionOk /\ ClientsOk /\ ServerOk

\* NoFd is no descriptor.
LEMMA SocketFdsAre ==
  ASSUME Soc!Parameters
  PROVE  Soc!NoFd \notin SocketFds
  BY DEF Soc!Parameters, Soc!NoFd

\* What close() leaves.
LEMMA ClosedIs ==
  ASSUME SocketsTyped, NEW f \in Holdable
  PROVE  /\ Soc!Closed(sfds, f) \in [SocketFds -> Marks]
         /\ \A g \in SocketFds : Soc!Closed(sfds, f)[g] =
              IF g = f THEN "free" ELSE sfds[g]
  BY DEF SocketsTyped, Soc!Closed, Marks

\* What is left when a number is forgotten.
LEMMA DropIs ==
  ASSUME SocketsTyped, NEW f \in Holdable, NEW k \in Marks
  PROVE  /\ Soc!Drop(sfds, f, k) \in [SocketFds -> Marks]
         /\ \A g \in SocketFds : Soc!Drop(sfds, f, k)[g] =
              IF g = f /\ sfds[g] = k THEN "dropped" ELSE sfds[g]
  BY DEF SocketsTyped, Soc!Drop, Marks

\* What is left when a server makes a socket.
LEMMA SockDroppedIs ==
  ASSUME SocketsTyped
  PROVE  /\ Soc!SockDropped \in [SocketFds -> Marks]
         /\ \A g \in SocketFds : Soc!SockDropped[g] =
              IF srv.sock = "live" /\ g = srv.fd /\ sfds[g] = "listen" THEN "dropped"
              ELSE sfds[g]
<1>1. srv.fd \in Holdable /\ "listen" \in Marks
  BY DEF SocketsTyped, Servers, Marks
<1>. QED
  BY <1>1, DropIs DEF Soc!SockDropped, SocketsTyped

\* What is left when a client becomes x.
LEMMA AbandonedIs ==
  ASSUME SocketsTyped, NEW c \in Clients, NEW x
  PROVE  /\ Soc!Abandoned(c, x) \in [SocketFds -> Marks]
         /\ \A g \in SocketFds : Soc!Abandoned(c, x)[g] =
              IF /\ sfds[g] = "client" /\ Soc!Holds(cl[c], g) /\ ~Soc!Holds(x, g)
                 /\ \A d \in Clients \ {c} : ~Soc!Holds(cl[d], g)
              THEN "dropped" ELSE sfds[g]
<1>. DEFINE D(g) == /\ sfds[g] = "client" /\ Soc!Holds(cl[c], g) /\ ~Soc!Holds(x, g)
                    /\ \A d \in Clients \ {c} : ~Soc!Holds(cl[d], g)
<1>1. Soc!Abandoned(c, x) = [g \in SocketFds |-> IF D(g) THEN "dropped" ELSE sfds[g]]
  BY DEF Soc!Abandoned
<1>2. \A g \in SocketFds : sfds[g] \in Marks /\ "dropped" \in Marks
  BY DEF SocketsTyped, Marks
<1>. HIDE DEF D
<1>3. /\ Soc!Abandoned(c, x) \in [SocketFds -> Marks]
      /\ \A g \in SocketFds : Soc!Abandoned(c, x)[g] = IF D(g) THEN "dropped" ELSE sfds[g]
  BY <1>1, <1>2
<1>. QED
  BY <1>3 DEF D

LEMMA SocketsTypedInit == Soc!Init => SocketsTyped
  BY DEF Soc!Init, SocketsTyped, Servers, Sockets, Holdable, Marks, States

\* What a step of a client may do to the descriptors it has: a socket it loses
\* from sight is closed, dropped or another client's too.
Keeps(c, x) ==
  \A g \in SocketFds :
    \/ sfds'[g] \in {"free", "dropped"}
    \/ sfds'[g] = "client" /\ Soc!Holds(x, g)
    \/ /\ sfds'[g] = sfds[g]
       /\ sfds[g] = "client" /\ Soc!Holds(cl[c], g) =>
            Soc!Holds(x, g) \/ \E d \in Clients \ {c} : Soc!Holds(cl[d], g)

\* The steps of a client.
ClientStep(c) ==
  \/ Soc!Connect(c) \/ Soc!SocketFails(c) \/ Soc!ConnectFails(c) \/ Soc!In(c) \/ Soc!Out(c)
  \/ Soc!Disconnect(c) \/ Soc!DisconnectOut(c) \/ Soc!Renew(c)

\* What DeleteStreams() makes of a client.
Deleted(x) ==
  [x EXCEPT !.fd = Soc!NoFd,
            !.in = IF @ = "live" /\ "deleted" \notin {x.in, x.out} THEN "deleted" ELSE @]

LEMMA DeletedIs ==
  ASSUME NEW x \in Sockets
  PROVE  /\ Deleted(x) \in Sockets /\ Deleted(x).fd = Soc!NoFd
         /\ Deleted(x).out = x.out /\ Deleted(x).to = x.to
         /\ Deleted(x).in \in {x.in, "deleted"}
         /\ x.in = "null" => Deleted(x).in = "null"
  BY DEF Deleted, Sockets, Holdable, States

LEMMA DeleteStreamsIs ==
  ASSUME NEW c \in Clients, Soc!DeleteStreams(c)
  PROVE  cl' = [cl EXCEPT ![c] = Deleted(cl[c])]
  BY DEF Soc!DeleteStreams, Deleted

\* Each step of a client keeps the types and the descriptors.
LEMMA ClientStepIs ==
  ASSUME Soc!Parameters, SocketsTyped, NEW c \in Clients, ClientStep(c)
  PROVE  /\ UNCHANGED <<srv, bound, spc, con, stop>>
         /\ sfds' \in [SocketFds -> Marks]
         /\ clpc' \in [Clients -> {"idle", "delete"}]
         /\ \E x \in Sockets : cl' = [cl EXCEPT ![c] = x] /\ Keeps(c, x)
<1>0. /\ cl[c] \in Sockets /\ cl[c].fd \in Holdable /\ cl[c].to \in Holdable
      /\ sfds \in [SocketFds -> Marks] /\ clpc \in [Clients -> {"idle", "delete"}]
      /\ Soc!NoFd \notin SocketFds /\ cl = [cl EXCEPT ![c] = cl[c]]
  BY SocketFdsAre DEF SocketsTyped, Sockets
<1>1. UNCHANGED <<srv, bound, spc, con, stop>>
  BY DEF ClientStep, Soc!Connect, Soc!SocketFails, Soc!ConnectFails, Soc!In, Soc!Out,
         Soc!Disconnect, Soc!DisconnectOut, Soc!Renew, Soc!server
<1>2. CASE Soc!Connect(c)
  <2>1. PICK f \in SocketFds :
          /\ sfds' = [Soc!Abandoned(c, [cl[c] EXCEPT !.fd = f]) EXCEPT ![f] = "client"]
          /\ cl' = [cl EXCEPT ![c] = [cl[c] EXCEPT !.fd = f]] /\ clpc' = clpc
    BY <1>2 DEF Soc!Connect
  <2>. DEFINE x == [cl[c] EXCEPT !.fd = f]
  <2>2. x \in Sockets /\ x.fd = f
    BY <1>0 DEF Sockets, Holdable
  <2>3. Soc!Abandoned(c, x) \in [SocketFds -> Marks]
    BY AbandonedIs
  <2>4. sfds' \in [SocketFds -> Marks]
        /\ \A g \in SocketFds : sfds'[g] = IF g = f THEN "client" ELSE Soc!Abandoned(c, x)[g]
    BY <2>1, <2>3 DEF Marks
  <2>5. Soc!Holds(x, f)
    BY <2>2 DEF Soc!Holds
  <2>. HIDE DEF x
  <2>6. Keeps(c, x)
    BY <2>4, <2>5, AbandonedIs DEF Keeps
  <2>. QED
    BY <1>0, <1>1, <2>1, <2>2, <2>4, <2>6 DEF x
<1>3. CASE Soc!SocketFails(c)
  <2>. DEFINE x == [cl[c] EXCEPT !.fd = Soc!NoFd]
  <2>1. sfds' = Soc!Abandoned(c, x) /\ cl' = [cl EXCEPT ![c] = x] /\ clpc' = clpc
    BY <1>3 DEF Soc!SocketFails
  <2>2. x \in Sockets
    BY <1>0 DEF Sockets, Holdable
  <2>. HIDE DEF x
  <2>3. sfds' \in [SocketFds -> Marks] /\ Keeps(c, x)
    BY <2>1, AbandonedIs DEF Keeps
  <2>. QED
    BY <1>0, <1>1, <2>1, <2>2, <2>3
<1>4. CASE Soc!ConnectFails(c)
  <2>. DEFINE x == [cl[c] EXCEPT !.fd = Soc!NoFd]
  <2>1. /\ sfds' = Soc!Abandoned(c, x) /\ cl' = [cl EXCEPT ![c] = Deleted(cl[c])]
        /\ clpc' \in [Clients -> {"idle", "delete"}]
    BY <1>0, <1>4, DeleteStreamsIs DEF Soc!ConnectFails, Soc!DeleteStreams
  <2>2. /\ Deleted(cl[c]) \in Sockets
        /\ \A g : Soc!Holds(Deleted(cl[c]), g) <=> Soc!Holds(x, g)
    BY <1>0, DeletedIs DEF Soc!Holds, Sockets
  <2>. HIDE DEF x
  <2>3. sfds' \in [SocketFds -> Marks] /\ Keeps(c, Deleted(cl[c]))
    BY <2>1, <2>2, AbandonedIs DEF Keeps
  <2>. QED
    BY <1>1, <2>1, <2>2, <2>3
<1>5. CASE Soc!In(c)
  <2>1. PICK x \in {cl[c], [cl[c] EXCEPT !.in = "live"]} :
          cl' = [cl EXCEPT ![c] = x] /\ sfds' = sfds /\ clpc' = clpc
    BY <1>0, <1>5 DEF Soc!In
  <2>2. x \in Sockets /\ \A g : Soc!Holds(cl[c], g) => Soc!Holds(x, g)
    BY <1>0 DEF Sockets, States, Soc!Holds
  <2>. QED
    BY <1>0, <1>1, <2>1, <2>2 DEF Keeps
<1>6. CASE Soc!Out(c)
  <2>1. CASE cl[c].out = "deleted"
    BY <1>0, <1>1, <1>6, <2>1 DEF Soc!Out, Keeps
  <2>2. CASE cl[c].out # "deleted"
    <3>. DEFINE x == [cl[c] EXCEPT !.out = "live",
                                   !.to = IF cl[c].out = "live" THEN @ ELSE cl[c].fd]
    <3>1. cl' = [cl EXCEPT ![c] = x] /\ sfds' = sfds /\ clpc' = clpc
      BY <1>6, <2>2 DEF Soc!Out
    <3>2. x \in Sockets /\ \A g : Soc!Holds(cl[c], g) => Soc!Holds(x, g)
      BY <1>0 DEF Sockets, States, Soc!Holds
    <3>. QED
      BY <1>0, <1>1, <3>1, <3>2 DEF Keeps
  <2>. QED
    BY <2>1, <2>2
<1>7. CASE Soc!Disconnect(c)
  <2>1. /\ sfds' = Soc!Closed(sfds, cl[c].fd) /\ cl' = [cl EXCEPT ![c] = Deleted(cl[c])]
        /\ clpc' \in [Clients -> {"idle", "delete"}]
    BY <1>0, <1>7, DeleteStreamsIs DEF Soc!Disconnect, Soc!DeleteStreams
  <2>2. /\ Deleted(cl[c]) \in Sockets
        /\ \A g \in SocketFds : g # cl[c].fd =>
             (Soc!Holds(Deleted(cl[c]), g) <=> Soc!Holds(cl[c], g))
    BY <1>0, DeletedIs DEF Soc!Holds
  <2>3. sfds' \in [SocketFds -> Marks] /\ Keeps(c, Deleted(cl[c]))
    BY <1>0, <2>1, <2>2, ClosedIs DEF Keeps
  <2>. QED
    BY <1>1, <2>1, <2>2, <2>3
<1>8. CASE Soc!DisconnectOut(c)
  <2>. DEFINE x == [cl[c] EXCEPT !.out = "deleted", !.to = Soc!NoFd]
  <2>1. /\ sfds' = Soc!Closed(sfds, cl[c].to) /\ cl' = [cl EXCEPT ![c] = x]
        /\ clpc' \in [Clients -> {"idle", "delete"}]
    BY <1>0, <1>8 DEF Soc!DisconnectOut
  <2>2. /\ x \in Sockets
        /\ \A g \in SocketFds : g # cl[c].to => (Soc!Holds(cl[c], g) => Soc!Holds(x, g))
    BY <1>0 DEF Sockets, Holdable, States, Soc!Holds
  <2>. HIDE DEF x
  <2>3. sfds' \in [SocketFds -> Marks] /\ Keeps(c, x)
    BY <1>0, <2>1, <2>2, ClosedIs DEF Keeps
  <2>. QED
    BY <1>1, <2>1, <2>2, <2>3
<1>9. CASE Soc!Renew(c)
  <2>. DEFINE x == [fd |-> Soc!NoFd, in |-> "null", out |-> "null", to |-> Soc!NoFd]
  <2>1. sfds' = Soc!Abandoned(c, x) /\ cl' = [cl EXCEPT ![c] = x] /\ clpc' = clpc
    BY <1>9 DEF Soc!Renew
  <2>2. x \in Sockets
    BY DEF Sockets, Holdable, States
  <2>. HIDE DEF x
  <2>3. sfds' \in [SocketFds -> Marks] /\ Keeps(c, x)
    BY <2>1, AbandonedIs DEF Keeps
  <2>. QED
    BY <1>0, <1>1, <2>1, <2>2, <2>3
<1>. QED
  BY <1>2, <1>3, <1>4, <1>5, <1>6, <1>7, <1>8, <1>9 DEF ClientStep

\* close() of the server, whoever calls it.
LEMMA DoCloseTyped ==
  ASSUME SocketsTyped, Soc!DoClose, UNCHANGED <<spc, con, cl, clpc>>
  PROVE  SocketsTyped'
<1>1. srv.fd \in Holdable
  BY DEF SocketsTyped, Servers
<1>2. sfds' \in [SocketFds -> Marks]
  <2>1. Soc!Closed(sfds, srv.fd) \in [SocketFds -> Marks]
    BY <1>1, ClosedIs
  <2>2. sfds' = sfds \/ sfds' = Soc!Closed(sfds, srv.fd)
    BY DEF Soc!DoClose
  <2>. QED
    BY <2>1, <2>2 DEF SocketsTyped
<1>3. srv' \in Servers
  <2>1. \/ srv' = srv
        \/ srv' = [srv EXCEPT !.on = FALSE, !.fd = Soc!NoFd, !.port = Soc!NoPort,
                              !.sock = IF @ = "live" THEN "deleted" ELSE @]
    BY DEF Soc!DoClose
  <2>2. srv \in Servers
    BY DEF SocketsTyped
  <2>. QED
    BY <2>1, <2>2 DEF Servers, Holdable, States
<1>. QED
  BY <1>2, <1>3 DEF SocketsTyped

\* open() of the server, in order or with an exception.
LEMMA OpenIs ==
  ASSUME Soc!Parameters, SocketsTyped, Soc!Open \/ Soc!OptionFails \/ Soc!OpenFails
  PROVE  /\ UNCHANGED <<spc, con, cl, clpc, stop, fault>> /\ spc = "idle"
         /\ sfds' \in [SocketFds -> Marks] /\ srv' \in Servers
         /\ srv'.sock = "live"
         /\ \A g \in SocketFds :
              sfds'[g] = IF g = srv'.fd THEN "listen" ELSE Soc!SockDropped[g]
         /\ \A g \in SocketFds : g = srv'.fd => sfds[g] = "free"
<1>0. Soc!SockDropped \in [SocketFds -> Marks] /\ Soc!NoFd \notin SocketFds
  BY SockDroppedIs, SocketFdsAre
<1>1. CASE Soc!Open
  <2>1. PICK f \in SocketFds, p \in Ports :
          /\ sfds' = [Soc!SockDropped EXCEPT ![f] = "listen"] /\ sfds[f] = "free"
          /\ srv' = [srv EXCEPT !.sock = "live", !.fd = f,
               !.port = IF GivenPort = Soc!NoPort THEN Soc!Swap(p) ELSE GivenPort]
    BY <1>1 DEF Soc!Open, Soc!Listening, Soc!Fresh
  <2>2. srv' \in Servers /\ srv'.sock = "live" /\ srv'.fd = f
    BY <2>1 DEF SocketsTyped, Servers, Holdable, States, Soc!Parameters
  <2>. QED
    BY <1>0, <1>1, <2>1, <2>2 DEF Soc!Open, Soc!MayOpen, Marks
<1>2. CASE Soc!OptionFails
  <2>1. PICK f \in SocketFds :
          /\ sfds' = [Soc!SockDropped EXCEPT ![f] = "listen"] /\ sfds[f] = "free"
          /\ srv' = [srv EXCEPT !.sock = "live", !.fd = f, !.port = GivenPort]
    BY <1>2 DEF Soc!OptionFails, Soc!Listening, Soc!Fresh
  <2>2. srv' \in Servers /\ srv'.sock = "live" /\ srv'.fd = f
    BY <2>1 DEF SocketsTyped, Servers, Holdable, States, Soc!Parameters
  <2>. QED
    BY <1>0, <1>2, <2>1, <2>2 DEF Soc!OptionFails, Soc!MayOpen, Marks
<1>3. CASE Soc!OpenFails
  <2>1. srv' \in Servers /\ srv'.sock = "live" /\ srv'.fd = Soc!NoFd
    BY <1>3 DEF Soc!OpenFails, SocketsTyped, Servers, Holdable, States, Soc!Parameters
  <2>. QED
    BY <1>0, <1>3, <2>1 DEF Soc!OpenFails, Soc!MayOpen
<1>. QED
  BY <1>1, <1>2, <1>3

LEMMA SocketsTypedNext ==
  ASSUME Soc!Parameters, SocketsTyped, [Soc!Next]_(Soc!vars)
  PROVE  SocketsTyped'
<1>1. CASE UNCHANGED Soc!vars
  BY <1>1 DEF Soc!vars, SocketsTyped
<1>2. CASE Soc!Open \/ Soc!OptionFails \/ Soc!OpenFails
  BY <1>2, OpenIs DEF SocketsTyped
<1>3. CASE Soc!CloseIdle \/ Soc!CloseInHandler \/ Soc!CloseOther \/ Soc!Destroy
  BY <1>3, DoCloseTyped DEF Soc!CloseIdle, Soc!CloseInHandler, Soc!CloseOther, Soc!Destroy
<1>4. CASE Soc!Manage
  <2>1. srv' \in Servers
    BY <1>4 DEF Soc!Manage, SocketsTyped, Servers
  <2>. QED
    BY <1>4, <2>1 DEF Soc!Manage, SocketsTyped
<1>5. CASE Soc!Loop \/ Soc!Listen \/ Soc!AcceptFails \/ Soc!Refused
  BY <1>5 DEF Soc!Loop, Soc!Listen, Soc!AcceptFails, Soc!Refused, Soc!Throw, SocketsTyped
<1>6. CASE Soc!Accept
  BY <1>6 DEF Soc!Accept, SocketsTyped, Holdable, Marks
<1>7. CASE Soc!EndServe \/ Soc!DeleteOut
  <2>1. con \in Holdable /\ sfds' = Soc!Closed(sfds, con)
    BY <1>7 DEF Soc!EndServe, Soc!DeleteOut, SocketsTyped
  <2>2. sfds' \in [SocketFds -> Marks]
    BY <2>1, ClosedIs
  <2>. QED
    BY <1>7, <2>2 DEF Soc!EndServe, Soc!DeleteOut, SocketsTyped, Holdable
<1>8. CASE Soc!HandlerThrows
  <2>1. con \in Holdable /\ sfds' = Soc!Drop(sfds, con, "connection") /\ "connection" \in Marks
    BY <1>8 DEF Soc!HandlerThrows, SocketsTyped, Marks
  <2>2. sfds' \in [SocketFds -> Marks]
    BY <2>1, DropIs
  <2>. QED
    BY <1>8, <2>2 DEF Soc!HandlerThrows, SocketsTyped, Holdable
<1>9. ASSUME NEW c \in Clients, ClientStep(c)
      PROVE  SocketsTyped'
  <2>1. /\ UNCHANGED <<srv, bound, spc, con, stop>> /\ sfds' \in [SocketFds -> Marks]
        /\ clpc' \in [Clients -> {"idle", "delete"}]
        /\ \E x \in Sockets : cl' = [cl EXCEPT ![c] = x]
    BY <1>9, ClientStepIs
  <2>. QED
    BY <2>1 DEF SocketsTyped
<1>. QED
  BY <1>1, <1>2, <1>3, <1>4, <1>5, <1>6, <1>7, <1>8, <1>9 DEF Soc!Next, ClientStep

\* Each step of a server or a client keeps every open socket in the hands of an
\* object, or leaves it as dropped.
LEMMA SocketHeldNext ==
  ASSUME Soc!Parameters, SocketsTyped, Soc!NoSocketLost, [Soc!Next]_(Soc!vars)
  PROVE  Soc!NoSocketLost'
<1>1. CASE UNCHANGED Soc!vars
  BY <1>1 DEF Soc!vars, Soc!NoSocketLost, Soc!Held
<1>2. CASE Soc!Open \/ Soc!OptionFails \/ Soc!OpenFails
  <2>1. /\ UNCHANGED <<spc, con, cl>> /\ srv'.sock = "live"
        /\ \A g \in SocketFds :
              sfds'[g] = IF g = srv'.fd THEN "listen" ELSE Soc!SockDropped[g]
    BY <1>2, OpenIs
  <2>2. ASSUME NEW g \in SocketFds, g # srv'.fd, sfds'[g] \notin {"free", "dropped"}
        PROVE  sfds'[g] = sfds[g] /\ sfds[g] # "listen"
    BY <2>1, <2>2, SockDroppedIs DEF Soc!NoSocketLost, Soc!Held
  <2>. QED
    BY <2>1, <2>2 DEF Soc!NoSocketLost, Soc!Held
<1>3. CASE Soc!CloseIdle \/ Soc!CloseInHandler \/ Soc!CloseOther \/ Soc!Destroy
  <2>1. Soc!DoClose /\ UNCHANGED <<spc, con, cl, clpc>> /\ srv.fd \in Holdable
    BY <1>3 DEF Soc!CloseIdle, Soc!CloseInHandler, Soc!CloseOther, Soc!Destroy,
                SocketsTyped, Servers
  <2>2. \A g \in SocketFds : Soc!Closed(sfds, srv.fd)[g] = IF g = srv.fd THEN "free" ELSE sfds[g]
    BY <2>1, ClosedIs
  <2>3. CASE srv.sock = "live"
    <3>1. sfds' = Soc!Closed(sfds, srv.fd)
      BY <2>1, <2>3 DEF Soc!DoClose
    <3>. QED
      BY <2>1, <2>2, <3>1 DEF Soc!NoSocketLost, Soc!Held
  <2>4. CASE srv.sock # "live"
    <3>1. sfds' = sfds
      BY <2>1, <2>4 DEF Soc!DoClose
    <3>. QED
      BY <2>1, <2>4, <3>1 DEF Soc!NoSocketLost, Soc!Held
  <2>. QED
    BY <2>3, <2>4
<1>4. CASE Soc!Manage
  BY <1>4 DEF Soc!Manage, Soc!NoSocketLost, Soc!Held, SocketsTyped, Servers
<1>5. CASE Soc!Loop \/ Soc!Listen \/ Soc!AcceptFails \/ Soc!Refused
  <2>1. UNCHANGED <<sfds, srv, con, cl>> /\ spc \notin {"serve", "delete"}
    BY <1>5 DEF Soc!Loop, Soc!Listen, Soc!AcceptFails, Soc!Refused, Soc!Throw
  <2>. QED
    BY <2>1 DEF Soc!NoSocketLost, Soc!Held
<1>6. CASE Soc!Accept
  BY <1>6 DEF Soc!Accept, Soc!NoSocketLost, Soc!Held, SocketsTyped
<1>7. CASE Soc!EndServe \/ Soc!DeleteOut
  <2>1. /\ con \in Holdable /\ sfds' = Soc!Closed(sfds, con) /\ UNCHANGED <<srv, cl>>
        /\ (con' = con /\ spc' = "delete") \/ con' = Soc!NoFd
    BY <1>7 DEF Soc!EndServe, Soc!DeleteOut, SocketsTyped
  <2>2. \A g \in SocketFds : sfds'[g] = IF g = con THEN "free" ELSE sfds[g]
    BY <2>1, ClosedIs
  <2>. QED
    BY <2>1, <2>2 DEF Soc!NoSocketLost, Soc!Held
<1>8. CASE Soc!HandlerThrows
  <2>1. /\ con \in Holdable /\ sfds' = Soc!Drop(sfds, con, "connection")
        /\ UNCHANGED <<srv, cl>> /\ "connection" \in Marks
    BY <1>8 DEF Soc!HandlerThrows, SocketsTyped, Marks
  <2>2. \A g \in SocketFds : sfds'[g] =
          IF g = con /\ sfds[g] = "connection" THEN "dropped" ELSE sfds[g]
    BY <2>1, DropIs
  <2>. QED
    BY <2>1, <2>2 DEF Soc!NoSocketLost, Soc!Held
<1>9. ASSUME NEW c \in Clients, ClientStep(c)
      PROVE  Soc!NoSocketLost'
  <2>1. UNCHANGED <<srv, spc, con>>
    BY <1>9, ClientStepIs
  <2>2. PICK x \in Sockets : cl' = [cl EXCEPT ![c] = x] /\ Keeps(c, x)
    BY <1>9, ClientStepIs
  <2>3. cl'[c] = x /\ \A d \in Clients \ {c} : cl'[d] = cl[d]
    BY <2>2 DEF SocketsTyped
  <2>4. ASSUME NEW g \in SocketFds, sfds'[g] \notin {"free", "dropped"}
        PROVE  Soc!Held(g)'
    <3>1. CASE sfds'[g] = "client" /\ Soc!Holds(x, g)
      BY <2>3, <3>1 DEF Soc!Held
    <3>2. CASE /\ sfds'[g] = sfds[g]
               /\ sfds[g] = "client" /\ Soc!Holds(cl[c], g) =>
                    Soc!Holds(x, g) \/ \E d \in Clients \ {c} : Soc!Holds(cl[d], g)
      <4>1. Soc!Held(g)
        BY <2>4, <3>2 DEF Soc!NoSocketLost
      <4>2. CASE sfds[g] = "client"
        <5>1. \E d \in Clients : Soc!Holds(cl[d], g)
          BY <4>1, <4>2 DEF Soc!Held
        <5>2. \E d \in Clients : Soc!Holds(cl'[d], g)
          BY <2>3, <3>2, <4>2, <5>1
        <5>. QED
          BY <3>2, <4>2, <5>2 DEF Soc!Held
      <4>3. CASE sfds[g] # "client"
        BY <2>1, <3>2, <4>1, <4>3 DEF Soc!Held
      <4>. QED
        BY <4>2, <4>3
    <3>. QED
      BY <2>2, <2>4, <3>1, <3>2 DEF Keeps
  <2>. QED
    BY <2>4 DEF Soc!NoSocketLost
<1>. QED
  BY <1>1, <1>2, <1>3, <1>4, <1>5, <1>6, <1>7, <1>8, <1>9 DEF Soc!Next, ClientStep

\* Whatever the threads do with the objects, in any order, with failures of any
\* call and descriptors closed twice, a socket is lost only when open() or
\* connect() overwrites the number of one that is open, when the client left
\* with the stream of such a number is deleted, or when onConnection() throws.
THEOREM NoSocketIsLost ==
  ASSUME Soc!Parameters PROVE Soc!Spec => []Soc!NoSocketLost
<1>. DEFINE Inv == SocketsTyped /\ Soc!NoSocketLost
<1>1. Soc!Init => Inv
  BY SocketsTypedInit DEF Soc!Init, Soc!NoSocketLost
<1>2. Inv /\ [Soc!Next]_(Soc!vars) => Inv'
  <2>. SUFFICES ASSUME SocketsTyped, Soc!NoSocketLost, [Soc!Next]_(Soc!vars) PROVE Inv'
    OBVIOUS
  <2>. QED
    BY SocketsTypedNext, SocketHeldNext
<1>3. Inv => Soc!NoSocketLost
  OBVIOUS
<1>. QED
  BY <1>1, <1>2, <1>3, PTL DEF Soc!Spec

\* What is open is closed before it is opened again, and handlers do not throw:
\* a client that writes to a descriptor is then connected, and nothing is dropped.
CarefulInv ==
  /\ SocketsTyped /\ Soc!NoSocketLost
  /\ \A g \in SocketFds : sfds[g] # "dropped"
  /\ \A c \in Clients : fault = "none" /\ clpc[c] = "idle" /\ cl[c].out = "live" =>
       cl[c].fd # Soc!NoFd

\* A step of a client of a careful program drops nothing.
LEMMA CarefulClient ==
  ASSUME Soc!Parameters, Careful, CarefulInv, NEW c \in Clients, ClientStep(c)
  PROVE  /\ \A g \in SocketFds : sfds'[g] # "dropped"
         /\ \A d \in Clients : fault' = "none" /\ clpc'[d] = "idle" /\ cl'[d].out = "live" =>
              cl'[d].fd # Soc!NoFd
<1>. DEFINE Live(d) == fault' = "none" /\ clpc'[d] = "idle" /\ cl'[d].out = "live" =>
                         cl'[d].fd # Soc!NoFd
            Kept == \A g \in SocketFds : sfds'[g] # "dropped"
<1>0. /\ SocketsTyped /\ \A g \in SocketFds : sfds[g] # "dropped"
      /\ cl[c] \in Sockets /\ Soc!NoFd \notin SocketFds /\ fault = "none"
      /\ cl[c].fd \in Holdable /\ cl[c].to \in Holdable
      /\ clpc[c] = "idle" /\ cl[c].out = "live" => cl[c].fd # Soc!NoFd
  BY SocketFdsAre DEF CarefulInv, SocketsTyped, Sockets, ClientStep, Soc!Connect, Soc!SocketFails,
         Soc!ConnectFails, Soc!MayConnect, Soc!In, Soc!Out, Soc!Disconnect, Soc!DisconnectOut,
         Soc!Renew, Soc!ClientRuns
<1>1. ASSUME NEW x \in Sockets, \A g \in SocketFds : Soc!Holds(cl[c], g) => Soc!Holds(x, g)
      PROVE  \A g \in SocketFds : Soc!Abandoned(c, x)[g] # "dropped"
  BY <1>0, <1>1, AbandonedIs
<1>2. ASSUME NEW f \in Holdable
      PROVE  \A g \in SocketFds : Soc!Closed(sfds, f)[g] # "dropped"
  BY <1>0, ClosedIs
<1>3. ASSUME NEW d \in Clients \ {c}, cl'[d] = cl[d], clpc'[d] = clpc[d]
      PROVE  Live(d)
  BY <1>0, <1>3 DEF CarefulInv
<1>4. \A d \in Clients \ {c} : cl'[d] = cl[d] /\ clpc'[d] = clpc[d]
  BY <1>0 DEF ClientStep, Soc!Connect, Soc!SocketFails, Soc!ConnectFails, Soc!DeleteStreams,
         Soc!In, Soc!Out, Soc!Disconnect, Soc!DisconnectOut, Soc!Renew, SocketsTyped
<1>5. CASE Soc!Connect(c)
  <2>1. PICK f \in SocketFds :
          /\ sfds' = [Soc!Abandoned(c, [cl[c] EXCEPT !.fd = f]) EXCEPT ![f] = "client"]
          /\ cl' = [cl EXCEPT ![c] = [cl[c] EXCEPT !.fd = f]]
    BY <1>5 DEF Soc!Connect
  <2>. DEFINE x == [cl[c] EXCEPT !.fd = f]
  <2>2. cl[c].fd = Soc!NoFd
    BY <1>5 DEF Soc!Connect, Soc!MayConnect
  <2>3. /\ x \in Sockets /\ x.fd = f
        /\ \A g \in SocketFds : Soc!Holds(cl[c], g) => Soc!Holds(x, g)
    BY <1>0, <2>2 DEF Sockets, Holdable, Soc!Holds
  <2>4. cl'[c].fd = f /\ f # Soc!NoFd
    BY <1>0, <2>1, <2>3 DEF SocketsTyped
  <2>. HIDE DEF x
  <2>5. \A g \in SocketFds : Soc!Abandoned(c, x)[g] # "dropped"
    BY <1>1, <2>3
  <2>6. Kept
    BY <2>1, <2>5, AbandonedIs, <1>0 DEF x
  <2>. QED
    BY <1>3, <1>4, <2>4, <2>6
<1>6. CASE Soc!SocketFails(c) \/ Soc!ConnectFails(c)
  <2>1. /\ cl[c].fd = Soc!NoFd /\ clpc[c] = "idle" /\ cl[c].out # "live"
        /\ sfds' = Soc!Abandoned(c, [cl[c] EXCEPT !.fd = Soc!NoFd])
    BY <1>0, <1>6 DEF Soc!SocketFails, Soc!ConnectFails, Soc!MayConnect
  <2>2. [cl[c] EXCEPT !.fd = Soc!NoFd] \in Sockets
    BY <1>0 DEF Sockets, Holdable
  <2>3. \A g \in SocketFds : ~Soc!Holds(cl[c], g)
    BY <1>0, <2>1 DEF Soc!Holds
  <2>4. Kept
    BY <1>1, <2>1, <2>2, <2>3
  <2>5. cl'[c].out = cl[c].out
    <3>1. \/ cl' = [cl EXCEPT ![c] = [cl[c] EXCEPT !.fd = Soc!NoFd]]
          \/ cl' = [cl EXCEPT ![c] = Deleted(cl[c])]
      BY <1>6, DeleteStreamsIs DEF Soc!SocketFails, Soc!ConnectFails
    <3>2. [cl[c] EXCEPT !.fd = Soc!NoFd].out = cl[c].out /\ Deleted(cl[c]).out = cl[c].out
      BY <1>0, DeletedIs DEF Sockets
    <3>. QED
      BY <1>0, <3>1, <3>2 DEF SocketsTyped
  <2>. QED
    BY <1>3, <1>4, <2>1, <2>4, <2>5
<1>7. CASE Soc!In(c) \/ Soc!Out(c)
  <2>1. sfds' = sfds /\ cl[c].fd # Soc!NoFd
    BY <1>7 DEF Soc!In, Soc!Out
  <2>2. cl'[c].fd = cl[c].fd
    <3>1. \/ cl' = cl
          \/ cl' = [cl EXCEPT ![c] = [cl[c] EXCEPT !.in = "live"]]
          \/ cl' = [cl EXCEPT ![c] = [cl[c] EXCEPT !.out = "live",
                                   !.to = IF cl[c].out = "live" THEN @ ELSE cl[c].fd]]
      BY <1>7 DEF Soc!In, Soc!Out
    <3>2. /\ [cl[c] EXCEPT !.in = "live"].fd = cl[c].fd
          /\ [cl[c] EXCEPT !.out = "live",
                           !.to = IF cl[c].out = "live" THEN @ ELSE cl[c].fd].fd = cl[c].fd
      BY <1>0 DEF Sockets
    <3>. QED
      BY <1>0, <3>1, <3>2 DEF SocketsTyped
  <2>. QED
    BY <1>0, <1>3, <1>4, <2>1, <2>2
<1>8. CASE Soc!Disconnect(c)
  <2>1. Kept
    BY <1>0, <1>2, <1>8 DEF Soc!Disconnect
  <2>2. ~(fault' = "none" /\ clpc'[c] = "idle" /\ cl'[c].out = "live")
    <3>1. cl'[c].out = cl[c].out
      BY <1>0, <1>8, DeletedIs, DeleteStreamsIs DEF Soc!Disconnect, SocketsTyped
    <3>2. \/ fault' = "deleted_twice"
          \/ cl[c].out # "live"
          \/ clpc' = [clpc EXCEPT ![c] = "delete"]
      BY <1>8 DEF Soc!Disconnect, Soc!DeleteStreams
    <3>. QED
      BY <1>0, <3>1, <3>2 DEF SocketsTyped
  <2>. QED
    BY <1>3, <1>4, <2>1, <2>2
<1>9. CASE Soc!DisconnectOut(c)
  <2>1. Kept
    BY <1>0, <1>2, <1>9 DEF Soc!DisconnectOut
  <2>2. cl'[c].out # "live"
    BY <1>0, <1>9 DEF Soc!DisconnectOut, SocketsTyped, Sockets
  <2>. QED
    BY <1>3, <1>4, <2>1, <2>2
<1>10. CASE Soc!Renew(c)
  <2>. DEFINE x == [fd |-> Soc!NoFd, in |-> "null", out |-> "null", to |-> Soc!NoFd]
  <2>1. /\ cl[c].fd = Soc!NoFd /\ cl[c].out # "live"
        /\ sfds' = Soc!Abandoned(c, x) /\ cl' = [cl EXCEPT ![c] = x]
    BY <1>0, <1>10 DEF Soc!Renew
  <2>2. \A g \in SocketFds : ~Soc!Holds(cl[c], g)
    BY <1>0, <2>1 DEF Soc!Holds
  <2>3. x \in Sockets /\ x.out # "live"
    BY DEF Sockets, Holdable, States
  <2>4. cl'[c].out # "live"
    BY <1>0, <2>1, <2>3 DEF SocketsTyped
  <2>. HIDE DEF x
  <2>5. Kept
    BY <1>1, <2>1, <2>2, <2>3
  <2>. QED
    BY <1>3, <1>4, <2>4, <2>5
<1>. QED
  BY <1>5, <1>6, <1>7, <1>8, <1>9, <1>10 DEF ClientStep

\* "Close the connection": in a program that closes what is open before it opens
\* it again, and whose handlers catch what they throw, every open socket is held
\* by the object that has to close it, whatever its threads do and whatever calls
\* of the system fail.
THEOREM CarefulHoldsAll ==
  ASSUME Soc!Parameters, Careful
  PROVE  Soc!Spec => []Soc!EverySocketHeld
<1>1. Soc!Init => CarefulInv
  BY SocketsTypedInit DEF Soc!Init, Soc!NoSocketLost, CarefulInv
<1>2. CarefulInv /\ [Soc!Next]_(Soc!vars) => CarefulInv'
  <2>. SUFFICES ASSUME CarefulInv, [Soc!Next]_(Soc!vars) PROVE CarefulInv'
    OBVIOUS
  <2>0. /\ SocketsTyped /\ SocketsTyped' /\ Soc!NoSocketLost' /\ Soc!NoFd \notin SocketFds
        /\ \A g \in SocketFds : sfds[g] # "dropped"
    BY SocketsTypedNext, SocketHeldNext, SocketFdsAre DEF CarefulInv
  <2>1. ASSUME UNCHANGED <<cl, clpc>>, fault' = "none" => fault = "none"
        PROVE  \A c \in Clients : fault' = "none" /\ clpc'[c] = "idle" /\ cl'[c].out = "live" =>
                 cl'[c].fd # Soc!NoFd
    BY <2>1 DEF CarefulInv
  <2>2. CASE UNCHANGED <<sfds, cl, clpc, fault>>
    BY <2>0, <2>1, <2>2 DEF CarefulInv
  <2>3. CASE Soc!Open \/ Soc!OptionFails \/ Soc!OpenFails
    <3>1. /\ UNCHANGED <<cl, clpc, fault>>
          /\ srv.sock # "live" \/ srv.fd = Soc!NoFd
          /\ \A g \in SocketFds :
               sfds'[g] = IF g = srv'.fd THEN "listen" ELSE Soc!SockDropped[g]
      BY <2>0, <2>3, OpenIs DEF Soc!Open, Soc!OptionFails, Soc!OpenFails, Soc!MayOpen
    <3>. QED
      BY <2>0, <2>1, <3>1, SockDroppedIs DEF CarefulInv
  <2>4. CASE Soc!CloseIdle \/ Soc!CloseInHandler \/ Soc!CloseOther \/ Soc!Destroy
    <3>1. Soc!DoClose /\ UNCHANGED <<cl, clpc>> /\ srv.fd \in Holdable
      BY <2>0, <2>4 DEF Soc!CloseIdle, Soc!CloseInHandler, Soc!CloseOther, Soc!Destroy,
                        SocketsTyped, Servers
    <3>2. sfds' = sfds \/ sfds' = Soc!Closed(sfds, srv.fd)
      BY <3>1 DEF Soc!DoClose
    <3>3. fault' = "none" => fault = "none"
      BY <3>1 DEF Soc!DoClose
    <3>. QED
      BY <2>0, <2>1, <3>1, <3>2, <3>3, ClosedIs DEF CarefulInv
  <2>5. CASE Soc!Manage \/ Soc!Loop \/ Soc!AcceptFails \/ Soc!Refused
    BY <2>2, <2>5 DEF Soc!Manage, Soc!Loop, Soc!AcceptFails, Soc!Refused, Soc!Throw
  <2>6. CASE Soc!Listen
    <3>1. UNCHANGED <<sfds, cl, clpc>> /\ fault = "none"
      BY <2>6 DEF Soc!Listen, Soc!ServerRuns
    <3>. QED
      BY <2>0, <2>1, <3>1 DEF CarefulInv
  <2>7. CASE Soc!Accept
    <3>1. /\ UNCHANGED <<cl, clpc, fault>>
          /\ \E f \in SocketFds : sfds' = [sfds EXCEPT ![f] = "connection"]
      BY <2>7 DEF Soc!Accept
    <3>. QED
      BY <2>0, <2>1, <3>1 DEF CarefulInv, SocketsTyped
  <2>8. CASE Soc!EndServe \/ Soc!DeleteOut
    <3>1. UNCHANGED <<cl, clpc, fault>> /\ sfds' = Soc!Closed(sfds, con) /\ con \in Holdable
      BY <2>0, <2>8 DEF Soc!EndServe, Soc!DeleteOut, SocketsTyped
    <3>. QED
      BY <2>0, <2>1, <3>1, ClosedIs DEF CarefulInv
  <2>9. ~Soc!HandlerThrows
    BY DEF Soc!HandlerThrows
  <2>10. ASSUME NEW c \in Clients, ClientStep(c)
         PROVE  CarefulInv'
    BY <2>0, <2>10, CarefulClient DEF CarefulInv
  <2>11. CASE UNCHANGED Soc!vars
    BY <2>2, <2>11 DEF Soc!vars
  <2>. QED
    BY <2>3, <2>4, <2>5, <2>6, <2>7, <2>8, <2>9, <2>10, <2>11 DEF Soc!Next, ClientStep
<1>3. CarefulInv => Soc!EverySocketHeld
  BY DEF CarefulInv, Soc!NoSocketLost, Soc!EverySocketHeld
<1>. QED
  BY <1>1, <1>2, <1>3, PTL DEF Soc!Spec

\* One thread uses the objects, in order: it closes the server from its handler
\* or when manage() has ended, once, and connects a client once.
OneThread == ~Preempt /\ ~OtherCloses /\ ~Reconnect /\ ~CloseTwice

LEMMA SocketsInvInit == Soc!Parameters /\ Soc!Init => SocketsInv
<1>. SUFFICES ASSUME Soc!Parameters, Soc!Init PROVE SocketsInv
  OBVIOUS
<1>1. SocketsTyped
  BY SocketsTypedInit
<1>. QED
  BY <1>1 DEF Soc!Init, SocketsInv, Soc!NoDeadObject, Soc!HeldIsOpen, DeletionOk,
              ClientsOk, ServerOk

\* The server's steps that open no descriptor and close none.
LEMMA ServerMoves ==
  ASSUME Soc!Parameters, OneThread, SocketsInv, SocketsTyped',
         Soc!Manage \/ Soc!Loop \/ Soc!Listen \/ Soc!AcceptFails \/ Soc!Refused
  PROVE  SocketsInv'
<1>0. /\ SocketsTyped /\ fault = "none" /\ Soc!HeldIsOpen /\ DeletionOk /\ ClientsOk
      /\ ServerOk
  BY DEF SocketsInv, Soc!NoDeadObject
<1>1. UNCHANGED <<sfds, con, cl, clpc>>
  BY DEF Soc!Manage, Soc!Loop, Soc!Listen, Soc!AcceptFails, Soc!Refused,
         Soc!Throw
<1>2. spc \notin {"serve", "delete"} /\ spc' \notin {"serve", "delete"}
  BY DEF Soc!Manage, Soc!Loop, Soc!Listen, Soc!AcceptFails, Soc!Refused,
         Soc!Throw
<1>3. DeletionOk' /\ ClientsOk'
  BY <1>0, <1>1, <1>2 DEF DeletionOk, ClientsOk
<1>4. /\ srv'.sock = "live" /\ srv'.fd # Soc!NoFd => srv.sock = "live" /\ srv'.fd = srv.fd
      /\ ServerOk' /\ fault' = "none"
  <2>1. CASE Soc!Manage
    <3>1. srv'.sock = "live" /\ srv.sock = "live" /\ srv'.fd = srv.fd
      BY <1>0, <2>1 DEF Soc!Manage, SocketsTyped, Servers
    <3>. QED
      BY <1>0, <2>1, <3>1 DEF Soc!Manage, ServerOk
  <2>2. CASE Soc!Loop \/ Soc!AcceptFails \/ Soc!Refused
    BY <1>0, <2>2 DEF Soc!Loop, Soc!AcceptFails, Soc!Refused, Soc!Throw, ServerOk
  <2>3. CASE Soc!Listen
    BY <1>0, <2>3 DEF Soc!Listen, ServerOk
  <2>. QED
    BY <2>1, <2>2, <2>3
<1>5. Soc!HeldIsOpen'
  BY <1>0, <1>1, <1>2, <1>4 DEF Soc!HeldIsOpen
<1>. QED
  BY <1>3, <1>4, <1>5 DEF SocketsInv, Soc!NoDeadObject

\* The server makes a socket, whose calls of the system may fail.
LEMMA ServerOpens ==
  ASSUME Soc!Parameters, OneThread, SocketsInv, SocketsTyped',
         Soc!Open \/ Soc!OptionFails \/ Soc!OpenFails
  PROVE  SocketsInv'
<1>0. /\ SocketsTyped /\ fault = "none" /\ Soc!HeldIsOpen /\ DeletionOk /\ ClientsOk
      /\ ServerOk
  BY DEF SocketsInv, Soc!NoDeadObject
<1>1. /\ \A c \in Clients : clpc[c] = "idle"
      /\ UNCHANGED <<spc, con, cl, clpc, fault>> /\ spc = "idle" /\ srv'.sock = "live"
  BY <1>0, OpenIs DEF Soc!Open, Soc!OptionFails, Soc!OpenFails, Soc!MayOpen,
                      Soc!ServerRuns, OneThread
<1>2. /\ \A g \in SocketFds : g = srv'.fd => sfds'[g] = "listen" /\ sfds[g] = "free"
      /\ \A g \in SocketFds : sfds[g] = "client" => sfds'[g] = "client"
  BY <1>0, OpenIs, SockDroppedIs
<1>3. /\ \A c \in Clients : cl[c].fd # Soc!NoFd => cl[c].fd \in SocketFds
      /\ srv'.fd # Soc!NoFd => srv'.fd \in SocketFds
  BY <1>0 DEF SocketsTyped, Sockets, Servers, Holdable
<1>4. Soc!HeldIsOpen'
  BY <1>0, <1>1, <1>2, <1>3 DEF Soc!HeldIsOpen
<1>5. DeletionOk' /\ ClientsOk' /\ ServerOk'
  BY <1>0, <1>1 DEF DeletionOk, ClientsOk, ServerOk
<1>. QED
  BY <1>0, <1>1, <1>4, <1>5 DEF SocketsInv, Soc!NoDeadObject

\* The server is closed, by its handler or when manage() has ended.
LEMMA ServerCloses ==
  ASSUME Soc!Parameters, OneThread, SocketsInv, SocketsTyped',
         Soc!CloseIdle \/ Soc!CloseInHandler
  PROVE  SocketsInv'
<1>0. /\ SocketsTyped /\ fault = "none" /\ Soc!HeldIsOpen /\ DeletionOk /\ ClientsOk
      /\ ServerOk
  BY DEF SocketsInv, Soc!NoDeadObject
<1>1. /\ spc \in {"idle", "serve"} /\ \A c \in Clients : clpc[c] = "idle"
      /\ srv.sock = "live" /\ Soc!DoClose /\ UNCHANGED <<spc, con, cl, clpc>>
  BY DEF Soc!CloseIdle, Soc!CloseInHandler, Soc!ServerRuns, OneThread
<1>2. /\ sfds' = Soc!Closed(sfds, srv.fd) /\ bound' = Soc!NoPort /\ fault' = fault
      /\ srv' = [srv EXCEPT !.on = FALSE, !.fd = Soc!NoFd, !.port = Soc!NoPort,
                            !.sock = IF @ = "live" THEN "deleted" ELSE @]
  BY <1>1 DEF Soc!DoClose
<1>3. ~srv'.on /\ srv'.sock = "deleted" /\ srv.fd \in Holdable
  BY <1>0, <1>1, <1>2 DEF SocketsTyped, Servers
<1>4. \A g \in SocketFds : sfds'[g] = IF g = srv.fd THEN "free" ELSE sfds[g]
  BY <1>0, <1>2, <1>3, ClosedIs
<1>5. /\ \A c \in Clients : cl[c].fd # Soc!NoFd =>
           cl[c].fd \in SocketFds /\ cl[c].fd # srv.fd
      /\ spc = "serve" => con \in SocketFds /\ con # srv.fd
  BY <1>0, <1>1, SocketFdsAre DEF Soc!HeldIsOpen, DeletionOk, SocketsTyped, Sockets,
                                 Holdable
<1>6. Soc!HeldIsOpen'
  BY <1>0, <1>1, <1>3, <1>4, <1>5 DEF Soc!HeldIsOpen
<1>7. DeletionOk' /\ ClientsOk' /\ ServerOk'
  BY <1>0, <1>1, <1>2, <1>3 DEF DeletionOk, ClientsOk, ServerOk
<1>. QED
  BY <1>0, <1>2, <1>6, <1>7 DEF SocketsInv, Soc!NoDeadObject

\* A connection is accepted, and deleted in two steps or forgotten.
LEMMA ConnectionMoves ==
  ASSUME Soc!Parameters, OneThread, SocketsInv, SocketsTyped',
         Soc!Accept \/ Soc!EndServe \/ Soc!DeleteOut \/ Soc!HandlerThrows
  PROVE  SocketsInv'
<1>0. /\ SocketsTyped /\ fault = "none" /\ Soc!HeldIsOpen /\ DeletionOk /\ ClientsOk
      /\ ServerOk
  BY DEF SocketsInv, Soc!NoDeadObject
<1>1. /\ \A c \in Clients : clpc[c] = "idle"
      /\ UNCHANGED <<srv, bound, cl, clpc, fault>>
  BY DEF Soc!Accept, Soc!EndServe, Soc!DeleteOut, Soc!HandlerThrows, Soc!ServerRuns,
         OneThread
<1>2. ClientsOk'
  BY <1>0, <1>1 DEF ClientsOk
<1>3. /\ \A c \in Clients : cl[c].fd # Soc!NoFd => cl[c].fd \in SocketFds
      /\ srv.fd # Soc!NoFd => srv.fd \in SocketFds
  BY <1>0 DEF SocketsTyped, Sockets, Servers, Holdable
<1>4. CASE Soc!Accept
  <2>1. PICK f \in SocketFds : /\ sfds[f] = "free" /\ con' = f
                              /\ sfds' = [sfds EXCEPT ![f] = "connection"]
    BY <1>4 DEF Soc!Accept, Soc!Fresh
  <2>2. sfds'[f] = "connection" /\ \A g \in SocketFds : g # f => sfds'[g] = sfds[g]
    BY <1>0, <2>1 DEF SocketsTyped
  <2>3. spc = "accept" /\ spc' = "serve"
    BY <1>4 DEF Soc!Accept
  <2>4. Soc!HeldIsOpen'
    BY <1>0, <1>1, <1>3, <2>1, <2>2, <2>3 DEF Soc!HeldIsOpen
  <2>5. DeletionOk' /\ ServerOk'
    BY <1>0, <1>1, <2>1, <2>3 DEF DeletionOk, ServerOk
  <2>. QED
    BY <1>0, <1>1, <1>2, <2>4, <2>5 DEF SocketsInv, Soc!NoDeadObject
<1>5. CASE Soc!EndServe
  <2>1. /\ spc = "serve" /\ spc' = "delete" /\ con' = con /\ con \in SocketFds
        /\ con \in Holdable /\ sfds' = Soc!Closed(sfds, con)
    BY <1>0, <1>5 DEF Soc!EndServe, DeletionOk, SocketsTyped
  <2>2. \A g \in SocketFds : sfds'[g] = IF g = con THEN "free" ELSE sfds[g]
    BY <1>0, <2>1, ClosedIs
  <2>3. sfds[con] = "connection"
    BY <1>0, <2>1 DEF Soc!HeldIsOpen
  <2>4. Soc!HeldIsOpen'
    BY <1>0, <1>1, <1>3, <2>1, <2>2, <2>3 DEF Soc!HeldIsOpen
  <2>5. DeletionOk' /\ ServerOk'
    BY <1>0, <1>1, <2>1, <2>2 DEF DeletionOk, ServerOk
  <2>. QED
    BY <1>0, <1>1, <1>2, <2>4, <2>5 DEF SocketsInv, Soc!NoDeadObject
<1>6. CASE Soc!DeleteOut
  <2>1. /\ spc = "delete" /\ spc' = "loop" /\ con \in SocketFds /\ sfds[con] = "free"
        /\ con \in Holdable /\ sfds' = Soc!Closed(sfds, con)
    BY <1>0, <1>6 DEF Soc!DeleteOut, DeletionOk, SocketsTyped
  <2>2. \A g \in SocketFds : sfds'[g] = sfds[g]
    BY <1>0, <2>1, ClosedIs
  <2>4. Soc!HeldIsOpen'
    BY <1>0, <1>1, <1>3, <2>1, <2>2 DEF Soc!HeldIsOpen
  <2>5. DeletionOk' /\ ServerOk'
    BY <1>0, <1>1, <2>1 DEF DeletionOk, ServerOk
  <2>. QED
    BY <1>0, <1>1, <1>2, <2>4, <2>5 DEF SocketsInv, Soc!NoDeadObject
<1>7. CASE Soc!HandlerThrows
  <2>1. /\ spc = "serve" /\ spc' = "idle" /\ con \in SocketFds /\ con \in Holdable
        /\ sfds' = Soc!Drop(sfds, con, "connection") /\ "connection" \in Marks
    BY <1>0, <1>7 DEF Soc!HandlerThrows, DeletionOk, SocketsTyped, Marks
  <2>2. \A g \in SocketFds : sfds[g] # "connection" => sfds'[g] = sfds[g]
    BY <1>0, <2>1, DropIs
  <2>3. Soc!HeldIsOpen'
    BY <1>0, <1>1, <1>3, <2>1, <2>2 DEF Soc!HeldIsOpen
  <2>4. DeletionOk' /\ ServerOk'
    BY <1>0, <1>1, <2>1 DEF DeletionOk, ServerOk
  <2>. QED
    BY <1>0, <1>1, <1>2, <2>3, <2>4 DEF SocketsInv, Soc!NoDeadObject
<1>. QED
  BY <1>4, <1>5, <1>6, <1>7

\* A client that ends with no descriptor and nothing to delete has taken
\* descriptors from nobody else.
LEMMA ClientQuiet ==
  ASSUME Soc!Parameters, SocketsInv, SocketsTyped', NEW c \in Clients,
         UNCHANGED <<srv, bound, spc, con, fault>>, spc # "delete",
         cl'[c].fd = Soc!NoFd, \A d \in Clients \ {c} : cl'[d] = cl[d],
         \A d \in Clients : clpc'[d] = "idle",
         \A g \in SocketFds : \/ sfds'[g] = sfds[g]
                              \/ /\ sfds[g] = "client"
                                 /\ \A d \in Clients \ {c} : cl[d].fd # g
  PROVE  SocketsInv'
<1>0. /\ SocketsTyped /\ fault = "none" /\ Soc!HeldIsOpen /\ DeletionOk /\ ClientsOk
      /\ ServerOk
  BY DEF SocketsInv, Soc!NoDeadObject
<1>1. /\ \A d \in Clients : cl[d].fd # Soc!NoFd => cl[d].fd \in SocketFds
      /\ srv.fd # Soc!NoFd => srv.fd \in SocketFds
  BY <1>0 DEF SocketsTyped, Sockets, Servers, Holdable
<1>2. Soc!HeldIsOpen'
  <2>1. srv.sock = "live" /\ srv.fd # Soc!NoFd => sfds'[srv.fd] = "listen"
    BY <1>0, <1>1 DEF Soc!HeldIsOpen
  <2>2. spc = "serve" => sfds'[con] = "connection"
    BY <1>0 DEF Soc!HeldIsOpen, DeletionOk
  <2>3. ASSUME NEW d \in Clients, cl'[d].fd # Soc!NoFd
        PROVE  sfds'[cl'[d].fd] = "client"
    <3>1. d # c /\ cl'[d].fd = cl[d].fd
      BY <2>3
    <3>. QED
      BY <1>0, <1>1, <2>3, <3>1 DEF Soc!HeldIsOpen
  <2>. QED
    BY <2>1, <2>2, <2>3 DEF Soc!HeldIsOpen
<1>3. DeletionOk' /\ ServerOk'
  BY <1>0 DEF DeletionOk, ServerOk
<1>4. ClientsOk'
  BY <1>0 DEF ClientsOk
<1>. QED
  BY <1>0, <1>2, <1>3, <1>4 DEF SocketsInv, Soc!NoDeadObject

\* A client connects, takes its streams, disconnects in two steps.
LEMMA ClientMoves ==
  ASSUME Soc!Parameters, OneThread, SocketsInv, SocketsTyped', NEW c \in Clients,
         ClientStep(c)
  PROVE  SocketsInv'
<1>0. /\ SocketsTyped /\ fault = "none" /\ Soc!HeldIsOpen /\ DeletionOk /\ ClientsOk
      /\ ServerOk
  BY DEF SocketsInv, Soc!NoDeadObject
<1>1. /\ spc # "delete" /\ \A d \in Clients \ {c} : clpc[d] = "idle"
      /\ UNCHANGED <<srv, bound, spc, con>>
  BY DEF ClientStep, Soc!Connect, Soc!SocketFails, Soc!ConnectFails, Soc!MayConnect,
         Soc!In, Soc!Out, Soc!Disconnect, Soc!DisconnectOut, Soc!Renew, Soc!ClientRuns,
         Soc!server, OneThread
<1>2. ServerOk'
  BY <1>0, <1>1 DEF ServerOk
<1>3. /\ cl[c] \in Sockets /\ Soc!NoFd \notin SocketFds
      /\ \A d \in Clients : cl[d].fd # Soc!NoFd => cl[d].fd \in SocketFds
      /\ srv.fd # Soc!NoFd => srv.fd \in SocketFds
      /\ \A d \in Clients : cl[d].fd \in Holdable
      /\ cl[c].to \in Holdable
      /\ cl \in [Clients -> Sockets] /\ clpc \in [Clients -> {"idle", "delete"}]
  BY <1>0, SocketFdsAre DEF SocketsTyped, Sockets, Servers, Holdable
<1>4. ASSUME NEW x \in Sockets
      PROVE  \A g \in SocketFds : \/ Soc!Abandoned(c, x)[g] = sfds[g]
                                  \/ /\ sfds[g] = "client"
                                     /\ \A d \in Clients \ {c} : cl[d].fd # g
  <2>. SUFFICES ASSUME NEW g \in SocketFds, Soc!Abandoned(c, x)[g] # sfds[g]
                PROVE  sfds[g] = "client" /\ \A d \in Clients \ {c} : cl[d].fd # g
    OBVIOUS
  <2>1. sfds[g] = "client" /\ \A d \in Clients \ {c} : ~Soc!Holds(cl[d], g)
    BY <1>0, AbandonedIs
  <2>. QED
    BY <2>1 DEF Soc!Holds
<1>5. CASE Soc!Connect(c)
  <2>1. PICK f \in SocketFds :
          /\ sfds[f] = "free"
          /\ sfds' = [Soc!Abandoned(c, [cl[c] EXCEPT !.fd = f]) EXCEPT ![f] = "client"]
          /\ cl' = [cl EXCEPT ![c] = [cl[c] EXCEPT !.fd = f]]
    BY <1>5 DEF Soc!Connect, Soc!Fresh
  <2>. DEFINE x == [cl[c] EXCEPT !.fd = f]
  <2>2. /\ cl[c].in = "null" /\ cl[c].out = "null" /\ UNCHANGED <<clpc, fault>>
        /\ clpc[c] = "idle"
    BY <1>5 DEF Soc!Connect, Soc!MayConnect, OneThread
  <2>3. x \in Sockets /\ x.fd = f /\ x.in = "null" /\ x.out = "null"
    BY <1>3, <2>2 DEF Sockets, Holdable
  <2>4. cl'[c] = x /\ \A d \in Clients \ {c} : cl'[d] = cl[d]
    BY <1>3, <2>1
  <2>. HIDE DEF x
  <2>5. /\ sfds'[f] = "client"
        /\ \A g \in SocketFds : g # f => sfds'[g] = Soc!Abandoned(c, x)[g]
    BY <1>0, <2>1, <2>3, AbandonedIs DEF x
  <2>6. \A d \in Clients \ {c} : cl[d].fd # f
    BY <1>0, <1>3, <2>1 DEF Soc!HeldIsOpen
  <2>7. Soc!HeldIsOpen'
    <3>1. srv.sock = "live" /\ srv.fd # Soc!NoFd => sfds'[srv.fd] = "listen"
      BY <1>0, <1>3, <1>4, <2>1, <2>3, <2>5 DEF Soc!HeldIsOpen
    <3>2. spc = "serve" => sfds'[con] = "connection"
      BY <1>0, <1>4, <2>1, <2>3, <2>5 DEF Soc!HeldIsOpen, DeletionOk
    <3>3. ASSUME NEW d \in Clients, cl'[d].fd # Soc!NoFd PROVE sfds'[cl'[d].fd] = "client"
      <4>1. CASE d = c
        BY <2>3, <2>4, <2>5, <4>1
      <4>2. CASE d # c
        BY <1>0, <1>3, <1>4, <2>3, <2>4, <2>5, <2>6, <3>3, <4>2 DEF Soc!HeldIsOpen
      <4>. QED
        BY <4>1, <4>2
    <3>. QED
      BY <1>1, <3>1, <3>2, <3>3 DEF Soc!HeldIsOpen
  <2>8. DeletionOk'
    BY <1>0, <1>1, <2>2 DEF DeletionOk
  <2>9. ClientsOk'
    BY <1>0, <2>3, <2>4, <2>6 DEF ClientsOk
  <2>. QED
    BY <1>0, <1>2, <2>2, <2>7, <2>8, <2>9 DEF SocketsInv, Soc!NoDeadObject
<1>6. CASE Soc!SocketFails(c) \/ Soc!ConnectFails(c)
  <2>. DEFINE x == [cl[c] EXCEPT !.fd = Soc!NoFd]
  <2>1. /\ cl[c].in = "null" /\ cl[c].out = "null" /\ clpc[c] = "idle"
        /\ sfds' = Soc!Abandoned(c, x)
    BY <1>6 DEF Soc!SocketFails, Soc!ConnectFails, Soc!MayConnect, OneThread
  <2>2. x \in Sockets /\ x.fd = Soc!NoFd
    BY <1>3 DEF Sockets, Holdable
  <2>3. \/ cl' = [cl EXCEPT ![c] = x] /\ UNCHANGED <<clpc, fault>>
        \/ cl' = [cl EXCEPT ![c] = Deleted(cl[c])] /\ Soc!DeleteStreams(c)
    BY <1>6, DeleteStreamsIs DEF Soc!SocketFails, Soc!ConnectFails
  <2>4. UNCHANGED <<clpc, fault>>
    BY <1>3, <2>1, <2>3 DEF Soc!DeleteStreams
  <2>. HIDE DEF x
  <2>5. cl'[c].fd = Soc!NoFd /\ \A d \in Clients \ {c} : cl'[d] = cl[d]
    <3>1. Deleted(cl[c]).fd = Soc!NoFd
      BY <1>3, DeletedIs
    <3>2. \/ cl' = [cl EXCEPT ![c] = x]
          \/ cl' = [cl EXCEPT ![c] = Deleted(cl[c])]
      BY <2>3
    <3>. QED
      BY <1>3, <2>2, <3>1, <3>2
  <2>6. \A d \in Clients : clpc'[d] = "idle"
    BY <1>1, <2>1, <2>4
  <2>. QED
    BY <1>1, <1>4, <2>1, <2>2, <2>4, <2>5, <2>6, ClientQuiet
<1>7. CASE Soc!In(c) \/ Soc!Out(c)
  <2>1. cl[c].fd # Soc!NoFd /\ clpc[c] = "idle" /\ UNCHANGED <<sfds, clpc>>
    BY <1>7 DEF Soc!In, Soc!Out
  <2>2. /\ cl[c].in # "deleted" /\ cl[c].out # "deleted"
        /\ cl[c].out = "live" => cl[c].to = cl[c].fd
    BY <1>0, <2>1 DEF ClientsOk
  <2>. DEFINE y == [cl[c] EXCEPT !.in = "live"]
              z == [cl[c] EXCEPT !.out = "live",
                                 !.to = IF cl[c].out = "live" THEN @ ELSE cl[c].fd]
  <2>3. fault' = fault /\ (cl' = [cl EXCEPT ![c] = y] \/ cl' = [cl EXCEPT ![c] = z])
    BY <1>7, <2>2 DEF Soc!In, Soc!Out
  <2>4. /\ y.fd = cl[c].fd /\ y.in = "live" /\ y.out = cl[c].out /\ y.to = cl[c].to
        /\ z.fd = cl[c].fd /\ z.in = cl[c].in /\ z.out = "live" /\ z.to = cl[c].fd
    BY <1>3, <2>2 DEF Sockets
  <2>5. (cl'[c] = y \/ cl'[c] = z) /\ \A d \in Clients \ {c} : cl'[d] = cl[d]
    BY <1>3, <2>3
  <2>. HIDE DEF y, z
  <2>6. /\ cl'[c].fd = cl[c].fd /\ cl'[c].in # "deleted" /\ cl'[c].out # "deleted"
        /\ cl'[c].out = "live" => cl'[c].to = cl'[c].fd
    BY <2>2, <2>4, <2>5
  <2>7. Soc!HeldIsOpen'
    BY <1>0, <1>1, <2>1, <2>5, <2>6 DEF Soc!HeldIsOpen
  <2>8. DeletionOk'
    BY <1>0, <1>1, <2>1 DEF DeletionOk
  <2>9. ClientsOk'
    BY <1>0, <2>1, <2>5, <2>6 DEF ClientsOk
  <2>. QED
    BY <1>0, <1>2, <2>3, <2>7, <2>8, <2>9 DEF SocketsInv, Soc!NoDeadObject
<1>8. CASE Soc!Disconnect(c)
  <2>1. /\ cl[c].fd # Soc!NoFd /\ clpc[c] = "idle" /\ Soc!DeleteStreams(c)
        /\ sfds' = Soc!Closed(sfds, cl[c].fd)
    BY <1>8 DEF Soc!Disconnect
  <2>2. /\ cl[c].in # "deleted" /\ cl[c].out # "deleted"
        /\ cl[c].out = "live" => cl[c].to = cl[c].fd
    BY <1>0, <2>1 DEF ClientsOk
  <2>3. /\ fault' = fault
        /\ clpc' = [clpc EXCEPT ![c] = IF cl[c].out = "live" THEN "delete" ELSE @]
    BY <2>1, <2>2 DEF Soc!DeleteStreams
  <2>4. /\ cl'[c] = Deleted(cl[c]) /\ \A d \in Clients \ {c} : cl'[d] = cl[d]
        /\ \A d \in Clients \ {c} : clpc'[d] = clpc[d]
        /\ clpc'[c] = IF cl[c].out = "live" THEN "delete" ELSE "idle"
    BY <1>3, <2>1, <2>3, DeleteStreamsIs
  <2>5. cl'[c].fd = Soc!NoFd /\ cl'[c].to = cl[c].to
    BY <1>3, <2>4, DeletedIs
  <2>6. \A g \in SocketFds : sfds'[g] = IF g = cl[c].fd THEN "free" ELSE sfds[g]
    BY <1>0, <1>3, <2>1, ClosedIs
  <2>7. sfds[cl[c].fd] = "client" /\ \A d \in Clients \ {c} : cl[d].fd # cl[c].fd
    BY <1>0, <2>1 DEF Soc!HeldIsOpen, ClientsOk
  <2>8. Soc!HeldIsOpen'
    <3>1. srv.sock = "live" /\ srv.fd # Soc!NoFd => sfds'[srv.fd] = "listen"
      BY <1>0, <1>3, <2>6, <2>7 DEF Soc!HeldIsOpen
    <3>2. spc = "serve" => sfds'[con] = "connection"
      BY <1>0, <2>6, <2>7 DEF Soc!HeldIsOpen, DeletionOk
    <3>3. ASSUME NEW d \in Clients, cl'[d].fd # Soc!NoFd
          PROVE  sfds'[cl'[d].fd] = "client"
      BY <1>0, <1>3, <2>4, <2>5, <2>6, <2>7, <3>3 DEF Soc!HeldIsOpen
    <3>. QED
      BY <1>1, <3>1, <3>2, <3>3 DEF Soc!HeldIsOpen
  <2>9. DeletionOk'
    <3>1. spc' = "serve" => con' \in SocketFds
      BY <1>0, <1>1 DEF DeletionOk
    <3>2. ASSUME NEW d \in Clients, clpc'[d] = "delete"
          PROVE  /\ d = c /\ cl'[d].fd = Soc!NoFd
                 /\ cl'[d].to \in SocketFds /\ sfds'[cl'[d].to] = "free"
      <4>1. d = c /\ cl[c].out = "live"
        BY <1>1, <2>4, <3>2
      <4>. QED
        BY <1>3, <2>1, <2>2, <2>5, <2>6, <4>1
    <3>. QED
      BY <1>1, <2>4, <3>1, <3>2 DEF DeletionOk
  <2>10. ClientsOk'
    BY <1>0, <2>4, <2>5 DEF ClientsOk
  <2>. QED
    BY <1>0, <1>2, <2>3, <2>8, <2>9, <2>10 DEF SocketsInv, Soc!NoDeadObject
<1>9. CASE Soc!DisconnectOut(c)
  <2>1. /\ clpc[c] = "delete" /\ sfds' = Soc!Closed(sfds, cl[c].to) /\ fault' = fault
        /\ cl' = [cl EXCEPT ![c].out = "deleted", ![c].to = Soc!NoFd]
        /\ clpc' = [clpc EXCEPT ![c] = "idle"]
    BY <1>9 DEF Soc!DisconnectOut
  <2>2. cl[c].fd = Soc!NoFd /\ sfds[cl[c].to] = "free"
    BY <1>0, <2>1 DEF DeletionOk
  <2>3. \A g \in SocketFds : sfds'[g] = sfds[g]
    BY <1>0, <1>3, <2>1, <2>2, ClosedIs
  <2>4. /\ cl'[c].fd = Soc!NoFd /\ \A d \in Clients \ {c} : cl'[d] = cl[d]
        /\ \A d \in Clients : clpc'[d] = "idle"
    BY <1>1, <1>3, <2>1, <2>2 DEF Sockets
  <2>. QED
    BY <1>1, <2>1, <2>3, <2>4, ClientQuiet
<1>10. CASE Soc!Renew(c)
  <2>. DEFINE x == [fd |-> Soc!NoFd, in |-> "null", out |-> "null", to |-> Soc!NoFd]
  <2>1. /\ clpc[c] = "idle" /\ UNCHANGED <<clpc, fault>>
        /\ sfds' = Soc!Abandoned(c, x) /\ cl' = [cl EXCEPT ![c] = x]
    BY <1>10 DEF Soc!Renew
  <2>2. x \in Sockets /\ x.fd = Soc!NoFd
    BY DEF Sockets, Holdable, States
  <2>3. cl'[c].fd = Soc!NoFd /\ \A d \in Clients \ {c} : cl'[d] = cl[d]
    BY <1>3, <2>1, <2>2
  <2>. HIDE DEF x
  <2>4. \A d \in Clients : clpc'[d] = "idle"
    BY <1>1, <2>1
  <2>. QED
    BY <1>1, <1>4, <2>1, <2>2, <2>3, <2>4, ClientQuiet
<1>. QED
  BY <1>5, <1>6, <1>7, <1>8, <1>9, <1>10 DEF ClientStep

LEMMA SocketsInvNext ==
  ASSUME Soc!Parameters, OneThread, SocketsInv, [Soc!Next]_(Soc!vars)
  PROVE  SocketsInv'
<1>0. SocketsTyped'
  BY SocketsTypedNext DEF SocketsInv
<1>1. CASE UNCHANGED Soc!vars
  BY <1>0, <1>1 DEF Soc!vars, SocketsInv, Soc!NoDeadObject, Soc!HeldIsOpen, DeletionOk,
                    ClientsOk, ServerOk
<1>2. ~Soc!CloseOther /\ ~Soc!Destroy
  BY DEF OneThread, Soc!CloseOther, Soc!Destroy
<1>. QED
  BY <1>0, <1>1, <1>2, ServerMoves, ServerOpens, ServerCloses, ConnectionMoves,
     ClientMoves DEF Soc!Next, ClientStep

\* When one thread uses a server and its clients in order, whatever calls fail,
\* what an object holds is its own open descriptor and no object is used after
\* its deletion.
THEOREM SocketsAreSound ==
  ASSUME Soc!Parameters, OneThread
  PROVE  Soc!Spec => [](Soc!HeldIsOpen /\ Soc!NoDeadObject)
<1>1. Soc!Init => SocketsInv
  BY SocketsInvInit
<1>2. SocketsInv /\ [Soc!Next]_(Soc!vars) => SocketsInv'
  BY SocketsInvNext
<1>3. SocketsInv => Soc!HeldIsOpen /\ Soc!NoDeadObject
  BY DEF SocketsInv
<1>. QED
  BY <1>1, <1>2, <1>3, PTL DEF Soc!Spec

\* port() is the port the socket is bound to, whatever threads do, when the
\* program has chosen that port.
THEOREM PortIsKept ==
  ASSUME Soc!Parameters, GivenPort # Soc!NoPort
  PROVE  Soc!Spec => []Soc!PortIsBound
<1>. DEFINE Inv == /\ SocketsTyped
                   /\ bound # Soc!NoPort => srv.sock = "live" /\ srv.port = bound
<1>1. Soc!Init => Inv
  BY SocketsTypedInit DEF Soc!Init
<1>2. Inv /\ [Soc!Next]_(Soc!vars) => Inv'
  <2>. SUFFICES ASSUME SocketsTyped, [Soc!Next]_(Soc!vars),
                       bound # Soc!NoPort => srv.sock = "live" /\ srv.port = bound
                PROVE  bound' # Soc!NoPort => srv'.sock = "live" /\ srv'.port = bound'
    BY SocketsTypedNext
  <2>1. CASE UNCHANGED <<srv, bound>>
    BY <2>1
  <2>2. CASE Soc!Open
    BY <2>2 DEF Soc!Open, Soc!Listening, SocketsTyped, Servers
  <2>3. CASE Soc!OpenFails
    BY <2>3 DEF Soc!OpenFails, SocketsTyped, Servers
  <2>4. CASE Soc!OptionFails
    BY <2>4 DEF Soc!OptionFails, Soc!Listening, SocketsTyped, Servers
  <2>5. CASE Soc!CloseIdle \/ Soc!CloseInHandler \/ Soc!CloseOther \/ Soc!Destroy
    BY <2>5 DEF Soc!CloseIdle, Soc!CloseInHandler, Soc!CloseOther, Soc!Destroy, Soc!DoClose
  <2>6. CASE Soc!Manage
    BY <2>6 DEF Soc!Manage, SocketsTyped, Servers
  <2>7. CASE \/ UNCHANGED Soc!vars \/ Soc!Loop \/ Soc!Listen \/ Soc!AcceptFails
             \/ Soc!Refused \/ Soc!Accept \/ Soc!EndServe \/ Soc!DeleteOut
             \/ Soc!HandlerThrows
    <3>1. UNCHANGED <<srv, bound>>
      BY <2>7 DEF Soc!vars, Soc!Loop, Soc!Listen, Soc!AcceptFails, Soc!Refused, Soc!Throw,
                  Soc!Accept, Soc!EndServe, Soc!DeleteOut, Soc!HandlerThrows
    <3>. QED
      BY <2>1, <3>1
  <2>8. ASSUME NEW c \in Clients, ClientStep(c)
        PROVE  UNCHANGED <<srv, bound>>
    BY <2>8, ClientStepIs
  <2>. QED
    BY <2>1, <2>2, <2>3, <2>4, <2>5, <2>6, <2>7, <2>8 DEF Soc!Next, ClientStep
<1>3. Inv => Soc!PortIsBound
  BY DEF Soc!PortIsBound
<1>. QED
  BY <1>1, <1>2, <1>3, PTL DEF Soc!Spec


=============================================================================
