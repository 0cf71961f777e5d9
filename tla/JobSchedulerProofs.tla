------------------------- MODULE JobSchedulerProofs -------------------------
(***************************************************************************)
(* Machine-checked proofs about JobScheduler, for every set of jobs, every *)
(* number of threads and every set of throwing callbacks.                  *)
(***************************************************************************)
EXTENDS JobScheduler, TLAPS

-----------------------------------------------------------------------------
(* The inductive invariant, in named parts.                                 *)

Workers == Threads \ {Main}

\* A thread holds a job exactly between next() and the end of harvest(),
\* except when an exception unwound it.
HoldsJob ==
  \A t \in Threads :
    /\ pc[t] \in InLoop => job[t] # NoJob
    /\ pc[t] \notin InLoop \union {"escaped", "gone"} => job[t] = NoJob

\* The mutex belongs to the thread that is in the critical section.
MutexInv ==
  /\ \A t \in Threads : pc[t] \in Locked => mutex = t
  /\ \A t \in Threads : mutex = t => pc[t] \in Locked \union {"escaped", "gone"}

\* Which places are the caller's and which are the workers'.
PlacesInv ==
  /\ \A t \in Workers : pc[t] \in InRun \union {"none", "made", "done"}
  /\ pc[Main] \notin {"none", "made", "done"}

\* How far the loops of start() over thds have come.
LoopInv ==
  /\ pc[Main] \in {"idle", "out", "outExn", "outOk"} =>
       \A t \in Workers : pc[t] = "none"
  /\ pc[Main] \in {"arm", "spawn", "join"} \union InRun =>
       \A t \in Workers : t >= cnt => pc[t] = "none"
  /\ pc[Main] \in {"spawn", "join"} => i >= 1
  /\ pc[Main] \in InRun => i = 1
  /\ pc[Main] = "arm" =>
       \A t \in Workers : t < cnt => pc[t] = "made"
  /\ pc[Main] = "spawn" =>
       \A t \in Workers : i <= t /\ t < cnt => pc[t] = "made"
  /\ pc[Main] = "join" =>
       \A t \in Workers : t < i /\ t < cnt => pc[t] = "done"

ThreadInv == TypeOK /\ HoldsJob /\ MutexInv /\ PlacesInv /\ LoopInv

-----------------------------------------------------------------------------
(* The invariant holds initially and every step preserves it.               *)

LEMMA ThreadFacts ==
  /\ Main \in Threads
  /\ Workers \subseteq Threads /\ Main \notin Workers
  /\ \A t \in Workers : t \in Nat /\ t >= 1
  /\ NoThread \notin Threads
  /\ \A n \in 0 .. MaxThreads : \A k \in 0 .. MaxThreads : k < n => k \in Threads
BY ThreadsAssumption DEF Threads, Main, NoThread, Workers

LEMMA TypeInit == JobScheduler => TypeOK
<1> SUFFICES ASSUME JobScheduler PROVE TypeOK
  OBVIOUS
<1> USE DEF JobScheduler
<1>1. state \in {"WAIT", "RUN", "STOP", "EXN"} /\ todo \subseteq Jobs
  OBVIOUS
<1>2. cnt \in 0 .. MaxThreads /\ i \in 0 .. MaxThreads
  BY ThreadsAssumption
<1>3. err \in Jobs \union {NoJob} /\ mutex \in Threads \union {NoThread}
  OBVIOUS
<1>4. pc \in [Threads -> Places]
  BY DEF Places
<1>5. job \in [Threads -> Jobs \union {NoJob}]
  OBVIOUS
<1>6. result \in {"none", "ok", "exn", "badcount"} \X (Jobs \union {NoJob})
  OBVIOUS
<1>7. crashed \in BOOLEAN /\ stopped \in BOOLEAN
  OBVIOUS
<1>8. harvested \subseteq Jobs /\ failed \subseteq Jobs
  OBVIOUS
<1>9. QED
  BY <1>1, <1>2, <1>3, <1>4, <1>5, <1>6, <1>7, <1>8 DEF TypeOK

LEMMA ThreadClient ==
  ASSUME ThreadInv, client PROVE ThreadInv'
<1> USE JobsAssumption, ThreadsAssumption, ThreadFacts
    DEF ThreadInv, Workers, historyVars, Main
<1>1. ASSUME NEW S \in SUBSET Roots, setProducer(S) PROVE ThreadInv'
  <2>1. TypeOK'
    BY <1>1 DEF setProducer, assertp, TypeOK, Places, InRun, InLoop, HoldsJob
  <2>2. HoldsJob'
    BY <1>1 DEF setProducer, assertp, TypeOK, HoldsJob, InRun, InLoop
  <2>3. MutexInv'
    BY <1>1 DEF setProducer, assertp, TypeOK, MutexInv, Locked, InRun
  <2>4. PlacesInv'
    BY <1>1 DEF setProducer, assertp, TypeOK, PlacesInv, InRun
  <2>5. LoopInv'
    BY <1>1 DEF setProducer, assertp, TypeOK, LoopInv, PlacesInv, InRun, Locked
  <2>6. QED
    BY <2>1, <2>2, <2>3, <2>4, <2>5
<1>2. ASSUME NEW c \in 0 .. MaxThreads, setThreadCount(c) PROVE ThreadInv'
  <2>1. TypeOK'
    BY <1>2 DEF setThreadCount, assertp, TypeOK, Places, InRun, InLoop, HoldsJob
  <2>2. HoldsJob'
    BY <1>2 DEF setThreadCount, assertp, TypeOK, HoldsJob, InRun, InLoop
  <2>3. MutexInv'
    BY <1>2 DEF setThreadCount, assertp, TypeOK, MutexInv, Locked, InRun
  <2>4. PlacesInv'
    BY <1>2 DEF setThreadCount, assertp, TypeOK, PlacesInv, InRun
  <2>5. LoopInv'
    BY <1>2 DEF setThreadCount, assertp, TypeOK, LoopInv, PlacesInv, InRun, Locked
  <2>6. QED
    BY <2>1, <2>2, <2>3, <2>4, <2>5
<1>3. CASE stop
  <2>1. TypeOK'
    BY <1>3 DEF stop, TypeOK, Places, InRun, InLoop, HoldsJob
  <2>2. HoldsJob'
    BY <1>3 DEF stop, TypeOK, HoldsJob, InRun, InLoop
  <2>3. MutexInv'
    BY <1>3 DEF stop, TypeOK, MutexInv, Locked, InRun
  <2>4. PlacesInv'
    BY <1>3 DEF stop, TypeOK, PlacesInv, InRun
  <2>5. LoopInv'
    BY <1>3 DEF stop, TypeOK, LoopInv, PlacesInv, InRun, Locked
  <2>6. QED
    BY <2>1, <2>2, <2>3, <2>4, <2>5
<1>4. CASE destroy
  <2>1. TypeOK'
    BY <1>4 DEF destroy, TypeOK, Places, InRun, InLoop, HoldsJob
  <2>2. HoldsJob'
    BY <1>4 DEF destroy, TypeOK, HoldsJob, InRun, InLoop
  <2>3. MutexInv'
    BY <1>4 DEF destroy, TypeOK, MutexInv, Locked, InRun
  <2>4. PlacesInv'
    BY <1>4 DEF destroy, TypeOK, PlacesInv, InRun
  <2>5. LoopInv'
    BY <1>4 DEF destroy, TypeOK, LoopInv, PlacesInv, InRun, Locked
  <2>6. QED
    BY <2>1, <2>2, <2>3, <2>4, <2>5
<1>5. QED
  BY <1>1, <1>2, <1>3, <1>4 DEF client

LEMMA ThreadStart ==
  ASSUME ThreadInv, start PROVE ThreadInv'
<1> USE JobsAssumption, ThreadsAssumption, ThreadFacts
    DEF ThreadInv, Workers, historyVars
<1>1. CASE StartBadCount
  <2>1. TypeOK'
    BY <1>1 DEF StartBadCount, TypeOK, Places, InRun, InLoop, HoldsJob
  <2>2. HoldsJob'
    BY <1>1 DEF StartBadCount, TypeOK, HoldsJob, InRun, InLoop
  <2>3. MutexInv'
    BY <1>1 DEF StartBadCount, TypeOK, MutexInv, Locked, InRun
  <2>4. PlacesInv'
    BY <1>1 DEF StartBadCount, TypeOK, PlacesInv, InRun
  <2>5. LoopInv'
    BY <1>1 DEF StartBadCount, TypeOK, LoopInv, PlacesInv, InRun, Locked
  <2>6. QED
    BY <2>1, <2>2, <2>3, <2>4, <2>5
<1>2. CASE StartMake
  <2>0. \A t \in Threads : pc[t] \in {"none", "idle"}
    BY <1>2 DEF StartMake, LoopInv
  <2>1. TypeOK'
    BY <1>2 DEF StartMake, TypeOK, Places, InRun, InLoop, HoldsJob
  <2>2. HoldsJob'
    BY <1>2, <2>0 DEF StartMake, TypeOK, HoldsJob, InRun, InLoop
  <2>3. MutexInv'
    BY <1>2, <2>0 DEF StartMake, TypeOK, MutexInv, Locked, InRun
  <2>4. PlacesInv'
    BY <1>2 DEF StartMake, TypeOK, PlacesInv, InRun
  <2>5. LoopInv'
    BY <1>2 DEF StartMake, TypeOK, LoopInv, PlacesInv, InRun, Locked
  <2>6. QED
    BY <2>1, <2>2, <2>3, <2>4, <2>5
<1>3. CASE StartArm
  <2>1. TypeOK'
    BY <1>3 DEF StartArm, TypeOK, Places, InRun, InLoop, HoldsJob
  <2>2. HoldsJob'
    BY <1>3 DEF StartArm, TypeOK, HoldsJob, InRun, InLoop
  <2>3. MutexInv'
    BY <1>3 DEF StartArm, TypeOK, MutexInv, Locked, InRun
  <2>4. PlacesInv'
    BY <1>3 DEF StartArm, TypeOK, PlacesInv, InRun
  <2>5. LoopInv'
    BY <1>3 DEF StartArm, TypeOK, LoopInv, PlacesInv, InRun, Locked
  <2>6. QED
    BY <2>1, <2>2, <2>3, <2>4, <2>5
<1>4. CASE StartSpawn
  <2>0. i < cnt => i \in Workers /\ pc[i] = "made"
    BY <1>4 DEF StartSpawn, TypeOK, LoopInv, Main
  <2>1. TypeOK'
    BY <1>4 DEF StartSpawn, TypeOK, Places, InRun, InLoop, HoldsJob
  <2>2. HoldsJob'
    BY <1>4, <2>0 DEF StartSpawn, TypeOK, HoldsJob, InRun, InLoop
  <2>3. MutexInv'
    BY <1>4, <2>0 DEF StartSpawn, TypeOK, MutexInv, Locked, InRun
  <2>4. PlacesInv'
    BY <1>4, <2>0 DEF StartSpawn, TypeOK, PlacesInv, InRun
  <2>5. LoopInv'
    BY <1>4, <2>0 DEF StartSpawn, TypeOK, LoopInv, PlacesInv, InRun, Locked
  <2>6. QED
    BY <2>1, <2>2, <2>3, <2>4, <2>5
<1>5. CASE StartJoin
  <2>0. i >= cnt => \A t \in Threads : pc[t] \in {"none", "done", "join"}
    BY <1>5 DEF StartJoin, TypeOK, LoopInv
  <2>1. TypeOK'
    BY <1>5 DEF StartJoin, TypeOK, Places, InRun, InLoop, HoldsJob
  <2>2. HoldsJob'
    BY <1>5, <2>0 DEF StartJoin, TypeOK, HoldsJob, InRun, InLoop
  <2>3. MutexInv'
    BY <1>5, <2>0 DEF StartJoin, TypeOK, MutexInv, Locked, InRun
  <2>4. PlacesInv'
    BY <1>5 DEF StartJoin, TypeOK, PlacesInv, InRun
  <2>5. LoopInv'
    BY <1>5, <2>0 DEF StartJoin, TypeOK, LoopInv, InRun
  <2>6. QED
    BY <2>1, <2>2, <2>3, <2>4, <2>5
<1>6. CASE StartOutput
  <2>1. TypeOK'
    BY <1>6 DEF StartOutput, TypeOK, Places, InRun, InLoop, HoldsJob
  <2>2. HoldsJob'
    BY <1>6 DEF StartOutput, TypeOK, HoldsJob, InRun, InLoop
  <2>3. MutexInv'
    BY <1>6 DEF StartOutput, TypeOK, MutexInv, Locked, InRun
  <2>4. PlacesInv'
    BY <1>6 DEF StartOutput, TypeOK, PlacesInv, InRun
  <2>5. LoopInv'
    BY <1>6 DEF StartOutput, TypeOK, LoopInv, PlacesInv, InRun, Locked
  <2>6. QED
    BY <2>1, <2>2, <2>3, <2>4, <2>5
<1>7. CASE StartEnd
  <2>1. TypeOK'
    BY <1>7 DEF StartEnd, TypeOK, Places, InRun, InLoop, HoldsJob
  <2>2. HoldsJob'
    BY <1>7 DEF StartEnd, TypeOK, HoldsJob, InRun, InLoop
  <2>3. MutexInv'
    BY <1>7 DEF StartEnd, TypeOK, MutexInv, Locked, InRun
  <2>4. PlacesInv'
    BY <1>7 DEF StartEnd, TypeOK, PlacesInv, InRun
  <2>5. LoopInv'
    BY <1>7 DEF StartEnd, TypeOK, LoopInv, PlacesInv, InRun, Locked
  <2>6. QED
    BY <2>1, <2>2, <2>3, <2>4, <2>5
<1>8. QED
  BY <1>1, <1>2, <1>3, <1>4, <1>5, <1>6, <1>7 DEF start

LEMMA ThreadRun ==
  ASSUME ThreadInv, NEW t \in Threads, run(t) PROVE ThreadInv'
<1> USE JobsAssumption, ThreadsAssumption, ThreadFacts
    DEF ThreadInv, Workers, historyVars, Exit
<1>1. CASE RunLock(t)
  <2>1. TypeOK'
    BY <1>1 DEF RunLock, TypeOK, Places, InRun, InLoop, HoldsJob
  <2>2. HoldsJob'
    BY <1>1 DEF RunLock, TypeOK, HoldsJob, InRun, InLoop
  <2>3. MutexInv'
    BY <1>1 DEF RunLock, TypeOK, MutexInv, Locked, InRun
  <2>4. PlacesInv'
    BY <1>1 DEF RunLock, TypeOK, PlacesInv, InRun
  <2>5. LoopInv'
    BY <1>1 DEF RunLock, TypeOK, LoopInv, PlacesInv, InRun, Locked
  <2>6. QED
    BY <2>1, <2>2, <2>3, <2>4, <2>5
<1>2. CASE RunLeave(t)
  <2>1. TypeOK'
    BY <1>2 DEF RunLeave, TypeOK, Places, InRun, InLoop, HoldsJob
  <2>2. HoldsJob'
    BY <1>2 DEF RunLeave, TypeOK, HoldsJob, InRun, InLoop
  <2>3. MutexInv'
    BY <1>2 DEF RunLeave, TypeOK, MutexInv, Locked, InRun
  <2>4. PlacesInv'
    BY <1>2 DEF RunLeave, TypeOK, PlacesInv, InRun
  <2>5. LoopInv'
    BY <1>2 DEF RunLeave, TypeOK, LoopInv, PlacesInv, InRun, Locked
  <2>6. QED
    BY <2>1, <2>2, <2>3, <2>4, <2>5
<1>3. ASSUME NEW j \in Jobs, RunNext(t, j) PROVE ThreadInv'
  <2>1. TypeOK'
    BY <1>3 DEF RunNext, TypeOK, Places, InRun, InLoop, HoldsJob
  <2>2. HoldsJob'
    BY <1>3 DEF RunNext, TypeOK, HoldsJob, InRun, InLoop
  <2>3. MutexInv'
    BY <1>3 DEF RunNext, TypeOK, MutexInv, Locked, InRun
  <2>4. PlacesInv'
    BY <1>3 DEF RunNext, TypeOK, PlacesInv, InRun
  <2>5. LoopInv'
    BY <1>3 DEF RunNext, TypeOK, LoopInv, PlacesInv, InRun, Locked
  <2>6. QED
    BY <2>1, <2>2, <2>3, <2>4, <2>5
<1>4. CASE RunWork(t)
  <2>1. TypeOK'
    BY <1>4 DEF RunWork, TypeOK, Places, InRun, InLoop, HoldsJob
  <2>2. HoldsJob'
    BY <1>4 DEF RunWork, TypeOK, HoldsJob, InRun, InLoop
  <2>3. MutexInv'
    BY <1>4 DEF RunWork, TypeOK, MutexInv, Locked, InRun
  <2>4. PlacesInv'
    BY <1>4 DEF RunWork, TypeOK, PlacesInv, InRun
  <2>5. LoopInv'
    BY <1>4 DEF RunWork, TypeOK, LoopInv, PlacesInv, InRun, Locked
  <2>6. QED
    BY <2>1, <2>2, <2>3, <2>4, <2>5
<1>5. CASE RunRelock(t)
  <2>1. TypeOK'
    BY <1>5 DEF RunRelock, TypeOK, Places, InRun, InLoop, HoldsJob
  <2>2. HoldsJob'
    BY <1>5 DEF RunRelock, TypeOK, HoldsJob, InRun, InLoop
  <2>3. MutexInv'
    BY <1>5 DEF RunRelock, TypeOK, MutexInv, Locked, InRun
  <2>4. PlacesInv'
    BY <1>5 DEF RunRelock, TypeOK, PlacesInv, InRun
  <2>5. LoopInv'
    BY <1>5 DEF RunRelock, TypeOK, LoopInv, PlacesInv, InRun, Locked
  <2>6. QED
    BY <2>1, <2>2, <2>3, <2>4, <2>5
<1>6. CASE RunHarvest(t)
  <2>1. TypeOK'
    BY <1>6 DEF RunHarvest, TypeOK, Places, InRun, InLoop, HoldsJob
  <2>2. HoldsJob'
    BY <1>6 DEF RunHarvest, TypeOK, HoldsJob, InRun, InLoop
  <2>3. MutexInv'
    BY <1>6 DEF RunHarvest, TypeOK, MutexInv, Locked, InRun
  <2>4. PlacesInv'
    BY <1>6 DEF RunHarvest, TypeOK, PlacesInv, InRun
  <2>5. LoopInv'
    BY <1>6 DEF RunHarvest, TypeOK, LoopInv, PlacesInv, InRun, Locked
  <2>6. QED
    BY <2>1, <2>2, <2>3, <2>4, <2>5
<1>7. CASE RunCatch(t)
  <2>1. TypeOK'
    BY <1>7 DEF RunCatch, TypeOK, Places, InRun, InLoop, HoldsJob
  <2>2. HoldsJob'
    BY <1>7 DEF RunCatch, TypeOK, HoldsJob, InRun, InLoop
  <2>3. MutexInv'
    BY <1>7 DEF RunCatch, TypeOK, MutexInv, Locked, InRun
  <2>4. PlacesInv'
    BY <1>7 DEF RunCatch, TypeOK, PlacesInv, InRun
  <2>5. LoopInv'
    BY <1>7 DEF RunCatch, TypeOK, LoopInv, PlacesInv, InRun, Locked
  <2>6. QED
    BY <2>1, <2>2, <2>3, <2>4, <2>5
<1>8. CASE RunEscape(t)
  <2>1. TypeOK'
    BY <1>8 DEF RunEscape, TypeOK, Places, InRun, InLoop, HoldsJob
  <2>2. HoldsJob'
    BY <1>8 DEF RunEscape, TypeOK, HoldsJob, InRun, InLoop
  <2>3. MutexInv'
    BY <1>8 DEF RunEscape, TypeOK, MutexInv, Locked, InRun
  <2>4. PlacesInv'
    BY <1>8 DEF RunEscape, TypeOK, PlacesInv, InRun
  <2>5. LoopInv'
    BY <1>8 DEF RunEscape, TypeOK, LoopInv, PlacesInv, InRun, Locked
  <2>6. QED
    BY <2>1, <2>2, <2>3, <2>4, <2>5
<1>9. QED
  BY <1>1, <1>2, <1>3, <1>4, <1>5, <1>6, <1>7, <1>8 DEF run

LEMMA ThreadStep == ThreadInv /\ [Next]_vars => ThreadInv'
<1> SUFFICES ASSUME ThreadInv, [Next]_vars PROVE ThreadInv'
  OBVIOUS
<1>1. CASE UNCHANGED vars
  BY <1>1 DEF vars, ThreadInv, TypeOK, HoldsJob, MutexInv, PlacesInv, LoopInv
<1>2. CASE Halted
  BY <1>2 DEF Halted, vars, ThreadInv, TypeOK, HoldsJob, MutexInv, PlacesInv,
              LoopInv
<1>3. QED
  BY <1>1, <1>2, ThreadClient, ThreadStart, ThreadRun DEF Next

LEMMA ThreadInit == JobScheduler => ThreadInv
<1> SUFFICES ASSUME JobScheduler PROVE ThreadInv
  OBVIOUS
<1>1. TypeOK
  BY TypeInit
<1>2. HoldsJob /\ MutexInv /\ PlacesInv /\ LoopInv
  BY ThreadFacts DEF JobScheduler, HoldsJob, MutexInv, PlacesInv, LoopInv,
     Workers, InRun, InLoop, Locked
<1>3. QED
  BY <1>1, <1>2 DEF ThreadInv

LEMMA ThreadInvariance == Spec => []ThreadInv
BY ThreadInit, ThreadStep, PTL DEF Spec

-----------------------------------------------------------------------------
(* What it gives.                                                           *)

\* The fields of the scheduler and the places of its threads keep their
\* types through every interleaving of start(), run(), stop() and the
\* configuration calls, with any callback throwing.
THEOREM TypeCorrect == Spec => []TypeOK
<1>1. ThreadInv => TypeOK
  BY DEF ThreadInv
<1>2. QED
  BY <1>1, ThreadInvariance, PTL

\* next() and harvest() are never called by two threads at once, for any
\* number of threads: the exclusion the JobProducer interface promises.
THEOREM HarvestsExclude == Spec => []HarvestExclusive
<1>1. ThreadInv => HarvestExclusive
  BY DEF ThreadInv, MutexInv, HarvestExclusive
<1>2. QED
  BY <1>1, ThreadInvariance, PTL

\* When start() is over no thread of the pool survives, no job was dropped
\* between next() and harvest(), and the mutex is free.
THEOREM ReturnIsJoined == Spec => []JoinedOnReturn
<1>1. ThreadInv => JoinedOnReturn
  <2> SUFFICES ASSUME ThreadInv, pc[Main] \in {"out", "outExn", "outOk", "idle"}
               PROVE  /\ \A t \in Threads \ {Main} : pc[t] = "none"
                      /\ InFlight = {}
                      /\ mutex = NoThread
    BY DEF JoinedOnReturn
  <2>1. \A t \in Threads : pc[t] \in {"none", "out", "outExn", "outOk", "idle"}
    BY DEF ThreadInv, LoopInv, Workers
  <2>2. \A t \in Threads : job[t] = NoJob
    BY <2>1 DEF ThreadInv, HoldsJob, InLoop
  <2>3. mutex = NoThread
    BY <2>1 DEF ThreadInv, MutexInv, TypeOK, Locked
  <2>4. QED
    BY <2>2, <2>3 DEF ThreadInv, LoopInv, Workers, InFlight
<1>2. QED
  BY <1>1, ThreadInvariance, PTL

-----------------------------------------------------------------------------
(* Each job once.  EachJobOnce alone is not inductive: a harvest adds       *)
(* Spawn[j] to the producer, and nothing in EachJobOnce says that no job of *)
(* Spawn[j] is already somewhere.  What keeps them apart is where every job *)
(* comes from.                                                              *)

\* Job k was in the hands of the producer: a root, or gained in a harvest.
Delivered(k) == k \in Roots \/ \E p \in harvested : k \in Spawn[p]

\* Every job in the system was delivered by a root or by a completed harvest.
OriginInv ==
  /\ \A k \in todo \union harvested \union failed : Delivered(k)
  /\ \A t \in Threads : job[t] # NoJob => Delivered(job[t])

\* No job is in two places.
ApartInv ==
  /\ \A t, u \in Threads : t # u /\ job[t] = job[u] => job[t] = NoJob
  /\ \A t \in Threads : job[t] \notin todo \union harvested \union failed
  /\ todo \intersect (harvested \union failed) = {}
  /\ harvested \intersect failed = {}

OnceInv == ThreadInv /\ OriginInv /\ ApartInv

LEMMA OnceInit == JobScheduler => OnceInv
<1> SUFFICES ASSUME JobScheduler PROVE OnceInv
  OBVIOUS
<1>1. ThreadInv
  BY ThreadInit
<1>2. OriginInv /\ ApartInv
  BY DEF JobScheduler, OriginInv, ApartInv
<1>3. QED
  BY <1>1, <1>2 DEF OnceInv

\* A step that moves no job.
LEMMA OnceSame ==
  ASSUME OriginInv, ApartInv, UNCHANGED <<todo, job, harvested, failed>>
  PROVE  OriginInv' /\ ApartInv'
BY DEF OriginInv, ApartInv, Delivered

\* A new producer is given when no thread holds a job of the old one.
LEMMA OnceSupply ==
  ASSUME OnceInv, NEW S \in SUBSET Roots, setProducer(S)
  PROVE  OriginInv' /\ ApartInv'
<1>1. CASE state = "WAIT"
  <2>1. todo' = S /\ harvested' = {} /\ failed' = {} /\ job' = job
    BY <1>1 DEF setProducer
  <2>2. \A t \in Threads : pc[t] \in {"none", "idle"}
    BY DEF setProducer, OnceInv, ThreadInv, LoopInv, Workers
  <2>3. \A t \in Threads : job[t] = NoJob
    BY <2>2 DEF OnceInv, ThreadInv, HoldsJob, InLoop
  <2>4. NoJob \notin S
    BY JobsAssumption
  <2>5. QED
    BY <2>1, <2>3, <2>4 DEF OriginInv, ApartInv, Delivered
<1>2. CASE state # "WAIT"
  BY <1>2, OnceSame DEF setProducer, OnceInv
<1>3. QED
  BY <1>1, <1>2

\* next() moves a job from the producer to the thread.
LEMMA OnceNext ==
  ASSUME OnceInv, NEW t \in Threads, NEW j \in Jobs, RunNext(t, j)
  PROVE  OriginInv' /\ ApartInv'
<1>1. /\ todo' = todo \ {j} /\ j \in todo
      /\ job' = [job EXCEPT ![t] = j]
      /\ harvested' = harvested /\ failed' = failed
  BY DEF RunNext, historyVars
<1>2. job \in [Threads -> Jobs \union {NoJob}]
  BY DEF OnceInv, ThreadInv, TypeOK
<1>3. OriginInv'
  BY <1>1, <1>2 DEF OnceInv, OriginInv, Delivered
<1>4. ApartInv'
  BY <1>1, <1>2 DEF OnceInv, ApartInv
<1>5. QED
  BY <1>3, <1>4

\* harvest() ends the job and brings only jobs that are nowhere yet.
LEMMA OnceHarvest ==
  ASSUME DeliveredOnce, OnceInv, NEW t \in Threads, RunHarvest(t)
  PROVE  OriginInv' /\ ApartInv'
<1> DEFINE j == job[t]
<1>1. /\ harvested' = harvested \union {j}
      /\ todo' = todo \union Spawn[j]
      /\ job' = [job EXCEPT ![t] = NoJob]
      /\ failed' = failed
  BY DEF RunHarvest
<1>2. job \in [Threads -> Jobs \union {NoJob}] /\ harvested \subseteq Jobs
      /\ todo \subseteq Jobs /\ failed \subseteq Jobs
  BY DEF OnceInv, ThreadInv, TypeOK
<1>3. j # NoJob /\ j \in Jobs
  BY <1>2 DEF RunHarvest, OnceInv, ThreadInv, HoldsJob, InLoop
<1>4. j \notin harvested \union failed \union todo
  BY DEF OnceInv, ApartInv
<1>5. Spawn[j] \subseteq Jobs /\ NoJob \notin Jobs
  BY <1>3, JobsAssumption
<1>6. \A k : Delivered(k) => k \notin Spawn[j]
  BY <1>2, <1>3, <1>4 DEF DeliveredOnce, Delivered
<1>7. j \notin Spawn[j] /\ Delivered(j)
  BY <1>3, <1>6 DEF OnceInv, OriginInv
<1>8. \A k : Delivered(k) \/ k \in Spawn[j] => Delivered(k)'
  BY <1>1 DEF Delivered
<1> HIDE DEF j
<1>9. OriginInv'
  BY <1>1, <1>2, <1>7, <1>8 DEF OnceInv, OriginInv
<1>10. /\ \A u \in Threads : job[u] \notin Spawn[j]
       /\ Spawn[j] \intersect (harvested \union failed) = {}
  BY <1>5, <1>6 DEF OnceInv, OriginInv
<1>11. \A u \in Threads : u # t => job[u] # j
  BY <1>3 DEF OnceInv, ApartInv, j
<1>12. ApartInv'
  BY <1>1, <1>2, <1>3, <1>4, <1>5, <1>7, <1>10, <1>11 DEF OnceInv, ApartInv
<1>13. QED
  BY <1>9, <1>12

\* A failed harvest moves the job to the failed ones.
LEMMA OnceCatch ==
  ASSUME OnceInv, NEW t \in Threads, RunCatch(t)
  PROVE  OriginInv' /\ ApartInv'
<1> DEFINE j == job[t]
<1>1. /\ failed' = failed \union {j}
      /\ job' = [job EXCEPT ![t] = NoJob]
      /\ harvested' = harvested /\ todo' = todo
  BY DEF RunCatch
<1>2. job \in [Threads -> Jobs \union {NoJob}] /\ harvested \subseteq Jobs
      /\ todo \subseteq Jobs /\ failed \subseteq Jobs
  BY DEF OnceInv, ThreadInv, TypeOK
<1>3. j # NoJob /\ j \in Jobs
  BY <1>2 DEF RunCatch, OnceInv, ThreadInv, HoldsJob, InLoop
<1>4. j \notin harvested \union failed \union todo /\ Delivered(j)
  BY <1>3 DEF OnceInv, ApartInv, OriginInv
<1>5. \A u \in Threads : u # t => job[u] # j
  BY <1>3 DEF OnceInv, ApartInv
<1> HIDE DEF j
<1>6. OriginInv'
  BY <1>1, <1>2, <1>4 DEF OnceInv, OriginInv, Delivered
<1>7. ApartInv'
  BY <1>1, <1>2, <1>3, <1>4, <1>5, JobsAssumption DEF OnceInv, ApartInv
<1>8. QED
  BY <1>6, <1>7

LEMMA OnceStep ==
  ASSUME DeliveredOnce, OnceInv, [Next]_vars PROVE OnceInv'
<1>1. ThreadInv'
  BY ThreadStep DEF OnceInv
<1>2. ASSUME UNCHANGED <<todo, job, harvested, failed>>
      PROVE  OriginInv' /\ ApartInv'
  BY <1>2, OnceSame DEF OnceInv
<1>3. ASSUME UNCHANGED vars PROVE OriginInv' /\ ApartInv'
  BY <1>2, <1>3 DEF vars
<1>4. ASSUME client PROVE OriginInv' /\ ApartInv'
  <2>1. ASSUME NEW c \in 0 .. MaxThreads, setThreadCount(c)
        PROVE  OriginInv' /\ ApartInv'
    BY <1>2, <2>1 DEF setThreadCount, historyVars
  <2>2. CASE stop
    BY <1>2, <2>2 DEF stop
  <2>3. CASE destroy
    BY <1>2, <2>3 DEF destroy, historyVars
  <2>4. QED
    BY <1>4, <2>1, <2>2, <2>3, OnceSupply DEF client
<1>5. ASSUME start PROVE OriginInv' /\ ApartInv'
  <2>1. CASE StartMake
    BY <2>1 DEF StartMake, OnceInv, OriginInv, ApartInv, Delivered
  <2>2. CASE StartBadCount \/ StartArm \/ StartSpawn
    BY <1>2, <2>2 DEF StartBadCount, StartArm, StartSpawn, historyVars
  <2>3. CASE StartJoin \/ StartOutput \/ StartEnd
    BY <1>2, <2>3 DEF StartJoin, StartOutput, StartEnd, historyVars
  <2>4. QED
    BY <1>5, <2>1, <2>2, <2>3 DEF start
<1>6. ASSUME NEW t \in Threads, run(t) PROVE OriginInv' /\ ApartInv'
  <2>1. CASE RunLock(t) \/ RunLeave(t) \/ RunWork(t)
    BY <1>2, <2>1 DEF RunLock, RunLeave, RunWork, historyVars
  <2>2. CASE RunRelock(t) \/ RunEscape(t)
    BY <1>2, <2>2 DEF RunRelock, RunEscape, historyVars
  <2>3. QED
    BY <1>6, <2>1, <2>2, OnceNext, OnceHarvest, OnceCatch DEF run
<1>7. ASSUME Halted PROVE OriginInv' /\ ApartInv'
  BY <1>3, <1>7 DEF Halted
<1>8. QED
  BY <1>1, <1>3, <1>4, <1>5, <1>6, <1>7 DEF Next, OnceInv

\* A producer that delivers distinct jobs sees each of them in one stage at
\* a time: no job is run by two threads, delivered again while it runs, or
\* both harvested and failed, for any number of threads and jobs and
\* whichever callbacks throw.
THEOREM JobsOnce == Spec => []EachJobOnce
<1>1. CASE DeliveredOnce
  <2>1. OnceInv /\ [Next]_vars => OnceInv'
    BY <1>1, OnceStep
  <2>2. OnceInv => EachJobOnce
    BY DEF OnceInv, ApartInv, EachJobOnce, InFlight
  <2>3. QED
    BY <2>1, <2>2, OnceInit, PTL DEF Spec
<1>2. CASE ~DeliveredOnce
  <2>1. EachJobOnce
    BY <1>2 DEF EachJobOnce
  <2>2. QED
    BY <2>1, PTL
<1>3. QED
  BY <1>1, <1>2

-----------------------------------------------------------------------------
(* JobScheduler implements WorkPool, when only harvest() throws: the class   *)
(* catches nothing else.                                                    *)

\* start() has stored RUN and has not yet looked at the outcome.
Armed == pc[Main] \in {"spawn", "join", "out"} \union InRun

\* What the state word says of the history of this start().
StateInv ==
  /\ pc[Main] # "escaped"
  /\ pc[Main] = "gone" => \A t \in Workers : pc[t] = "none"
  /\ pc[Main] = "arm" => failed = {}
  /\ Armed => /\ state \in {"RUN", "STOP", "EXN"}
              /\ state = "STOP" => stopped
              /\ state = "EXN" => err \in failed
              /\ state = "RUN" => failed = {}

\* While the state is RUN a producer that still has jobs has a thread in
\* run(): the last one to leave has seen next() give nothing.
AttendedInv ==
  Armed /\ state = "RUN" /\ todo # {} =>
    pc[Main] = "spawn" \/ \E t \in Threads : pc[t] \in InRun

\* What start() is about to report.
OutcomeInv ==
  /\ pc[Main] = "outExn" => err \in failed
  /\ pc[Main] = "outOk" => stopped \/ (todo = {} /\ failed = {})

PoolInv == OnceInv /\ StateInv /\ AttendedInv /\ OutcomeInv

\* The three parts about the outcome read nothing but these variables.
outcomeVars == <<state, err, todo, pc, failed, stopped>>

LEMMA PoolSame ==
  ASSUME StateInv, AttendedInv, OutcomeInv, UNCHANGED outcomeVars
  PROVE  StateInv' /\ AttendedInv' /\ OutcomeInv'
BY DEF StateInv, AttendedInv, OutcomeInv, Armed, outcomeVars

LEMMA PoolClient ==
  ASSUME PoolInv, client PROVE StateInv' /\ AttendedInv' /\ OutcomeInv'
<1> USE DEF PoolInv, OnceInv, ThreadInv, TypeOK
<1>1. ASSUME NEW S \in SUBSET Roots, setProducer(S)
      PROVE  StateInv' /\ AttendedInv' /\ OutcomeInv'
  BY <1>1 DEF setProducer, StateInv, AttendedInv, OutcomeInv, Armed, InRun
<1>2. ASSUME NEW c \in 0 .. MaxThreads, setThreadCount(c)
      PROVE  StateInv' /\ AttendedInv' /\ OutcomeInv'
  BY <1>2, PoolSame DEF setThreadCount, historyVars, outcomeVars
<1>3. ASSUME stop PROVE StateInv' /\ AttendedInv' /\ OutcomeInv'
  BY <1>3 DEF stop, StateInv, AttendedInv, OutcomeInv, Armed, InRun
<1>4. ASSUME destroy PROVE StateInv' /\ AttendedInv' /\ OutcomeInv'
  <2>1. pc[Main] = "idle" /\ pc' = [pc EXCEPT ![Main] = "gone"]
    BY <1>4 DEF destroy, StateInv
  <2>2. pc'[Main] = "gone" /\ \A t \in Workers : pc'[t] = "none"
    BY <2>1, ThreadFacts DEF LoopInv
  <2>3. QED
    BY <2>2 DEF StateInv, AttendedInv, OutcomeInv, Armed, InRun
<1>5. QED
  BY <1>1, <1>2, <1>3, <1>4 DEF client

LEMMA PoolStart ==
  ASSUME PoolInv, start PROVE StateInv' /\ AttendedInv' /\ OutcomeInv'
<1> USE ThreadFacts DEF PoolInv, OnceInv, ThreadInv, TypeOK
<1>1. ASSUME StartBadCount PROVE StateInv' /\ AttendedInv' /\ OutcomeInv'
  BY <1>1, PoolSame DEF StartBadCount, historyVars, outcomeVars
<1>2. ASSUME StartMake PROVE StateInv' /\ AttendedInv' /\ OutcomeInv'
  BY <1>2 DEF StartMake, StateInv, AttendedInv, OutcomeInv, Armed, InRun
<1>3. ASSUME StartArm PROVE StateInv' /\ AttendedInv' /\ OutcomeInv'
  BY <1>3 DEF StartArm, historyVars, StateInv, AttendedInv, OutcomeInv, Armed,
              InRun
<1>4. ASSUME StartSpawn PROVE StateInv' /\ AttendedInv' /\ OutcomeInv'
  <2>1. i < cnt => i \in Workers
    BY <1>4 DEF StartSpawn, LoopInv, Workers, Main
  <2>2. /\ pc'[Main] \in {"spawn", "lock"}
        /\ UNCHANGED <<state, err, todo, failed, stopped>>
    BY <1>4, <2>1 DEF StartSpawn, historyVars
  <2>3. pc[Main] = "spawn"
    BY <1>4 DEF StartSpawn
  <2>4. QED
    BY <2>2, <2>3 DEF StateInv, AttendedInv, OutcomeInv, Armed, InRun
<1>5. ASSUME StartJoin PROVE StateInv' /\ AttendedInv' /\ OutcomeInv'
  <2>1. CASE UNCHANGED pc
    BY <1>5, <2>1, PoolSame DEF StartJoin, historyVars, outcomeVars
  <2>2. CASE i >= cnt /\ ~UNCHANGED pc
    <3>1. \A t \in Threads : pc[t] \in {"none", "done", "join"}
      BY <1>5, <2>2 DEF StartJoin, LoopInv, Workers
    <3>2. ~(Armed /\ state = "RUN" /\ todo # {})
      BY <1>5, <3>1 DEF StartJoin, AttendedInv, InRun
    <3>3. /\ pc[Main] = "join" /\ pc'[Main] = "out"
          /\ UNCHANGED <<state, err, todo, failed, stopped>>
      BY <1>5, <2>2 DEF StartJoin, historyVars
    <3>4. QED
      BY <3>2, <3>3 DEF StateInv, AttendedInv, OutcomeInv, Armed, InRun
  <2>3. QED
    BY <1>5, <2>1, <2>2 DEF StartJoin
<1>6. ASSUME StartOutput PROVE StateInv' /\ AttendedInv' /\ OutcomeInv'
  <2>1. \A t \in Threads : pc[t] \in {"none", "out"}
    BY <1>6 DEF StartOutput, LoopInv, Workers
  <2>2. /\ pc[Main] = "out"
        /\ pc'[Main] = IF state = "EXN" THEN "outExn" ELSE "outOk"
        /\ UNCHANGED <<state, err, todo, failed, stopped>>
    BY <1>6 DEF StartOutput, historyVars
  <2>3. state = "RUN" => todo = {}
    BY <2>1, <2>2 DEF AttendedInv, Armed, InRun
  <2>4. QED
    BY <2>2, <2>3 DEF StateInv, AttendedInv, OutcomeInv, Armed, InRun
<1>7. ASSUME StartEnd PROVE StateInv' /\ AttendedInv' /\ OutcomeInv'
  BY <1>7 DEF StartEnd, historyVars, StateInv, AttendedInv, OutcomeInv, Armed,
              InRun
<1>8. QED
  BY <1>1, <1>2, <1>3, <1>4, <1>5, <1>6, <1>7 DEF start

LEMMA PoolRun ==
  ASSUME Faults \subseteq {"harvest"}, PoolInv, NEW t \in Threads, run(t)
  PROVE  StateInv' /\ AttendedInv' /\ OutcomeInv'
<1> USE ThreadFacts DEF PoolInv, OnceInv, ThreadInv, TypeOK
<1>0. t = Main => pc[t] \notin {"none", "made", "done"}
  BY DEF PlacesInv
\* A thread moves inside of run(): Armed and the attendance stay.
<1>1. ASSUME pc[t] \in InRun, NEW w \in InRun, pc' = [pc EXCEPT ![t] = w],
             UNCHANGED <<state, err, failed, stopped>>
      PROVE  StateInv' /\ AttendedInv' /\ OutcomeInv'
  <2>1. pc'[t] \in InRun
    BY <1>1
  <2>2. CASE t = Main
    BY <1>1, <2>1, <2>2 DEF StateInv, AttendedInv, OutcomeInv, Armed, InRun
  <2>3. CASE t # Main
    <3>1. pc'[Main] = pc[Main]
      BY <1>1, <2>3
    <3>2. pc[Main] \notin {"outExn", "outOk", "gone"}
      BY <1>1, <2>3 DEF LoopInv, Workers, InRun, StateInv
    <3>3. QED
      BY <1>1, <2>1, <3>1, <3>2 DEF StateInv, AttendedInv, OutcomeInv, Armed
  <2>4. QED
    BY <2>2, <2>3
\* A thread leaves run(): the caller goes on with the joins.
<1>2. ASSUME pc[t] \in InRun, pc' = [pc EXCEPT ![t] = Exit(t)],
             UNCHANGED todo,
             \/ UNCHANGED <<state, err, failed, stopped>>
                /\ (state # "RUN" \/ todo = {})
             \/ UNCHANGED stopped /\ state' = "EXN" /\ err' \in failed'
      PROVE  StateInv' /\ AttendedInv' /\ OutcomeInv'
  <2>1. /\ Armed' => Armed
        /\ pc'[Main] \notin {"escaped", "gone", "arm", "outExn", "outOk"}
    <3>1. CASE t = Main
      BY <1>2, <3>1 DEF Armed, InRun, Exit
    <3>2. CASE t # Main
      BY <1>2, <3>2 DEF Armed, InRun, Exit, LoopInv, Workers, StateInv
    <3>3. QED
      BY <3>1, <3>2
  <2>2. QED
    BY <1>2, <2>1 DEF StateInv, AttendedInv, OutcomeInv
<1>3. ASSUME RunLock(t) PROVE StateInv' /\ AttendedInv' /\ OutcomeInv'
  BY <1>1, <1>3 DEF RunLock, historyVars, InRun
<1>4. ASSUME RunLeave(t) PROVE StateInv' /\ AttendedInv' /\ OutcomeInv'
  BY <1>2, <1>4 DEF RunLeave, historyVars, InRun
<1>5. ASSUME NEW j \in Jobs, RunNext(t, j)
      PROVE  StateInv' /\ AttendedInv' /\ OutcomeInv'
  BY <1>1, <1>5 DEF RunNext, historyVars, InRun
<1>6. ASSUME RunWork(t) PROVE StateInv' /\ AttendedInv' /\ OutcomeInv'
  BY <1>1, <1>6 DEF RunWork, historyVars, InRun
<1>7. ASSUME RunRelock(t) PROVE StateInv' /\ AttendedInv' /\ OutcomeInv'
  BY <1>1, <1>7 DEF RunRelock, historyVars, InRun
<1>8. ASSUME RunHarvest(t) PROVE StateInv' /\ AttendedInv' /\ OutcomeInv'
  BY <1>1, <1>8 DEF RunHarvest, InRun
<1>9. ASSUME RunCatch(t) PROVE StateInv' /\ AttendedInv' /\ OutcomeInv'
  BY <1>2, <1>9 DEF RunCatch, InRun
<1>10. ~RunEscape(t)
  BY DEF RunEscape
<1>11. QED
  BY <1>3, <1>4, <1>5, <1>6, <1>7, <1>8, <1>9, <1>10 DEF run

-----------------------------------------------------------------------------
(* The steps of the scheduler are steps of the pool.                        *)

Busy == pc[Main] \notin {"idle", "gone"}
poolVars == <<Busy, todo, InFlight, harvested, failed, stopped, result>>

\* A step that moves no job and leaves the caller where the pool sees it.
LEMMA MapSame ==
  ASSUME Busy' = Busy, UNCHANGED <<todo, job, harvested, failed, stopped, result>>
  PROVE  UNCHANGED poolVars
BY DEF poolVars, InFlight

LEMMA MapClient ==
  ASSUME PoolInv, client PROVE Pool!ANext \/ UNCHANGED poolVars
<1>1. ASSUME NEW S \in SUBSET Roots, setProducer(S)
      PROVE  Pool!ANext \/ UNCHANGED poolVars
  <2>1. CASE state = "WAIT"
    BY <1>1, <2>1 DEF setProducer, Pool!ANext, Pool!Supply, InFlight
  <2>2. CASE state # "WAIT"
    BY <1>1, <2>2 DEF setProducer, poolVars, Busy, InFlight
  <2>3. QED
    BY <2>1, <2>2
<1>2. ASSUME NEW c \in 0 .. MaxThreads, setThreadCount(c)
      PROVE  UNCHANGED poolVars
  BY <1>2 DEF setThreadCount, historyVars, poolVars, Busy, InFlight
<1>3. ASSUME stop PROVE Pool!ANext \/ UNCHANGED poolVars
  <2>1. CASE pc[Main] = "idle"
    <3>1. UNCHANGED stopped
      BY <1>3, <2>1 DEF stop, PoolInv, OnceInv, ThreadInv, TypeOK
    <3>2. QED
      BY <1>3, <3>1 DEF stop, poolVars, Busy, InFlight
  <2>2. CASE pc[Main] # "idle"
    BY <1>3, <2>2 DEF stop, Pool!ANext, Pool!Quit, InFlight
  <2>3. QED
    BY <2>1, <2>2
<1>4. ASSUME destroy PROVE UNCHANGED poolVars
  <2>1. pc[Main] = "idle" /\ pc'[Main] = "gone"
    BY <1>4, ThreadFacts
       DEF destroy, PoolInv, StateInv, OnceInv, ThreadInv, TypeOK
  <2>2. QED
    BY <1>4, <2>1 DEF destroy, historyVars, poolVars, Busy, InFlight
<1>5. QED
  BY <1>1, <1>2, <1>3, <1>4 DEF client

LEMMA MapStart ==
  ASSUME PoolInv, start PROVE Pool!ANext \/ UNCHANGED poolVars
<1>0. pc \in [Threads -> Places] /\ Main \in Threads
  BY ThreadFacts DEF PoolInv, OnceInv, ThreadInv, TypeOK
<1>1. ASSUME StartBadCount PROVE Pool!ANext
  BY <1>1 DEF StartBadCount, historyVars, Pool!ANext, Pool!Refuse, InFlight
<1>2. ASSUME StartMake PROVE Pool!ANext
  BY <1>0, <1>2 DEF StartMake, Pool!ANext, Pool!Begin, InFlight
<1>3. ASSUME StartArm PROVE UNCHANGED poolVars
  <2>1. Busy' = Busy
    BY <1>0, <1>3 DEF StartArm, Busy
  <2>2. QED
    BY <1>3, <2>1, MapSame DEF StartArm, historyVars
<1>4. ASSUME StartSpawn PROVE UNCHANGED poolVars
  <2>1. i < cnt => i \in Workers
    BY <1>4, ThreadFacts
       DEF StartSpawn, PoolInv, OnceInv, ThreadInv, TypeOK, LoopInv, Workers, Main
  <2>2. Busy' = Busy
    BY <1>0, <1>4, <2>1, ThreadFacts DEF StartSpawn, Busy
  <2>3. QED
    BY <1>4, <2>2, MapSame DEF StartSpawn, historyVars
<1>5. ASSUME StartJoin PROVE UNCHANGED poolVars
  <2>1. Busy' = Busy
    BY <1>0, <1>5 DEF StartJoin, Busy
  <2>2. QED
    BY <1>5, <2>1, MapSame DEF StartJoin, historyVars
<1>6. ASSUME StartOutput PROVE UNCHANGED poolVars
  <2>1. Busy' = Busy
    BY <1>0, <1>6 DEF StartOutput, Busy
  <2>2. QED
    BY <1>6, <2>1, MapSame DEF StartOutput, historyVars
<1>7. ASSUME StartEnd PROVE Pool!ANext
  <2>1. \A t \in Threads : pc[t] \in {"none", "outExn", "outOk"}
    BY <1>7 DEF StartEnd, PoolInv, OnceInv, ThreadInv, LoopInv, Workers
  <2>2. InFlight = {} /\ InFlight' = InFlight
    BY <1>7, <2>1
       DEF StartEnd, PoolInv, OnceInv, ThreadInv, HoldsJob, InLoop, InFlight
  <2>3. pc'[Main] = "idle"
    BY <1>0, <1>7 DEF StartEnd
  <2>4. CASE pc[Main] = "outExn"
    <3>1. err \in failed
      BY <2>4 DEF PoolInv, OutcomeInv
    <3>2. Pool!Throw
      BY <1>7, <2>2, <2>3, <2>4, <3>1 DEF StartEnd, historyVars, Pool!Throw
    <3>3. QED
      BY <3>2 DEF Pool!ANext
  <2>5. CASE pc[Main] = "outOk"
    <3>1. stopped \/ (todo = {} /\ failed = {})
      BY <2>5 DEF PoolInv, OutcomeInv
    <3>2. Pool!Return
      BY <1>7, <2>2, <2>3, <2>5, <3>1 DEF StartEnd, historyVars, Pool!Return
    <3>3. QED
      BY <3>2 DEF Pool!ANext
  <2>6. QED
    BY <1>7, <2>4, <2>5 DEF StartEnd
<1>8. QED
  BY <1>1, <1>2, <1>3, <1>4, <1>5, <1>6, <1>7 DEF start

LEMMA MapRun ==
  ASSUME Faults \subseteq {"harvest"}, PoolInv, NEW t \in Threads, run(t)
  PROVE  Pool!ANext \/ UNCHANGED poolVars
<1>0. /\ pc \in [Threads -> Places] /\ Main \in Threads
      /\ job \in [Threads -> Jobs \union {NoJob}]
  BY ThreadFacts DEF PoolInv, OnceInv, ThreadInv, TypeOK
\* The caller is in start() as long as a thread is in run().
<1>1. ASSUME pc[t] \in InRun PROVE Busy
  <2>1. pc[Main] # "idle"
    BY <1>1 DEF PoolInv, OnceInv, ThreadInv, LoopInv, Workers, InRun
  <2>2. pc[Main] # "gone"
    BY <1>1 DEF PoolInv, StateInv, Workers, InRun
  <2>3. QED
    BY <2>1, <2>2 DEF Busy
<1>2. ASSUME pc[t] \in InRun, NEW w, w \notin {"idle", "gone"},
             pc' = [pc EXCEPT ![t] = w]
      PROVE  Busy /\ Busy'
  BY <1>0, <1>1, <1>2 DEF Busy
<1>3. ASSUME RunLock(t) PROVE UNCHANGED poolVars
  <2>1. Busy /\ Busy'
    BY <1>2, <1>3 DEF RunLock, InRun
  <2>2. QED
    BY <1>3, <2>1, MapSame DEF RunLock, historyVars
<1>4. ASSUME RunLeave(t) PROVE UNCHANGED poolVars
  <2>1. Busy /\ Busy'
    BY <1>2, <1>4 DEF RunLeave, InRun, Exit
  <2>2. QED
    BY <1>4, <2>1, MapSame DEF RunLeave, historyVars
<1>5. ASSUME NEW j \in Jobs, RunNext(t, j) PROVE Pool!ANext
  <2>1. Busy /\ Busy'
    BY <1>2, <1>5 DEF RunNext, InRun
  <2>2. job[t] = NoJob
    BY <1>5 DEF RunNext, PoolInv, OnceInv, ThreadInv, HoldsJob, InLoop
  <2>3. InFlight' = InFlight \union {j}
    BY <1>0, <1>5, <2>2, JobsAssumption DEF RunNext, InFlight
  <2>4. Pool!Take(j)
    BY <1>5, <2>1, <2>3 DEF RunNext, historyVars, Pool!Take, Busy
  <2>5. QED
    BY <2>4 DEF Pool!ANext
<1>6. ASSUME RunWork(t) PROVE UNCHANGED poolVars
  <2>1. Busy /\ Busy'
    BY <1>2, <1>6 DEF RunWork, InRun
  <2>2. QED
    BY <1>6, <2>1, MapSame DEF RunWork, historyVars
<1>7. ASSUME RunRelock(t) PROVE UNCHANGED poolVars
  <2>1. Busy /\ Busy'
    BY <1>2, <1>7 DEF RunRelock, InRun
  <2>2. QED
    BY <1>7, <2>1, MapSame DEF RunRelock, historyVars
\* A harvest, failed or not, takes its job out of flight: nobody else has it.
<1>8. ASSUME pc[t] = "harvest", job' = [job EXCEPT ![t] = NoJob]
      PROVE  /\ job[t] \in Jobs \intersect InFlight
             /\ InFlight' = InFlight \ {job[t]}
  <2>1. job[t] # NoJob
    BY <1>8 DEF PoolInv, OnceInv, ThreadInv, HoldsJob, InLoop
  <2>2. \A u \in Threads : u # t => job[u] # job[t]
    BY <2>1 DEF PoolInv, OnceInv, ApartInv
  <2>3. QED
    BY <1>0, <1>8, <2>1, <2>2 DEF InFlight
<1>9. ASSUME RunHarvest(t) PROVE Pool!ANext
  <2>1. Busy /\ Busy'
    BY <1>2, <1>9 DEF RunHarvest, InRun
  <2>2. Pool!Collect(job[t])
    BY <1>8, <1>9, <2>1 DEF RunHarvest, Pool!Collect, Busy
  <2>3. QED
    BY <1>8, <1>9, <2>2 DEF RunHarvest, Pool!ANext
<1>10. ASSUME RunCatch(t) PROVE Pool!ANext
  <2>1. Busy /\ Busy'
    BY <1>2, <1>10 DEF RunCatch, InRun, Exit
  <2>2. Pool!Reject(job[t])
    BY <1>8, <1>10, <2>1 DEF RunCatch, Pool!Reject, Busy
  <2>3. QED
    BY <1>8, <1>10, <2>2 DEF RunCatch, Pool!ANext
<1>11. ~RunEscape(t)
  BY DEF RunEscape
<1>12. QED
  BY <1>3, <1>4, <1>5, <1>6, <1>7, <1>9, <1>10, <1>11 DEF run

\* JobScheduler::start() is the work pool its documentation promises, for
\* any number of threads and jobs, whatever the interleaving of run(), the
\* calls of stop() and the failures of harvest(): every job the producer
\* gives is run and harvested before start() returns, unless a stop() or a
\* failed harvest ended it, and what start() throws is the message of a
\* harvest of this very call.
THEOREM SchedulerIsPool ==
  ASSUME DeliveredOnce, Faults \subseteq {"harvest"}
  PROVE  Spec => ImplementsWorkPool
<1>1. JobScheduler => PoolInv /\ Pool!AInit
  <2> SUFFICES ASSUME JobScheduler PROVE PoolInv /\ Pool!AInit
    OBVIOUS
  <2>1. OnceInv
    BY OnceInit
  <2>2. pc[Main] = "idle"
    BY ThreadFacts DEF JobScheduler
  <2>3. StateInv /\ AttendedInv /\ OutcomeInv
    BY <2>2 DEF StateInv, AttendedInv, OutcomeInv, Armed, InRun
  <2>4. InFlight = {}
    BY DEF JobScheduler, InFlight
  <2>5. QED
    BY <2>1, <2>2, <2>3, <2>4 DEF JobScheduler, PoolInv, Pool!AInit
<1>2. PoolInv /\ [Next]_vars => PoolInv' /\ [Pool!ANext]_poolVars
  <2> SUFFICES ASSUME PoolInv, [Next]_vars
               PROVE  PoolInv' /\ [Pool!ANext]_poolVars
    OBVIOUS
  <2>1. OnceInv'
    BY OnceStep DEF PoolInv
  <2>2. ASSUME UNCHANGED vars
        PROVE  StateInv' /\ AttendedInv' /\ OutcomeInv' /\ UNCHANGED poolVars
    BY <2>2, PoolSame
       DEF vars, PoolInv, outcomeVars, poolVars, Busy, InFlight
  <2>3. CASE client
    BY <2>1, <2>3, PoolClient, MapClient DEF PoolInv
  <2>4. CASE start
    BY <2>1, <2>4, PoolStart, MapStart DEF PoolInv
  <2>5. CASE \E t \in Threads : run(t)
    BY <2>1, <2>5, PoolRun, MapRun DEF PoolInv
  <2>6. CASE Halted \/ UNCHANGED vars
    BY <2>1, <2>2, <2>6 DEF Halted, PoolInv
  <2>7. QED
    BY <2>3, <2>4, <2>5, <2>6 DEF Next
<1>3. QED
  BY <1>1, <1>2, PTL
     DEF Spec, ImplementsWorkPool, Pool!ASpec, Pool!avars, poolVars, Busy
=============================================================================
