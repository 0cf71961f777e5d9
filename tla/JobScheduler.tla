---------------------------- MODULE JobScheduler ----------------------------
(***************************************************************************)
(* elm::sys::JobScheduler (include/elm/sys/JobScheduler.h,                 *)
(* src/sys_JobScheduler.cpp): a pool of cnt - 1 threads plus the calling   *)
(* one that draws jobs from a JobProducer, runs them outside of the mutex  *)
(* and harvests them inside of it.                                         *)
(*                                                                         *)
(* Thread 0 is the thread that calls start(); threads 1 .. cnt - 1 are the *)
(* elements of thds.  A step of a thread is what it does between two       *)
(* operations other threads can observe: everything between mutex->lock()  *)
(* and the next mutex->unlock() that follows a test of the state word is   *)
(* one step, except that harvest() and the following test are two.         *)
(* stop() takes no lock and may strike between any two steps.              *)
(***************************************************************************)
EXTENDS Integers

CONSTANTS
  Jobs,        \* the Job objects a JobProducer can deliver
  NoJob,       \* the null Job pointer
  Roots,       \* the jobs a producer can hold before any harvest
  Spawn,       \* Spawn[j]: jobs the producer gains in harvest(j)
  MaxThreads,  \* bound on the argument of setThreadCount()
  Faults       \* the user callbacks that may throw: "harvest", "next", "run"

ASSUME JobsAssumption ==
  /\ NoJob \notin Jobs
  /\ Roots \subseteq Jobs
  /\ Spawn \in [Jobs -> SUBSET Jobs]

ASSUME ThreadsAssumption == MaxThreads \in Nat \ {0}

ASSUME FaultsAssumption == Faults \subseteq {"harvest", "next", "run"}

\* A producer that delivers every job at most once, as IteratorProducer over
\* distinct items does: no two harvests add the same job, none adds a root.
DeliveredOnce ==
  /\ \A j \in Jobs : Spawn[j] \intersect Roots = {}
  /\ \A j, k \in Jobs : j # k => Spawn[j] \intersect Spawn[k] = {}

Threads == 0 .. MaxThreads - 1
Main    == 0
NoThread == -1

VARIABLES
  state,     \* the state word: "WAIT", "RUN", "STOP" or "EXN"
  cnt,       \* number of threads, the caller of start() included
  err,       \* the job whose harvest gave the recorded message
  todo,      \* what prod->next() has still to deliver
  mutex,     \* owner of the mutex, or NoThread
  pc,        \* where each thread is
  job,       \* the job each thread holds
  i,         \* index of the loops over thds in start()
  result,    \* how the last start() ended
  crashed,   \* an ASSERTP failed or std::terminate() was called
  harvested, \* history: jobs whose harvest() returned
  failed,    \* history: jobs whose harvest() threw in this start()
  stopped    \* history: stop() was called during this start()

historyVars == <<harvested, failed, stopped>>
vars == <<state, cnt, err, todo, mutex, pc, job, i, result, crashed,
          harvested, failed, stopped>>

-----------------------------------------------------------------------------
(* Where a thread can be.  "none": no Thread object; "made": allocated by   *)
(* Thread::make; "lock", "test", "work", "relock", "harvest": in run();     *)
(* "done": run() returned in a worker; the rest is start() in thread 0.     *)
InRun  == {"lock", "test", "work", "relock", "harvest"}
InLoop == {"work", "relock", "harvest"}
Locked == {"test", "harvest"}
Places == InRun \union
          {"none", "made", "done", "idle", "arm", "spawn", "join", "out",
           "outExn", "outOk", "escaped", "gone"}

\* A thread leaves run(): a worker ends, the caller goes on with the joins.
Exit(t) == IF t = Main THEN "join" ELSE "done"

\* The constructors; init() sets cnt = 4, here the largest count of the model.
JobScheduler ==
  /\ state = "WAIT" /\ cnt = MaxThreads
  /\ err = NoJob /\ todo = {} /\ mutex = NoThread
  /\ pc = [t \in Threads |-> IF t = Main THEN "idle" ELSE "none"]
  /\ job = [t \in Threads |-> NoJob]
  /\ i = 0 /\ result = <<"none", NoJob>> /\ crashed = FALSE
  /\ harvested = {} /\ failed = {} /\ stopped = FALSE

-----------------------------------------------------------------------------
(* The client: configuration calls, allowed while state = WAIT.             *)

assertp(cond) == crashed' = ~cond

setProducer(S) ==
  /\ ~crashed /\ pc[Main] = "idle"
  /\ assertp(state = "WAIT")
  /\ IF state = "WAIT"
     THEN todo' = S /\ harvested' = {} /\ failed' = {}
     ELSE UNCHANGED <<todo, harvested, failed>>
  /\ UNCHANGED <<state, cnt, err, mutex, pc, job, i, result, stopped>>

setThreadCount(count) ==
  /\ ~crashed /\ pc[Main] = "idle"
  /\ assertp(state = "WAIT")
  /\ cnt' = IF state = "WAIT" THEN count ELSE cnt
  /\ UNCHANGED <<state, err, todo, mutex, pc, job, i, result>>
  /\ UNCHANGED historyVars

\* Called by any thread, with no lock and no test of the state.
stop ==
  /\ ~crashed /\ pc[Main] # "gone"
  /\ state' = "STOP"
  /\ stopped' = (stopped \/ pc[Main] # "idle")
  /\ UNCHANGED <<cnt, err, todo, mutex, pc, job, i, result, crashed,
                 harvested, failed>>

\* The destructor deletes the mutex, and the threads if start() was unwound.
destroy ==
  /\ ~crashed /\ pc[Main] \in {"idle", "escaped"}
  /\ pc' = [pc EXCEPT ![Main] = "gone"]
  /\ UNCHANGED <<state, cnt, err, todo, mutex, job, i, result, crashed>>
  /\ UNCHANGED historyVars

-----------------------------------------------------------------------------
(* start(), executed by thread 0.                                           *)

\* new Thread *[cnt - 1] with cnt = 0 throws: start() is left at once.
StartBadCount ==
  /\ ~crashed /\ pc[Main] = "idle" /\ cnt = 0
  /\ result' = <<"badcount", NoJob>>
  /\ UNCHANGED <<state, cnt, err, todo, mutex, pc, job, i, crashed>>
  /\ UNCHANGED historyVars

\* Allocation of the threads: Thread::make does not run them.
StartMake ==
  /\ ~crashed /\ pc[Main] = "idle" /\ cnt > 0
  /\ pc' = [t \in Threads |-> IF t = Main THEN "arm"
                              ELSE IF t < cnt THEN "made" ELSE "none"]
  /\ failed' = {} /\ stopped' = FALSE
  /\ result' = <<"none", NoJob>>
  /\ UNCHANGED <<state, cnt, err, todo, mutex, job, i, crashed, harvested>>

\* state = RUN: whatever a stop() wrote before is overwritten.
StartArm ==
  /\ ~crashed /\ pc[Main] = "arm"
  /\ state' = "RUN"
  /\ i' = 1
  /\ pc' = [pc EXCEPT ![Main] = "spawn"]
  /\ UNCHANGED <<cnt, err, todo, mutex, job, result, crashed>>
  /\ UNCHANGED historyVars

\* Mutant: the loop runs up to cnt instead of cnt - 1.
StartSpawnTooFar ==
  /\ ~crashed /\ pc[Main] = "spawn"
  /\ \/ /\ i <= cnt
        /\ pc' = [t \in Threads |-> IF t = i THEN "lock" ELSE pc[t]]
        /\ i' = i + 1
     \/ /\ i > cnt
        /\ pc' = [pc EXCEPT ![Main] = "lock"]
        /\ i' = 1
  /\ UNCHANGED <<state, cnt, err, todo, mutex, job, result, crashed>>
  /\ UNCHANGED historyVars

\* thds[i]->start(), then run() in the calling thread.
StartSpawn ==
  /\ ~crashed /\ pc[Main] = "spawn"
  /\ \/ /\ i < cnt
        /\ pc' = [pc EXCEPT ![i] = "lock"]
        /\ i' = i + 1
     \/ /\ i >= cnt
        /\ pc' = [pc EXCEPT ![Main] = "lock"]
        /\ i' = 1
  /\ UNCHANGED <<state, cnt, err, todo, mutex, job, result, crashed>>
  /\ UNCHANGED historyVars

\* Mutant: the threads are deleted without being joined.
StartJoinNoWait ==
  /\ ~crashed /\ pc[Main] = "join"
  /\ pc' = [t \in Threads |-> IF t = Main THEN "out" ELSE pc[t]]
  /\ i' = 0
  /\ UNCHANGED <<state, cnt, err, todo, mutex, job, result, crashed>>
  /\ UNCHANGED historyVars

\* thds[i]->join(), then the threads are deleted.
StartJoin ==
  /\ ~crashed /\ pc[Main] = "join"
  /\ \/ /\ i < cnt /\ pc[i] = "done"
        /\ i' = i + 1
        /\ UNCHANGED pc
     \/ /\ i >= cnt
        /\ pc' = [t \in Threads |-> IF t = Main THEN "out" ELSE "none"]
        /\ i' = 0
  /\ UNCHANGED <<state, cnt, err, todo, mutex, job, result, crashed>>
  /\ UNCHANGED historyVars

\* if(state == EXN): the state word is read once ...
StartOutput ==
  /\ ~crashed /\ pc[Main] = "out"
  /\ pc' = [pc EXCEPT ![Main] = IF state = "EXN" THEN "outExn" ELSE "outOk"]
  /\ UNCHANGED <<state, cnt, err, todo, mutex, job, i, result, crashed>>
  /\ UNCHANGED historyVars

\* ... and reset to WAIT, whatever a stop() wrote in between.
StartEnd ==
  /\ ~crashed /\ pc[Main] \in {"outExn", "outOk"}
  /\ state' = "WAIT"
  /\ result' = IF pc[Main] = "outExn" THEN <<"exn", err>> ELSE <<"ok", NoJob>>
  /\ pc' = [pc EXCEPT ![Main] = "idle"]
  /\ UNCHANGED <<cnt, err, todo, mutex, job, i, crashed>>
  /\ UNCHANGED historyVars

-----------------------------------------------------------------------------
(* run(), executed by every thread of the pool.                             *)

RunLock(t) ==
  /\ ~crashed /\ pc[t] = "lock" /\ mutex = NoThread
  /\ mutex' = t
  /\ pc' = [pc EXCEPT ![t] = "test"]
  /\ UNCHANGED <<state, cnt, err, todo, job, i, result, crashed>>
  /\ UNCHANGED historyVars

\* Mutant: the break forgets the unlock() that follows the loop.
RunLeaveLocked(t) ==
  /\ ~crashed /\ pc[t] = "test"
  /\ state # "RUN" \/ todo = {}
  /\ pc' = [pc EXCEPT ![t] = Exit(t)]
  /\ UNCHANGED <<state, cnt, err, todo, mutex, job, i, result, crashed>>
  /\ UNCHANGED historyVars

\* Mutant: after a harvest the loop is left as if no job could have appeared.
RunLeaveEarly(t) ==
  /\ ~crashed /\ pc[t] = "test"
  /\ state # "RUN" \/ todo = {} \/ harvested # {}
  /\ mutex' = NoThread
  /\ pc' = [pc EXCEPT ![t] = Exit(t)]
  /\ UNCHANGED <<state, cnt, err, todo, job, i, result, crashed>>
  /\ UNCHANGED historyVars

\* Mutant: while(true): the state word is not tested.
RunLeaveDeaf(t) ==
  /\ ~crashed /\ pc[t] = "test" /\ todo = {}
  /\ mutex' = NoThread
  /\ pc' = [pc EXCEPT ![t] = Exit(t)]
  /\ UNCHANGED <<state, cnt, err, todo, job, i, result, crashed>>
  /\ UNCHANGED historyVars

\* while(state == RUN): the test fails, or next() gives no job.
RunLeave(t) ==
  /\ ~crashed /\ pc[t] = "test"
  /\ state # "RUN" \/ todo = {}
  /\ mutex' = NoThread
  /\ pc' = [pc EXCEPT ![t] = Exit(t)]
  /\ UNCHANGED <<state, cnt, err, todo, job, i, result, crashed>>
  /\ UNCHANGED historyVars

\* Mutant: next() reads the item without moving the iterator.
RunNextNoAdvance(t, j) ==
  /\ ~crashed /\ pc[t] = "test" /\ state = "RUN"
  /\ j \in todo
  /\ job' = [job EXCEPT ![t] = j]
  /\ mutex' = NoThread
  /\ pc' = [pc EXCEPT ![t] = "work"]
  /\ UNCHANGED <<state, cnt, err, todo, i, result, crashed>>
  /\ UNCHANGED historyVars

\* job = prod->next(); the mutex is released before the job is run.
RunNext(t, j) ==
  /\ ~crashed /\ pc[t] = "test" /\ state = "RUN"
  /\ j \in todo
  /\ todo' = todo \ {j}
  /\ job' = [job EXCEPT ![t] = j]
  /\ mutex' = NoThread
  /\ pc' = [pc EXCEPT ![t] = "work"]
  /\ UNCHANGED <<state, cnt, err, i, result, crashed>>
  /\ UNCHANGED historyVars

\* job->run() returns.
RunWork(t) ==
  /\ ~crashed /\ pc[t] = "work"
  /\ pc' = [pc EXCEPT ![t] = "relock"]
  /\ UNCHANGED <<state, cnt, err, todo, mutex, job, i, result, crashed>>
  /\ UNCHANGED historyVars

\* Mutant: the mutex is not taken again before harvest().
RunRelockRacy(t) ==
  /\ ~crashed /\ pc[t] = "relock"
  /\ pc' = [pc EXCEPT ![t] = "harvest"]
  /\ UNCHANGED <<state, cnt, err, todo, mutex, job, i, result, crashed>>
  /\ UNCHANGED historyVars

\* mutex->lock() before the harvest.
RunRelock(t) ==
  /\ ~crashed /\ pc[t] = "relock" /\ mutex = NoThread
  /\ mutex' = t
  /\ pc' = [pc EXCEPT ![t] = "harvest"]
  /\ UNCHANGED <<state, cnt, err, todo, job, i, result, crashed>>
  /\ UNCHANGED historyVars

\* prod->harvest(job) returns; the loop goes on with the mutex held.
RunHarvest(t) ==
  /\ ~crashed /\ pc[t] = "harvest"
  /\ harvested' = harvested \union {job[t]}
  /\ todo' = todo \union Spawn[job[t]]
  /\ job' = [job EXCEPT ![t] = NoJob]
  /\ pc' = [pc EXCEPT ![t] = "test"]
  /\ UNCHANGED <<state, cnt, err, mutex, i, result, crashed, failed, stopped>>

\* prod->harvest(job) throws an elm::Exception: record it and leave the loop.
RunCatch(t) ==
  /\ ~crashed /\ pc[t] = "harvest" /\ "harvest" \in Faults
  /\ err' = job[t]
  /\ state' = "EXN"
  /\ failed' = failed \union {job[t]}
  /\ job' = [job EXCEPT ![t] = NoJob]
  /\ mutex' = NoThread
  /\ pc' = [pc EXCEPT ![t] = Exit(t)]
  /\ UNCHANGED <<cnt, todo, i, result, crashed, harvested, stopped>>

\* next() or job->run() throws: nothing catches it.  In a worker it reaches
\* the thread function and terminates the process; in thread 0 it unwinds
\* run() and start(), leaving the mutex and the threads as they are.
RunEscape(t) ==
  /\ ~crashed
  /\ \/ pc[t] = "test" /\ state = "RUN" /\ "next" \in Faults
     \/ pc[t] = "work" /\ "run" \in Faults
  /\ crashed' = (t # Main)
  /\ pc' = [pc EXCEPT ![t] = IF t = Main THEN "escaped" ELSE @]
  /\ UNCHANGED <<state, cnt, err, todo, mutex, job, i, result>>
  /\ UNCHANGED historyVars

-----------------------------------------------------------------------------
start == StartBadCount \/ StartMake \/ StartArm \/ StartSpawn \/ StartJoin
         \/ StartOutput \/ StartEnd

run(t) == RunLock(t) \/ RunLeave(t) \/ (\E j \in Jobs : RunNext(t, j))
          \/ RunWork(t) \/ RunRelock(t) \/ RunHarvest(t) \/ RunCatch(t)
          \/ RunEscape(t)

client == \/ \E S \in SUBSET Roots : setProducer(S)
          \/ \E c \in 0 .. MaxThreads : setThreadCount(c)
          \/ stop \/ destroy

\* After a failed assertion, std::terminate() or the destructor nothing moves.
Halted == (crashed \/ pc[Main] = "gone") /\ UNCHANGED vars

Next == client \/ start \/ (\E t \in Threads : run(t)) \/ Halted

Spec == JobScheduler /\ [][Next]_vars

\* The operating system runs every runnable thread and every job->run()
\* returns; a client is never forced to call anything.
Fairness ==
  /\ WF_vars(StartArm \/ StartSpawn \/ StartJoin \/ StartOutput \/ StartEnd)
  /\ \A t \in Threads : WF_vars(run(t))

FairSpec == Spec /\ Fairness

-----------------------------------------------------------------------------
(* Properties.                                                              *)

InFlight == {job[t] : t \in Threads} \ {NoJob}

\* Type correctness of the scheduler's fields and of the threads' places.
TypeOK ==
  /\ state \in {"WAIT", "RUN", "STOP", "EXN"}
  /\ cnt \in 0 .. MaxThreads
  /\ err \in Jobs \union {NoJob}
  /\ todo \subseteq Jobs
  /\ mutex \in Threads \union {NoThread}
  /\ pc \in [Threads -> Places]
  /\ job \in [Threads -> Jobs \union {NoJob}]
  /\ i \in 0 .. MaxThreads
  /\ result \in {"none", "ok", "exn", "badcount"} \X (Jobs \union {NoJob})
  /\ crashed \in BOOLEAN
  /\ harvested \subseteq Jobs /\ failed \subseteq Jobs
  /\ stopped \in BOOLEAN

\* "harvest() method is called in an exclusive way": two threads are never
\* both between mutex->lock() and mutex->unlock() in run(), where the state
\* is tested and next() and harvest() are called.
HarvestExclusive ==
  \A t, u \in Threads : t # u => ~(pc[t] \in Locked /\ pc[u] \in Locked)

\* A job is held by one thread at most and is in one stage only: still to
\* be delivered, in the hands of a thread, harvested, or failed.
EachJobOnce ==
  DeliveredOnce =>
    /\ \A t, u \in Threads : t # u /\ job[t] = job[u] => job[t] = NoJob
    /\ todo \intersect (InFlight \union harvested \union failed) = {}
    /\ InFlight \intersect (harvested \union failed) = {}
    /\ harvested \intersect failed = {}

\* When start() has deleted its threads, none of them is still in run(), no
\* job taken from the producer was dropped before harvest(), and the mutex
\* is free for the next start().
JoinedOnReturn ==
  pc[Main] \in {"out", "outExn", "outOk", "idle"} =>
    /\ \A t \in Threads \ {Main} : pc[t] = "none"
    /\ InFlight = {}
    /\ mutex = NoThread

\* What a caller of start() sees: the promise of module WorkPool.
Pool == INSTANCE WorkPool
  WITH busy <- pc[Main] \notin {"idle", "gone"}, inflight <- InFlight,
       quit <- stopped, outcome <- result

ImplementsWorkPool == Pool!ASpec

\* A start() that armed the scheduler returns, whatever the interleaving of
\* the threads, the exceptions of harvest() and the calls of stop().
StartReturns == pc[Main] = "arm" ~> pc[Main] = "idle"

\* Once the scheduler is armed, a stop() ends start() even when the producer
\* never runs out of jobs: it returns, is left by an exception of next() or
\* run(), or the exception ends the process or a thread that holds the mutex.
StopEndsStart ==
  (state = "STOP" /\ pc[Main] \notin {"idle", "arm", "gone"})
    ~> pc[Main] \in {"idle", "escaped", "gone"} \/ crashed

-----------------------------------------------------------------------------
(* What the documentation says and the code does not do.                    *)

\* "This function will only when all jobs has been processed or a call to
\* stop() has been performed": a stop() during start() makes it return.
StopReturns ==
  (stopped /\ pc[Main] \notin {"idle", "gone"}) ~> pc[Main] = "idle"

\* "forbidden operation when scheduler is running": the assertion of
\* setProducer() and setThreadCount() only fails when start() is running.
AssertOnlyWhenRunning == crashed => pc[Main] # "idle"

\* "Thread management is transparent for the user": when start() is left,
\* normally or not, no thread of the pool is left behind in run().
NoThreadLeftBehind ==
  pc[Main] \in {"idle", "escaped", "gone"} =>
    \A t \in Threads \ {Main} : pc[t] \notin InRun
=============================================================================
