------------------------------- MODULE Thread -------------------------------
(***************************************************************************)
(* elm::sys::Thread, Runnable and Mutex on POSIX threads                   *)
(* (include/elm/sys/Thread.h, src/system_Thread.cpp: PThread and PMutex).  *)
(* The main thread makes, starts, joins and kills threads; their bodies    *)
(* lock and unlock mutexes, return or stop.                                *)
(*                                                                         *)
(* The pthread functions return positive error codes and leave errno as it *)
(* was.  A mutex is of the default kind: locking it twice blocks, and      *)
(* unlocking it needs no ownership.  Cancellation is deferred, and waiting *)
(* for a mutex is no cancellation point.                                   *)
(***************************************************************************)
EXTENDS Naturals

CONSTANTS
  Threads, Mutexes, Runnables, Null,
  RunnableOf,  \* the runnable each thread is made for
  CanFail,     \* pthread_create() may find no resource
  CanKill,     \* the main thread uses kill()
  CanTry,      \* bodies use tryLock() on a mutex that may be held
  Misuse,      \* bodies unlock mutexes they do not hold
  Budget       \* bound on the locks a body takes

\* What the constants are assumed to be.
Parameters ==
  /\ RunnableOf \in [Threads -> Runnables]
  /\ Null \notin Threads \union Mutexes
  /\ {CanFail, CanKill, CanTry, Misuse} \subseteq BOOLEAN
  /\ Budget \in Nat

VARIABLES
  life,      \* what the OS thread does
  started,   \* start() returned without an exception
  joined,    \* join() returned
  joining,   \* the thread the main thread waits for
  running,   \* the field running
  cancel,    \* a cancellation is pending
  key,       \* the thread-specific value, Thread::current() in the thread
  thr,       \* the field thr of the runnables
  owner,     \* who holds each mutex
  wants,     \* the mutex each thread waits for
  budget,
  last,      \* the last call, whether the case its documentation promises
             \* an exception for was met, and whether it threw one
  aborted    \* an assertion failed or the behaviour is undefined

vars == <<life, started, joined, joining, running, cancel, key, thr, owner,
          wants, budget, last, aborted>>

flow  == <<life, running, key>>
locks == <<owner, wants, budget>>
mainv == <<started, joined, joining, thr>>

-----------------------------------------------------------------------------
Call(c, b, x) == [call |-> c, bad |-> b, threw |-> x]

Init ==
  /\ life = [t \in Threads |-> "none"]
  /\ started = [t \in Threads |-> FALSE] /\ joined = [t \in Threads |-> FALSE]
  /\ joining = Null
  /\ running = [t \in Threads |-> FALSE] /\ cancel = [t \in Threads |-> FALSE]
  /\ key = [t \in Threads |-> Null] /\ thr = [r \in Runnables |-> Null]
  /\ owner = [m \in Mutexes |-> Null] /\ wants = [t \in Threads |-> Null]
  /\ budget = [t \in Threads |-> Budget]
  /\ last = Call("none", FALSE, FALSE) /\ aborted = FALSE

MainFree == joining = Null /\ ~aborted

\* Thread::make() and the constructors.
make(t) ==
  /\ MainFree /\ life[t] = "none"
  /\ life' = [life EXCEPT ![t] = "made"]
  /\ thr' = [thr EXCEPT ![RunnableOf[t]] = t]
  /\ last' = Call("make", FALSE, FALSE)
  /\ UNCHANGED <<started, joined, joining, running, cancel, key, locks, aborted>>

\* start(): the test rc < 0 sees no failure of pthread_create().
start(t) ==
  /\ MainFree /\ life[t] = "made" /\ ~started[t]
  /\ started' = [started EXCEPT ![t] = TRUE]
  /\ \/ /\ life' = [life EXCEPT ![t] = "created"]
        /\ last' = Call("start", FALSE, FALSE)
     \/ /\ CanFail /\ UNCHANGED life
        /\ last' = Call("start", TRUE, FALSE)
  /\ UNCHANGED <<joined, joining, running, cancel, key, thr, locks, aborted>>

\* join() of a thread that was created; without one pt is still 0.
join(t) ==
  /\ MainFree /\ started[t] /\ ~joined[t]
  /\ IF life[t] = "made"
     THEN aborted' = TRUE /\ UNCHANGED joining
     ELSE joining' = t /\ UNCHANGED aborted
  /\ last' = Call("join", FALSE, FALSE)
  /\ UNCHANGED <<flow, started, joined, cancel, thr, locks>>

joinReturn ==
  /\ joining # Null /\ life[joining] = "dead"
  /\ joined' = [joined EXCEPT ![joining] = TRUE]
  /\ joining' = Null
  /\ UNCHANGED <<flow, started, cancel, thr, locks, last, aborted>>

\* kill(): pthread_cancel() of a dead thread fails, and rc < 0 does not see it.
kill(t) ==
  /\ CanKill /\ MainFree /\ started[t] /\ ~joined[t] /\ life[t] # "made"
  /\ cancel' = [cancel EXCEPT ![t] = @ \/ life[t] # "dead"]
  /\ last' = Call("kill", life[t] = "dead", FALSE)
  /\ UNCHANGED <<flow, mainv, locks, aborted>>

-----------------------------------------------------------------------------
\* PThread::run(): the cleanup is pushed and the flag set, then the thread-
\* specific value.
enter(t) ==
  /\ life[t] = "created" /\ ~aborted
  /\ life' = [life EXCEPT ![t] = "entered"]
  /\ running' = [running EXCEPT ![t] = TRUE]
  /\ UNCHANGED <<key, mainv, cancel, locks, last, aborted>>

setSpecific(t) ==
  /\ life[t] = "entered" /\ ~aborted
  /\ key' = [key EXCEPT ![t] = t]
  /\ life' = [life EXCEPT ![t] = "body"]
  /\ UNCHANGED <<running, mainv, cancel, locks, last, aborted>>

InBody(t) == life[t] = "body" /\ wants[t] = Null /\ ~aborted
Holds(t)  == \E m \in Mutexes : owner[m] = t

\* PMutex::lock(): takes the mutex or waits for it.
lock(t, m) ==
  /\ InBody(t) /\ budget[t] > 0 /\ owner[m] # t
  /\ budget' = [budget EXCEPT ![t] = @ - 1]
  /\ IF owner[m] = Null
     THEN owner' = [owner EXCEPT ![m] = t] /\ UNCHANGED wants
     ELSE wants' = [wants EXCEPT ![t] = m] /\ UNCHANGED owner
  /\ last' = Call("lock", FALSE, FALSE)
  /\ UNCHANGED <<flow, mainv, cancel, aborted>>

lockReturn(t) ==
  /\ wants[t] # Null /\ owner[wants[t]] = Null /\ ~aborted
  /\ owner' = [owner EXCEPT ![wants[t]] = t]
  /\ wants' = [wants EXCEPT ![t] = Null]
  /\ UNCHANGED <<flow, mainv, cancel, budget, last, aborted>>

\* PMutex::tryLock(): a busy mutex is reported by the returned code, but the
\* code looks into errno, which may hold anything.
tryLock(t, m) ==
  /\ InBody(t) /\ budget[t] > 0 /\ owner[m] # t
  /\ budget' = [budget EXCEPT ![t] = @ - 1]
  /\ \/ /\ owner[m] = Null
        /\ owner' = [owner EXCEPT ![m] = t]
        /\ last' = Call("tryLock", FALSE, FALSE) /\ UNCHANGED aborted
     \/ /\ owner[m] # Null /\ CanTry
        /\ \E errno \in {"EBUSY", "EAGAIN", "other"} :
             /\ last' = Call("tryLock", FALSE, errno = "EAGAIN")
             /\ aborted' = (errno = "other")
        /\ UNCHANGED owner
  /\ UNCHANGED <<flow, mainv, cancel, wants>>

\* PMutex::unlock(): no error is returned for a mutex held by another thread.
unlock(t, m) ==
  /\ InBody(t)
  /\ owner[m] = t \/ (Misuse /\ owner[m] # Null)
  /\ owner' = [owner EXCEPT ![m] = Null]
  /\ last' = Call("unlock", owner[m] # t, FALSE)
  /\ UNCHANGED <<flow, mainv, cancel, wants, budget, aborted>>

\* run() returns or calls stop(), once it holds nothing.
end(t) ==
  /\ InBody(t) /\ ~Holds(t)
  /\ life' = [life EXCEPT ![t] = "ending"]
  /\ UNCHANGED <<running, key, mainv, cancel, locks, last, aborted>>

\* A cancellation point of the body.
cancelled(t) ==
  /\ InBody(t) /\ cancel[t]
  /\ life' = [life EXCEPT ![t] = "ending"]
  /\ UNCHANGED <<running, key, mainv, cancel, locks, last, aborted>>

\* cleanup(), run on every way out of the thread.
cleanup(t) ==
  /\ life[t] = "ending" /\ ~aborted
  /\ running' = [running EXCEPT ![t] = FALSE]
  /\ life' = [life EXCEPT ![t] = "dead"]
  /\ UNCHANGED <<key, mainv, cancel, locks, last, aborted>>

Step(t) ==
  \/ enter(t) \/ setSpecific(t) \/ lockReturn(t) \/ end(t) \/ cancelled(t)
  \/ cleanup(t)
  \/ \E m \in Mutexes : lock(t, m) \/ tryLock(t, m) \/ unlock(t, m)

Next ==
  \/ \E t \in Threads : make(t) \/ start(t) \/ join(t) \/ kill(t) \/ Step(t)
  \/ joinReturn

Spec == Init /\ [][Next]_vars

-----------------------------------------------------------------------------
\* isRunning() is true in the whole body, and false once join() returned,
\* whichever way the thread ended: return, stop() or kill().
FlagTrue ==
  \A t \in Threads :
    /\ life[t] = "body" => running[t]
    /\ joined[t] => ~running[t]

\* A body finds itself with Thread::current() and with thread() of its
\* runnable: "Get the current thread executing the runnable."  Fails when
\* two threads are made for one runnable.
SelfKnown ==
  \A t \in Threads :
    life[t] = "body" => key[t] = t /\ thr[RunnableOf[t]] = t

\* Every join() returns, when the bodies release what they lock and end.
JoinEnds == \A t \in Threads : (joining = t) ~> joined[t]

\* start(): "If no more resources are available for the thread", an
\* exception is thrown.  Fails: the error code is positive.
StartReports == last.call = "start" /\ last.bad => last.threw

\* kill(): an exception is "Thrown if the thread is already dead".  Fails
\* for the same reason.
KillReports == last.call = "kill" /\ last.bad => last.threw

\* tryLock(): "Else return immediately without blocking."  Fails: the
\* assertion of the default case is reached when errno is not EBUSY.
TryLockReturns == ~aborted

\* unlock(): an exception is thrown for a "Mutex not owned by the current
\* thread".  Fails: a mutex of the default kind does not know its owner.
UnlockReports == last.call = "unlock" /\ last.bad => last.threw

\* kill(): "the thread will be killed".  Fails when the thread waits for a
\* mutex that another killed thread held.
KillEnds == \A t \in Threads : cancel[t] ~> life[t] = "dead"
=============================================================================
