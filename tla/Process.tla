------------------------------ MODULE Process ------------------------------
(***************************************************************************)
(* sys::ProcessBuilder::run(), sys::System::pipe(), the destruction of the *)
(* pipe streams and sys::Process, with the descriptor table and the errno  *)
(* they act on. run() redirects the standard descriptors of the program    *)
(* itself, forks, and puts them back.                                      *)
(*                                                                         *)
(* Each thread builds a pipe, runs a process with some of its streams tied *)
(* to it, deletes the streams and waits for the process, several times. A  *)
(* step is one redirection, the fork, one restoration or one system call.  *)
(***************************************************************************)
EXTENDS Integers, FiniteSets

CONSTANTS Threads,
          MaxFd,        \* greatest descriptor
          MaxRuns,      \* bound on the number of pipes of a thread
          MayFail       \* pipe(), dup() and fork() may fail

\* What the constants are assumed to be.
Parameters ==
  /\ MaxFd \in Nat /\ MaxFd >= 2 /\ MaxRuns \in Nat /\ MayFail \in BOOLEAN

Fds == 0..MaxFd
Std == 0..2
NoFd == -1

\* An open file: a standard one, or an end of the n-th pipe of a thread.
Tty(k) == [kind |-> "tty", of |-> k]
End(e, t, n) == [kind |-> e, of |-> <<t, n>>]
Closed == [kind |-> "closed", of |-> 0]

VARIABLES fds,      \* the descriptor table: what each descriptor designates
          cloexec,  \* the descriptors closed by exec
          errno,    \* errno of each thread is not 0
          pc,       \* where each thread stands
          runs,     \* number of pipes each thread has built
          rfd, wfd, \* _fd of the pipe streams of each thread, NoFd if deleted
          want,     \* what each builder asks for: "std", "r" or "w"
          old,      \* old_in, old_out, old_err of each run()
          error,    \* the local variable error of each run()
          kid,      \* the process last built by each thread
          pid,      \* its Process object has a pid
          rcode,    \* its return code, as the object gives it
          waitFault \* a wait on a process that is no more has failed

vars == <<fds, cloexec, errno, pc, runs, rfd, wfd, want, old, error, kid, pid,
          rcode, waitFault>>

local == <<rfd, wfd, want, old, error, kid, pid, rcode, waitFault, runs>>

NoKid == [state |-> "none", std |-> [k \in Std |-> Closed], held |-> {}, code |-> 0]

Init ==
    /\ fds = [f \in Fds |-> IF f \in Std THEN Tty(f) ELSE Closed]
    /\ cloexec = {} /\ errno = [t \in Threads |-> FALSE]
    /\ pc = [t \in Threads |-> "idle"] /\ runs = [t \in Threads |-> 0]
    /\ rfd = [t \in Threads |-> NoFd] /\ wfd = [t \in Threads |-> NoFd]
    /\ want = [t \in Threads |-> [k \in Std |-> "std"]]
    /\ old = [t \in Threads |-> [k \in Std |-> NoFd]]
    /\ error = [t \in Threads |-> FALSE]
    /\ kid = [t \in Threads |-> NoKid] /\ pid = [t \in Threads |-> FALSE]
    /\ rcode = [t \in Threads |-> 0] /\ waitFault = FALSE

Free == {f \in Fds : fds[f] = Closed}
Lowest(S) == CHOOSE f \in S : \A g \in S : f <= g

Goto(t, l) == pc' = [pc EXCEPT ![t] = l]

-----------------------------------------------------------------------------
(* System::pipe() *)

pipe(t) ==
    /\ pc[t] = "idle" /\ rfd[t] = NoFd /\ wfd[t] = NoFd /\ ~pid[t] /\ runs[t] < MaxRuns
    /\ \/ /\ Cardinality(Free) >= 2
          /\ LET r == Lowest(Free)
                 w == Lowest(Free \ {r})
             IN  /\ fds' = [fds EXCEPT ![r] = End("r", t, runs[t] + 1),
                                       ![w] = End("w", t, runs[t] + 1)]
                 /\ rfd' = [rfd EXCEPT ![t] = r] /\ wfd' = [wfd EXCEPT ![t] = w]
          /\ runs' = [runs EXCEPT ![t] = @ + 1]
          /\ Goto(t, "cloexec")
          /\ UNCHANGED errno
       \/ /\ MayFail /\ errno' = [errno EXCEPT ![t] = TRUE]   \* SystemException
          /\ UNCHANGED <<fds, rfd, wfd, runs, pc>>
    /\ UNCHANGED <<cloexec, want, old, error, kid, pid, rcode, waitFault>>

\* fcntl() on both ends; the streams are returned.
setCloexec(t) ==
    /\ pc[t] = "cloexec"
    /\ cloexec' = cloexec \union {rfd[t], wfd[t]}
    /\ Goto(t, "piped")
    /\ UNCHANGED <<fds, errno, local>>

-----------------------------------------------------------------------------
(* ProcessBuilder *)

\* setInput(), setOutput(), setError() and the call of run().
run(t) ==
    /\ pc[t] = "piped"
    /\ \E i \in {"std", "r"}, o \in {"std", "w"}, e \in {"std", "w"} :
        want' = [want EXCEPT ![t] = [k \in Std |-> <<i, o, e>>[k + 1]]]
    /\ old' = [old EXCEPT ![t] = [k \in Std |-> NoFd]]
    /\ error' = [error EXCEPT ![t] = FALSE]
    /\ Goto(t, "in")
    /\ UNCHANGED <<fds, cloexec, errno, rfd, wfd, kid, pid, rcode, waitFault, runs>>

Target(t, k) == IF want[t][k] = "r" THEN rfd[t] ELSE wfd[t]

\* The test that precedes the redirection of output and error is on errno.
Looks(t, k) == k = 0 \/ ~errno[t]

\* The redirection of descriptor k: dup() keeps it, dup2() replaces it.
redirect(t, k, here, next) ==
    /\ pc[t] = here
    /\ Goto(t, next)
    /\ \/ /\ ~Looks(t, k) \/ want[t][k] = "std"
          /\ UNCHANGED <<fds, cloexec, errno, old, error>>
       \/ /\ Looks(t, k) /\ want[t][k] # "std" /\ Free # {}
          /\ LET saved == Lowest(Free)
             IN  /\ old' = [old EXCEPT ![t][k] = saved]
                 /\ fds' = [fds EXCEPT ![saved] = fds[k], ![k] = fds[Target(t, k)]]
                 /\ cloexec' = cloexec \ {k, saved}
          /\ UNCHANGED <<errno, error>>
       \/ /\ Looks(t, k) /\ want[t][k] # "std" /\ (MayFail \/ Free = {})
          /\ error' = [error EXCEPT ![t] = TRUE] /\ errno' = [errno EXCEPT ![t] = TRUE]
          /\ UNCHANGED <<fds, cloexec, old>>
    /\ UNCHANGED <<rfd, wfd, want, kid, pid, rcode, waitFault, runs>>

\* fork(), unless an error was met. The new process has a copy of the table,
\* from which exec removes the descriptors with FD_CLOEXEC.
fork(t) ==
    /\ pc[t] = "fork"
    /\ Goto(t, "restore")
    /\ \/ /\ error[t] /\ UNCHANGED <<kid, pid, errno, error>>
       \/ /\ ~error[t]
          /\ kid' = [kid EXCEPT ![t] =
                [state |-> "forked", std |-> [k \in Std |-> fds[k]], code |-> 0,
                 held |-> {fds[f] : f \in Fds \ cloexec}]]
          /\ pid' = [pid EXCEPT ![t] = TRUE]
          /\ UNCHANGED <<errno, error>>
       \/ /\ ~error[t] /\ MayFail
          /\ error' = [error EXCEPT ![t] = TRUE] /\ errno' = [errno EXCEPT ![t] = TRUE]
          /\ UNCHANGED <<kid, pid>>
    /\ UNCHANGED <<fds, cloexec, rfd, wfd, want, old, rcode, waitFault, runs>>

\* close(k), dup2(old, k), close(old).
Restored(t, k, table) ==
    IF old[t][k] = NoFd THEN table
    ELSE [table EXCEPT ![k] = table[old[t][k]], ![old[t][k]] = Closed]

\* The three restorations, and the end of run(): the process or a throw.
restore(t) ==
    /\ pc[t] = "restore"
    /\ fds' = Restored(t, 2, Restored(t, 1, Restored(t, 0, fds)))
    /\ Goto(t, IF error[t] THEN "piped" ELSE "built")
    /\ UNCHANGED <<cloexec, errno, local>>

-----------------------------------------------------------------------------
(* The streams and the process. *)

\* close(f) by thread t: EBADF if it is not open.
Close(t, f) ==
    /\ fds' = [fds EXCEPT ![f] = Closed]
    /\ cloexec' = cloexec \ {f}
    /\ errno' = [errno EXCEPT ![t] = @ \/ fds[f] = Closed]

\* The first part of ~PipeOutStream(): its own close().
deleteOut(t) ==
    /\ pc[t] \in {"piped", "built"} /\ wfd[t] # NoFd
    /\ Close(t, wfd[t])
    /\ Goto(t, IF pc[t] = "built" THEN "baseBuilt" ELSE "basePiped")
    /\ UNCHANGED local

\* Its second part, ~UnixOutStream(): close() again, since _fd is still set.
deleteOutBase(t) ==
    /\ pc[t] \in {"baseBuilt", "basePiped"}
    /\ Close(t, wfd[t])
    /\ wfd' = [wfd EXCEPT ![t] = NoFd]
    /\ Goto(t, IF pc[t] = "baseBuilt" THEN "built" ELSE "idle")
    /\ UNCHANGED <<rfd, want, old, error, kid, pid, rcode, waitFault, runs>>

deleteIn(t) ==
    /\ pc[t] \in {"idle", "built"} /\ rfd[t] # NoFd
    /\ Close(t, rfd[t])
    /\ rfd' = [rfd EXCEPT ![t] = NoFd]
    /\ UNCHANGED <<pc, wfd, want, old, error, kid, pid, rcode, waitFault, runs>>

\* The object learns the end of its process: pid = -1 and WEXITSTATUS.
Reaped(t) ==
    /\ rcode' = [rcode EXCEPT ![t] = kid[t].code]
    /\ pid' = [pid EXCEPT ![t] = FALSE]

\* wait() and returnCode(), once the process has ended, and isAlive(), which
\* waits for nothing and leaves a live process as it is.
wait(t) ==
    /\ pc[t] = "built" /\ pid[t]
    /\ kid[t].state \in {"ended", "reaped"}
    /\ waitFault' = (waitFault \/ kid[t].state = "reaped")     \* ECHILD
    /\ Reaped(t)
    /\ kid' = [kid EXCEPT ![t].state = "reaped"]
    /\ UNCHANGED <<fds, cloexec, errno, pc, rfd, wfd, want, old, error, runs>>

\* The thread is done with the process and its streams.
again(t) ==
    /\ pc[t] = "built" /\ ~pid[t] /\ wfd[t] = NoFd /\ rfd[t] = NoFd
    /\ Goto(t, "idle")
    /\ UNCHANGED <<fds, cloexec, errno, local>>

\* A process ends by itself, is killed by kill(), or its exec fails: exit(1).
\* WEXITSTATUS of a killed process is 0.
kidEnds(t) ==
    /\ kid[t].state = "forked"
    /\ \E c \in {0, 1} : kid' = [kid EXCEPT ![t].state = "ended", ![t].code = c,
                                            ![t].held = {}]
    /\ UNCHANGED <<fds, cloexec, errno, pc, rfd, wfd, want, old, error, pid, rcode,
                   waitFault, runs>>

Step(t) ==
    \/ pipe(t) \/ setCloexec(t) \/ run(t)
    \/ redirect(t, 0, "in", "out") \/ redirect(t, 1, "out", "err")
    \/ redirect(t, 2, "err", "fork")
    \/ fork(t) \/ restore(t)
    \/ deleteOut(t) \/ deleteOutBase(t) \/ deleteIn(t)
    \/ wait(t) \/ again(t) \/ kidEnds(t)

Next == \E t \in Threads : Step(t)

Spec == Init /\ [][Next]_vars

-----------------------------------------------------------------------------
InRun(t) == pc[t] \in {"in", "out", "err", "fork", "restore"}

\* Between two runs the program has its own standard streams back, and no
\* descriptor is open but these and those of the streams it has: neither a
\* failed dup() or fork() nor any choice of redirections leaks one.
TableRestored ==
    (\A t \in Threads : ~InRun(t)) =>
        /\ \A k \in Std : fds[k] = Tty(k)
        /\ \A f \in Fds \ Std : fds[f] # Closed =>
                \E t \in Threads : f \in {rfd[t], wfd[t]}

\* A stream that was not deleted keeps its descriptor: no destructor closes
\* the descriptor of another stream.
StreamStaysOpen ==
    \A t \in Threads :
        /\ rfd[t] # NoFd => fds[rfd[t]] = End("r", t, runs[t])
        /\ wfd[t] # NoFd /\ pc[t] \notin {"baseBuilt", "basePiped"} =>
                fds[wfd[t]] = End("w", t, runs[t])

\* Once a thread has deleted the writing end of its pipe, only a process that
\* was asked to write on it still holds it: the reader, be it the thread or
\* the process itself, sees the end of file when the writer has ended.
EndOfFileComes ==
    \A t \in Threads : pc[t] = "built" /\ wfd[t] = NoFd =>
        /\ \A f \in Fds : fds[f] # End("w", t, runs[t])
        /\ \A u \in Threads : End("w", t, runs[t]) \in kid[u].held =>
                u = t /\ \E k \in Std : want[t][k] = "w"

\* wait(), isAlive() and returnCode() never wait for a process whose end is
\* already known, and give the code of that end.
ReapedOnce ==
    /\ ~waitFault
    /\ \A t \in Threads : kid[t].state = "reaped" => rcode[t] = kid[t].code

\* What the builder of thread t asked for descriptor k.
Asked(t, k) == IF want[t][k] = "std" THEN Tty(k) ELSE End(want[t][k], t, runs[t])

\* "Set the output stream of the built process.": a process that was built has
\* the streams its builder was given.
ChildAsAsked ==
    \A t \in Threads : kid[t].state = "forked" /\ pid[t] /\ pc[t] \in {"restore", "built"} =>
        \A k \in Std : kid[t].std[k] = Asked(t, k)

=============================================================================
