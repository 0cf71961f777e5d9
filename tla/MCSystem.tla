------------------------------ MODULE MCSystem ------------------------------
(***************************************************************************)
(* Finite instances of the wrappers of the system: threads and mutexes,    *)
(* sockets, processes and their pipes, plugins.  A behaviour exercises one *)
(* of them, in one of the programs below, chosen in the first state.       *)
(***************************************************************************)
EXTENDS Plugger

CONSTANTS main, other, stat, libp, libq   \* pluggers and plugins

VARIABLES
  subject,     \* the program that is run
  t_life, t_started, t_joined, t_joining, t_running, t_cancel, t_key, t_thr,
  t_owner, t_wants, t_budget, t_last, t_aborted,
  s_fds, s_srv, s_bound, s_pc, s_con, s_cl, s_clpc, s_stop, s_fault,
  p_fds, p_cloexec, p_errno, p_pc, p_runs, p_rfd, p_wfd, p_want, p_old,
  p_error, p_kid, p_pid, p_rcode, p_waitFault

tvars == <<t_life, t_started, t_joined, t_joining, t_running, t_cancel,
           t_key, t_thr, t_owner, t_wants, t_budget, t_last, t_aborted>>
svars == <<s_fds, s_srv, s_bound, s_pc, s_con, s_cl, s_clpc, s_stop,
           s_fault>>
pvars == <<p_fds, p_cloexec, p_errno, p_pc, p_runs, p_rfd, p_wfd, p_want,
           p_old, p_error, p_kid, p_pid, p_rcode, p_waitFault>>

\* Two threads and two mutexes: creations fail, threads are killed, mutexes
\* are tried and unlocked by those who do not hold them.
AnyThreads == INSTANCE Thread
  WITH Threads <- {"t1", "t2"}, Mutexes <- {"m1", "m2"},
       Runnables <- {"t1", "t2"}, Null <- "null",
       RunnableOf <- [t \in {"t1", "t2"} |-> t], CanFail <- TRUE,
       CanKill <- TRUE, CanTry <- TRUE, Misuse <- TRUE, Budget <- 2,
       life <- t_life, started <- t_started, joined <- t_joined, joining <-
       t_joining, running <- t_running, cancel <- t_cancel, key <- t_key, thr
       <- t_thr, owner <- t_owner, wants <- t_wants, budget <- t_budget, last
       <- t_last, aborted <- t_aborted

\* Two threads that release the mutex they lock.
CalmThreads == INSTANCE Thread
  WITH Threads <- {"t1", "t2"}, Mutexes <- {"m1"},
       Runnables <- {"t1", "t2"}, Null <- "null",
       RunnableOf <- [t \in {"t1", "t2"} |-> t], CanFail <- FALSE,
       CanKill <- FALSE, CanTry <- FALSE, Misuse <- FALSE, Budget <- 2,
       life <- t_life, started <- t_started, joined <- t_joined, joining <-
       t_joining, running <- t_running, cancel <- t_cancel, key <- t_key, thr
       <- t_thr, owner <- t_owner, wants <- t_wants, budget <- t_budget, last
       <- t_last, aborted <- t_aborted

\* Three ports that differ in each byte.
MCPorts == {<<0, 7>>, <<1, 0>>, <<1, 1>>}

\* A server and two clients in one thread, which use every object once.
OneThread == INSTANCE Sockets
  WITH Clients <- {"c1", "c2"}, Fds <- 3 .. 6, Ports <- MCPorts,
       GivenPort <- <<0, 7>>, Preempt <- FALSE, OtherCloses <- FALSE,
       Reconnect <- FALSE, CloseTwice <- FALSE, Careful <- FALSE,
       fds <- s_fds, srv <- s_srv, bound <- s_bound, pc <- s_pc, con <-
       s_con, cl <- s_cl, clpc <- s_clpc, stop <- s_stop, fault <- s_fault

\* A server and a client in threads that open, close and connect as they like.
Disorder == INSTANCE Sockets
  WITH Clients <- {"c1"}, Fds <- 3 .. 5, Ports <- MCPorts,
       GivenPort <- <<0, 7>>, Preempt <- TRUE, OtherCloses <- TRUE,
       Reconnect <- TRUE, CloseTwice <- TRUE, Careful <- FALSE,
       fds <- s_fds, srv <- s_srv, bound <- s_bound, pc <- s_pc, con <-
       s_con, cl <- s_cl, clpc <- s_clpc, stop <- s_stop, fault <- s_fault

\* The same, but what is open is closed before it is opened again, and the
\* handlers of the server catch what they throw.
CarefulDisorder == INSTANCE Sockets
  WITH Clients <- {"c1"}, Fds <- 3 .. 6, Ports <- MCPorts,
       GivenPort <- <<0, 7>>, Preempt <- TRUE, OtherCloses <- TRUE,
       Reconnect <- TRUE, CloseTwice <- TRUE, Careful <- TRUE,
       fds <- s_fds, srv <- s_srv, bound <- s_bound, pc <- s_pc, con <-
       s_con, cl <- s_cl, clpc <- s_clpc, stop <- s_stop, fault <- s_fault

\* A server closed by its own handlers.
OwnClose == INSTANCE Sockets
  WITH Clients <- {"c1"}, Fds <- 3 .. 5, Ports <- MCPorts,
       GivenPort <- <<0, 7>>, Preempt <- TRUE, OtherCloses <- FALSE,
       Reconnect <- FALSE, CloseTwice <- FALSE, Careful <- FALSE,
       fds <- s_fds, srv <- s_srv, bound <- s_bound, pc <- s_pc, con <-
       s_con, cl <- s_cl, clpc <- s_clpc, stop <- s_stop, fault <- s_fault

\* Three processes one after the other, with the calls of the system failing.
Processes == INSTANCE Process
  WITH Threads <- {"t1"}, MaxFd <- 7, MaxRuns <- 3, MayFail <- TRUE,
       fds <- p_fds, cloexec <- p_cloexec, errno <- p_errno, pc <- p_pc, runs
       <- p_runs, rfd <- p_rfd, wfd <- p_wfd, want <- p_want, old <- p_old,
       error <- p_error, kid <- p_kid, pid <- p_pid, rcode <- p_rcode,
       waitFault <- p_waitFault

-----------------------------------------------------------------------------
(* A static plugin and two loadable ones: libq depends on libp in directory *)
(* b; the other plugger has the hook of libp but not its version.  The      *)
(* program either has two pluggers, or one whose directories change and     *)
(* which also meets broken libraries and an alias; in both a plugin has one *)
(* user (MaxUse) and two pluggers share one in a third program, Shared.     *)

MCNames   == {"p", "q"}
MCAll     == MCNames \union {"s", "x", "alias"}
MCStatics == <<stat>>
MCMatches == stat :> {"s"} @@ libp :> {"p"} @@ libq :> {"q", "alias"}
MCHookOf  == stat :> {main} @@ libp :> {main, other} @@ libq :> {main, other}
MCAccepted == stat :> {main} @@ libp :> {main} @@ libq :> {main, other}

MCFile(d, n) ==
  CASE n = "p" -> IF d = "a" THEN libp ELSE "broken"
    [] n = "q" -> libq
    [] n = "x" -> IF d = "a" THEN "irregular" ELSE "no_magic"
    [] OTHER   -> "absent"
MCLib == [f \in {"a", "b"} \X MCAll |-> MCFile(f[1], f[2])]

MCEld == [f \in {"a", "b"} \X MCAll |->
  CASE f = <<"b", "q">>     -> [kind |-> "deps", deps |-> <<"p">>, libs |-> TRUE]
    [] f = <<"b", "x">>     -> [kind |-> "deps", deps |-> <<>>, libs |-> FALSE]
    [] f = <<"a", "alias">> -> [kind |-> "path", dir |-> "b", name |-> "q"]
    [] OTHER                -> NoEld]

MCListing == [d \in {"a", "b"} |-> <<"q">>]
MCPaths   == <<"a", "b">>

Rearranged == INSTANCE Plugger
  WITH Pluggers <- {main}, Names <- MCAll \ {"p"}, Rearrange <- TRUE,
       Listing <- [d \in {"a", "b"} |-> <<"x", "p", "q">>]

\* Two pluggers that share libp and libq, which depends on it: a plugin has up
\* to three users, its library up to three openings, and it is idle twice
\* before it is unloaded.
Shared == INSTANCE Plugger
  WITH Plugins <- {libp, libq}, Names <- MCNames, Dirs <- {"b"}, Statics <- <<>>,
       Lib <- [f \in {"b"} \X MCNames |-> IF f[2] = "p" THEN libp ELSE libq],
       Accepted <- MCHookOf, Listing <- [d \in {"b"} |-> <<"p", "q">>],
       FirstPaths <- <<"b">>, MaxUse <- 3, MAX_AGE <- 2

-----------------------------------------------------------------------------
ASSUME SystemAssumption ==
  /\ AnyThreads!Parameters /\ CalmThreads!Parameters
  /\ OneThread!Parameters /\ OwnClose!Parameters
  /\ Disorder!Parameters /\ CarefulDisorder!Parameters
  /\ Processes!Parameters

mcvars == <<subject, tvars, svars, pvars, vars>>

MCInit ==
  /\ subject \in {"threads", "calm", "sockets", "disorder", "careful", "close",
                 "process", "plugins", "paths", "shared"}
  /\ IF subject = "calm" THEN CalmThreads!Init ELSE AnyThreads!Init
  /\ CASE subject = "sockets"  -> OneThread!Init
       [] subject = "disorder" -> Disorder!Init
       [] subject = "careful"  -> CarefulDisorder!Init
       [] OTHER                -> OwnClose!Init
  /\ Processes!Init
  /\ CASE subject = "paths"  -> Rearranged!Init
       [] subject = "shared" -> Shared!Init
       [] OTHER              -> Init

MCNext ==
  \/ /\ \/ subject = "threads" /\ AnyThreads!Next
        \/ subject = "calm" /\ CalmThreads!Next
     /\ UNCHANGED <<subject, svars, pvars, vars>>
  \/ /\ \/ subject = "sockets" /\ OneThread!Next
        \/ subject = "disorder" /\ Disorder!Next
        \/ subject = "careful" /\ CarefulDisorder!Next
        \/ subject = "close" /\ OwnClose!Next
     /\ UNCHANGED <<subject, tvars, pvars, vars>>
  \/ subject = "process" /\ Processes!Next /\ UNCHANGED <<subject, tvars, svars, vars>>
  \/ /\ \/ subject = "plugins" /\ Next
        \/ subject = "paths" /\ Rearranged!Next
        \/ subject = "shared" /\ Shared!Next
     /\ UNCHANGED <<subject, tvars, svars, pvars>>

\* The system runs every thread that can take a step, and a body that is not
\* blocked goes on: it reaches its end and its cancellation points.
ThreadsGoOn ==
  /\ WF_tvars(subject = "calm" /\ CalmThreads!joinReturn)
  /\ \A t \in {"t1", "t2"} :
       /\ WF_tvars(subject = "calm" /\ CalmThreads!enter(t))
       /\ WF_tvars(subject = "calm" /\ CalmThreads!setSpecific(t))
       /\ WF_tvars(subject = "calm" /\ CalmThreads!cleanup(t))
       /\ WF_tvars(subject = "calm" /\ CalmThreads!lockReturn(t))
       /\ WF_tvars(subject = "calm" /\ CalmThreads!end(t))
       /\ WF_tvars(subject = "calm" /\ CalmThreads!cancelled(t))
       /\ WF_tvars(subject = "calm" /\ CalmThreads!unlock(t, "m1"))

\* The thread of the server goes on when it can, and handlers return; nobody
\* has to connect.
ServerGoesOn ==
  /\ WF_svars(subject = "close" /\ OwnClose!Loop)
  /\ WF_svars(subject = "close" /\ OwnClose!Listen)
  /\ WF_svars(subject = "close" /\ OwnClose!Refused)
  /\ WF_svars(subject = "close" /\ OwnClose!EndServe)
  /\ WF_svars(subject = "close" /\ OwnClose!DeleteOut)
  /\ WF_svars(subject = "close" /\ OwnClose!DisconnectOut("c1"))

MCSpec ==
  /\ MCInit /\ [][MCNext]_mcvars
  /\ ThreadsGoOn /\ ServerGoesOn

-----------------------------------------------------------------------------
(* What is checked, see the modules.                                        *)

\* Thread: isRunning() follows the body of the thread, whichever way it ends,
\* and a body finds itself with current() and with thread().
ThreadsExact ==
  subject = "threads" => AnyThreads!FlagTrue /\ AnyThreads!SelfKnown

\* Thread and Mutex: every join() returns when bodies release what they lock.
JoinEnds == subject = "calm" => CalmThreads!JoinEnds

\* Sockets: when one thread uses the objects in order, what an object holds is
\* its own open descriptor, no object is used after its deletion and port()
\* is the port the socket is bound to; whatever threads do with the objects,
\* no open socket is lost but by an open() or a connect() of an object that
\* has one open and by an exception of a handler: without these, every open
\* socket is held.
SocketsSound ==
  /\ subject = "sockets" =>
       OneThread!HeldIsOpen /\ OneThread!NoDeadObject /\ OneThread!PortIsBound
  /\ subject = "disorder" => Disorder!NoSocketLost
  /\ subject = "careful" => CarefulDisorder!EverySocketHeld

\* Server: manage() ends once a handler has called close().
ManageEnds == subject = "close" => OwnClose!ManageEnds

\* ProcessBuilder, Process and System::pipe(): between two runs every
\* descriptor is as it was, no destructor closes the descriptor of another
\* stream, a process is waited for once and its code kept, and a reader sees
\* the end of file once the writers it knows of are gone.
ProcessesSound ==
  subject = "process" =>
    /\ Processes!TableRestored /\ Processes!StreamStaysOpen
    /\ Processes!ReapedOnce /\ Processes!EndOfFileComes

\* The objects of threads, sockets and processes agree with the system: a
\* flag or a descriptor they keep is never stale when one thread uses them,
\* and a program that closes what it opens loses none whatever its threads do.
WrappersSound == ThreadsExact /\ SocketsSound /\ ProcessesSound

\* Plugin counts its users, of two pluggers and of the plugins that depend on
\* it, the list of unused plugins is exact, and the tables of two pluggers hold
\* loaded plugins only: Plugin::plug() ages and unloads the idle ones, and
\* every table forgets them.
PluginsExact ==
  /\ subject \in {"plugins", "paths"} => UsersAreCounted /\ UnusedIsExact
  /\ subject = "plugins" => TypeOK /\ TablesHoldLoaded
  /\ subject = "shared" =>
       /\ Shared!UsersAreCounted /\ Shared!UnusedIsExact
       /\ Shared!TypeOK /\ Shared!TablesHoldLoaded

\* Plugger: what plug() and plugFile() return has the hook and a version of the
\* plugger, and no failure met on the way is left in err.
PlugsAreClean ==
  IF subject = "shared" THEN Shared!SuccessIsClean ELSE SuccessIsClean

\* No call waits for ever: neither join(), nor manage() after close().
CallsEnd == JoinEnds /\ ManageEnds
=============================================================================
