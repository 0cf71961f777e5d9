------------------------------ MODULE Sockets ------------------------------
(***************************************************************************)
(* The network module of elm for Unix: net::Server over                    *)
(* net::ServerSocket and net::Connection (src/net_ServerSocket.cpp), and   *)
(* net::ClientSocket (src/net_ClientSocket.cpp), with the descriptor table *)
(* of the program that uses them.  A Connection and a ClientSocket own a   *)
(* descriptor and a UnixOutStream, whose destructor closes the same number *)
(* once more: deleting either is two system calls.                         *)
(*                                                                         *)
(* One server and several clients live in a program.  A client connects,   *)
(* takes its streams and disconnects, again and again; what it sends and   *)
(* receives is left out.  The server opens, manages connections in a loop  *)
(* and is closed, by the handler of a connection, by its own thread when   *)
(* manage() has ended or, if OtherCloses, by another thread.  A port is a  *)
(* pair of bytes, that host and network order swap.                        *)
(***************************************************************************)
EXTENDS Integers, FiniteSets, FiniteSetsExt

CONSTANTS
    Clients,
    Fds,            \* the descriptors a process may have
    Ports,          \* the ports: pairs <<high byte, low byte>>
    GivenPort,      \* the port given to the server, or NoPort
    Preempt,        \* each object has a thread of its own
    OtherCloses,    \* a thread calls Server::close() during manage()
    Reconnect,      \* a client that has used its streams connects again
    CloseTwice,     \* a closed server is destroyed
    Careful         \* open() and connect() find no open descriptor in their
                    \* object, and no exception leaves onConnection()

NoPort == <<-1, -1>>

\* What the constants are assumed to be.
Parameters ==
  /\ Fds \subseteq Nat /\ IsFiniteSet(Fds)
  /\ Ports # {} /\ GivenPort \in Ports \union {NoPort}
  /\ {Preempt, OtherCloses, Reconnect, CloseTwice, Careful} \subseteq BOOLEAN

VARIABLES
    fds,        \* what each descriptor designates; history: "dropped" if
                \* the program has overwritten or abandoned the number
    srv,        \* the server: sock, on, and the _fd and _port of its socket
    bound,      \* the port the listening socket is bound to
    pc,         \* where the thread of the server stands
    con,        \* the descriptor of the connection served
    cl,         \* the clients: _fd, _in, _out and the descriptor _out writes to
    clpc,       \* where each client stands
    stop,       \* close() has been called since manage() was
    fault       \* a deleted object has been used or deleted again

vars == <<fds, srv, bound, pc, con, cl, clpc, stop, fault>>
server == <<srv, bound, pc, con, stop>>

NoFd == -1
Swap(p) == <<p[2], p[1]>>      \* htons() and ntohs()

Init ==
    /\ fds = [f \in Fds |-> "free"]
    /\ srv = [sock |-> "null", on |-> FALSE, fd |-> NoFd, port |-> NoPort]
    /\ bound = NoPort
    /\ pc = "idle" /\ con = NoFd
    /\ cl = [c \in Clients |-> [fd |-> NoFd, in |-> "null", out |-> "null", to |-> NoFd]]
    /\ clpc = [c \in Clients |-> "idle"]
    /\ stop = FALSE
    /\ fault = "none"

-----------------------------------------------------------------------------
(* The descriptor table (external) and the interleaving.                   *)

\* A new descriptor is the lowest free one.
Fresh(f) == fds[f] = "free" /\ \A g \in Fds : g < f => fds[g] # "free"

\* close(): nothing but an error is given for a descriptor that is not open.
Closed(table, f) == IF f \in Fds THEN [table EXCEPT ![f] = "free"] ELSE table

\* The number of an open socket, of the kind given, is overwritten or abandoned.
Drop(table, f, kind) ==
    IF f \in Fds /\ table[f] = kind THEN [table EXCEPT ![f] = "dropped"] ELSE table

\* The server's thread may go on, unless another one is in a destructor.
ServerRuns == fault = "none" /\ (Preempt \/ \A c \in Clients : clpc[c] = "idle")

ClientRuns(c) ==
    /\ fault = "none"
    /\ Preempt \/ (pc # "delete" /\ \A d \in Clients \ {c} : clpc[d] = "idle")

-----------------------------------------------------------------------------
(* Server and ServerSocket.                                                *)

\* Server::open(), out of manage(): sock is overwritten, whatever it was.
MayOpen ==
    /\ ServerRuns /\ pc = "idle"
    /\ Careful => srv.sock # "live" \/ srv.fd = NoFd

SockDropped == IF srv.sock = "live" THEN Drop(fds, srv.fd, "listen") ELSE fds

Listening(f, port) ==
    /\ Fresh(f)
    /\ fds' = [SockDropped EXCEPT ![f] = "listen"]
    /\ bound' = port

\* open() of a new socket: bind() takes the port given, in network order, or any;
\* the number then kept is the one getsockname() gives, in network order.  bind()
\* may accept or refuse a port that a dropped socket still listens to.
Open ==
    /\ MayOpen
    /\ \E f \in Fds, p \in Ports :
          /\ GivenPort # NoPort => p = GivenPort
          /\ Listening(f, p)
          /\ srv' = [srv EXCEPT !.sock = "live", !.fd = f,
                        !.port = IF GivenPort = NoPort THEN Swap(p) ELSE GivenPort]
    /\ UNCHANGED <<pc, con, cl, clpc, stop, fault>>

\* socket() fails, or bind() or listen() does and close() is called.
OpenFails ==
    /\ MayOpen
    /\ fds' = SockDropped
    /\ bound' = NoPort
    /\ srv' = [srv EXCEPT !.sock = "live", !.fd = NoFd, !.port = GivenPort]
    /\ UNCHANGED <<pc, con, cl, clpc, stop, fault>>

\* setsockopt() fails: the exception leaves the descriptor in the socket.
OptionFails ==
    /\ MayOpen
    /\ \E f \in Fds :
          /\ Listening(f, NoPort)
          /\ srv' = [srv EXCEPT !.sock = "live", !.fd = f, !.port = GivenPort]
    /\ UNCHANGED <<pc, con, cl, clpc, stop, fault>>

\* Server::close(), whoever calls it: the socket is deleted, which closes its
\* descriptor, and the pointer stays.
DoClose ==
    /\ stop' = TRUE
    /\ bound' = NoPort
    /\ IF srv.sock = "deleted"
       THEN /\ fault' = "deleted_twice"
            /\ UNCHANGED <<srv, fds>>
       ELSE /\ srv' = [srv EXCEPT !.on = FALSE, !.fd = NoFd, !.port = NoPort,
                          !.sock = IF @ = "live" THEN "deleted" ELSE @]
            /\ fds' = IF srv.sock = "live" THEN Closed(fds, srv.fd) ELSE fds
            /\ UNCHANGED fault

\* A socket that is deleted is not used any more: the server is destroyed and
\* another one built in its place, or closed again.
CloseIdle ==
    /\ ServerRuns /\ pc = "idle" /\ srv.sock = "live"
    /\ DoClose
    /\ UNCHANGED <<pc, con, cl, clpc>>

CloseInHandler ==
    /\ ServerRuns /\ pc = "serve" /\ srv.sock = "live"
    /\ DoClose
    /\ UNCHANGED <<pc, con, cl, clpc>>

CloseOther ==
    /\ OtherCloses
    /\ ServerRuns /\ pc # "idle" /\ srv.sock = "live"
    /\ DoClose
    /\ UNCHANGED <<pc, con, cl, clpc>>

Destroy ==
    /\ CloseTwice
    /\ ServerRuns /\ pc = "idle" /\ srv.sock = "deleted"
    /\ DoClose
    /\ UNCHANGED <<pc, con, cl, clpc>>

\* manage(): on is set, then tested before each connection.
Manage ==
    /\ ServerRuns /\ pc = "idle" /\ srv.sock = "live"
    /\ srv' = [srv EXCEPT !.on = TRUE]
    /\ stop' = FALSE
    /\ pc' = "loop"
    /\ UNCHANGED <<fds, bound, con, cl, clpc, fault>>

\* Mutant: the loop goes back to accept() without a look at on.
LoopAlways ==
    /\ ServerRuns /\ pc = "loop"
    /\ pc' = "accept"
    /\ UNCHANGED <<fds, srv, bound, con, cl, clpc, stop, fault>>

Loop ==
    /\ ServerRuns /\ pc = "loop"
    /\ pc' = IF srv.on THEN "listen" ELSE "idle"
    /\ UNCHANGED <<fds, srv, bound, con, cl, clpc, stop, fault>>

\* sock->listen() calls accept(), which refuses a socket that does not listen.
Listen ==
    /\ ServerRuns /\ pc = "listen"
    /\ IF srv.sock = "live"
       THEN pc' = (IF bound # NoPort THEN "accept" ELSE "refused") /\ UNCHANGED fault
       ELSE fault' = "used_after_delete" /\ UNCHANGED pc
    /\ UNCHANGED <<fds, srv, bound, con, cl, clpc, stop>>

\* accept() waits for a connection, even on a socket closed since.
Accept ==
    /\ ServerRuns /\ pc = "accept"
    /\ \E f \in Fds :
          /\ Fresh(f)
          /\ fds' = [fds EXCEPT ![f] = "connection"]
          /\ con' = f
    /\ pc' = "serve"
    /\ UNCHANGED <<srv, bound, cl, clpc, stop, fault>>

\* accept() fails: the exception leaves manage() with on as it is.
Throw ==
    /\ ServerRuns
    /\ pc' = "idle"
    /\ UNCHANGED <<fds, srv, bound, con, cl, clpc, stop, fault>>

AcceptFails == pc = "accept" /\ Throw
Refused == pc = "refused" /\ Throw

\* onConnection() returns and the connection is deleted: ~Connection() closes
\* the descriptor...
EndServe ==
    /\ ServerRuns /\ pc = "serve"
    /\ fds' = Closed(fds, con)
    /\ pc' = "delete"
    /\ UNCHANGED <<srv, bound, con, cl, clpc, stop, fault>>

\* ...and the destructor of its output stream closes it again.
DeleteOut ==
    /\ ServerRuns /\ pc = "delete"
    /\ fds' = Closed(fds, con)
    /\ con' = NoFd
    /\ pc' = "loop"
    /\ UNCHANGED <<srv, bound, cl, clpc, stop, fault>>

\* An exception of onConnection() leaves manage(): the connection is neither
\* deleted nor known to anybody.
HandlerThrows ==
    /\ ~Careful
    /\ ServerRuns /\ pc = "serve"
    /\ fds' = Drop(fds, con, "connection")
    /\ con' = NoFd
    /\ pc' = "idle"
    /\ UNCHANGED <<srv, bound, cl, clpc, stop, fault>>

-----------------------------------------------------------------------------
(* ClientSocket.                                                           *)

MayConnect(c) ==
    /\ ClientRuns(c) /\ clpc[c] = "idle"
    /\ Reconnect \/ (cl[c].in = "null" /\ cl[c].out = "null")
    /\ Careful => cl[c].fd = NoFd

\* A client has a descriptor in _fd, and in its output stream until its deletion.
Holds(x, f) == x.fd = f \/ (x.out = "live" /\ x.to = f)

\* The table when a client becomes x without a call of the system: a socket that
\* it held, and nobody holds now, stays open.
Abandoned(c, x) ==
    [f \in Fds |->
        IF /\ fds[f] = "client" /\ Holds(cl[c], f) /\ ~Holds(x, f)
           /\ \A d \in Clients \ {c} : ~Holds(cl[d], f)
        THEN "dropped" ELSE fds[f]]

\* connect() overwrites _fd, connected or not.
Connect(c) ==
    /\ MayConnect(c)
    /\ \E f \in Fds :
          /\ Fresh(f)
          /\ LET x == [cl[c] EXCEPT !.fd = f]
             IN  fds' = [Abandoned(c, x) EXCEPT ![f] = "client"] /\ cl' = [cl EXCEPT ![c] = x]
    /\ UNCHANGED <<server, clpc, fault>>

\* socket() fails, and _fd is -1.
SocketFails(c) ==
    /\ MayConnect(c)
    /\ LET x == [cl[c] EXCEPT !.fd = NoFd]
       IN  fds' = Abandoned(c, x) /\ cl' = [cl EXCEPT ![c] = x]
    /\ UNCHANGED <<server, clpc, fault>>

\* The end of disconnect(), the descriptor being closed: the streams are deleted,
\* their pointers stay, and the output stream is still to close its number.
DeleteStreams(c) ==
    LET again == "deleted" \in {cl[c].in, cl[c].out}
        S     == [cl[c] EXCEPT !.fd = NoFd,
                               !.in = IF @ = "live" /\ ~again THEN "deleted" ELSE @]
    IN  /\ cl' = [cl EXCEPT ![c] = S]
        /\ clpc' = [clpc EXCEPT ![c] = IF cl[c].out = "live" /\ ~again THEN "delete" ELSE @]
        /\ fault' = IF again THEN "deleted_twice" ELSE fault

\* connect() fails after the socket was made and calls disconnect().
ConnectFails(c) ==
    /\ MayConnect(c)
    /\ \E f \in Fds : Fresh(f)
    /\ fds' = Abandoned(c, [cl[c] EXCEPT !.fd = NoFd])
    /\ DeleteStreams(c)
    /\ UNCHANGED server

\* in(): the stream made once is given again.
In(c) ==
    /\ ClientRuns(c) /\ clpc[c] = "idle" /\ cl[c].fd # NoFd
    /\ IF cl[c].in = "deleted"
       THEN fault' = "used_after_delete" /\ UNCHANGED cl
       ELSE cl' = [cl EXCEPT ![c].in = "live"] /\ UNCHANGED fault
    /\ UNCHANGED <<fds, server, clpc>>

Out(c) ==
    /\ ClientRuns(c) /\ clpc[c] = "idle" /\ cl[c].fd # NoFd
    /\ IF cl[c].out = "deleted"
       THEN fault' = "used_after_delete" /\ UNCHANGED cl
       ELSE /\ cl' = [cl EXCEPT ![c].out = "live",
                                ![c].to = IF cl[c].out = "live" THEN @ ELSE cl[c].fd]
            /\ UNCHANGED fault
    /\ UNCHANGED <<fds, server, clpc>>

\* Mutant: the closed descriptor is kept.
DisconnectKeeps(c) ==
    /\ ClientRuns(c) /\ clpc[c] = "idle" /\ cl[c].fd # NoFd
    /\ fds' = Closed(fds, cl[c].fd)
    /\ UNCHANGED <<cl, clpc, server, fault>>

\* disconnect(), of a client that is connected...
Disconnect(c) ==
    /\ ClientRuns(c) /\ clpc[c] = "idle" /\ cl[c].fd # NoFd
    /\ fds' = Closed(fds, cl[c].fd)
    /\ DeleteStreams(c)
    /\ UNCHANGED server

\* ...and its output stream closes its number, most often the same.
DisconnectOut(c) ==
    /\ ClientRuns(c) /\ clpc[c] = "delete"
    /\ fds' = Closed(fds, cl[c].to)
    /\ cl' = [cl EXCEPT ![c].out = "deleted", ![c].to = NoFd]
    /\ clpc' = [clpc EXCEPT ![c] = "idle"]
    /\ UNCHANGED <<server, fault>>

\* The ClientSocket is deleted, disconnected before, and another one made; what
\* a failing connect() has left to the output stream is lost.
Renew(c) ==
    /\ ClientRuns(c) /\ clpc[c] = "idle" /\ cl[c].fd = NoFd
    /\ LET x == [fd |-> NoFd, in |-> "null", out |-> "null", to |-> NoFd]
       IN  fds' = Abandoned(c, x) /\ cl' = [cl EXCEPT ![c] = x]
    /\ UNCHANGED <<server, clpc, fault>>

Next ==
    \/ Open \/ OpenFails \/ OptionFails \/ Manage \/ Loop \/ Listen \/ Accept \/ AcceptFails \/ Refused
    \/ EndServe \/ HandlerThrows \/ DeleteOut
    \/ CloseIdle \/ CloseInHandler \/ CloseOther \/ Destroy
    \/ \E c \in Clients : \/ Connect(c) \/ SocketFails(c) \/ ConnectFails(c) \/ In(c) \/ Out(c)
                          \/ Disconnect(c) \/ DisconnectOut(c) \/ Renew(c)

Spec == Init /\ [][Next]_vars

-----------------------------------------------------------------------------
(* Properties.                                                             *)

\* What an object holds as its descriptor is its own open file: no other
\* object has closed it behind its back.
HeldIsOpen ==
    /\ srv.sock = "live" /\ srv.fd # NoFd => fds[srv.fd] = "listen"
    /\ pc = "serve" => fds[con] = "connection"
    /\ \A c \in Clients : cl[c].fd # NoFd => fds[cl[c].fd] = "client"

\* An open socket is held by the object that has to close it.
Held(f) ==
    \/ fds[f] = "listen" /\ srv.sock = "live" /\ srv.fd = f
    \/ fds[f] = "connection" /\ pc \in {"serve", "delete"} /\ con = f
    \/ fds[f] = "client" /\ \E c \in Clients : Holds(cl[c], f)

\* No socket is lost but by open() and connect() of an object that holds one,
\* or by an exception of onConnection(): neither on the error paths of open(),
\* listen() and connect(), nor by deletions that close a number twice.
NoSocketLost == \A f \in Fds : fds[f] \in {"free", "dropped"} \/ Held(f)

\* "Close the connection": at any time every open socket can still be closed by
\* the object that holds it.
EverySocketHeld == \A f \in Fds : fds[f] = "free" \/ Held(f)

\* No object is used after its deletion or deleted twice.
NoDeadObject == fault = "none"

\* port() of an open server is the port it listens to.
PortIsBound == srv.sock = "live" /\ bound # NoPort => srv.port = bound

\* After close() the function manage() ends, unless the program has gone wrong.
ManageEnds == stop /\ pc # "idle" ~> pc = "idle" \/ ~stop \/ fault # "none"
=============================================================================
