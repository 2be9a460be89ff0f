------------------------------- MODULE TcpSvr -------------------------------
(***************************************************************************)
(* TcpSvr of TcpCSFramework (FrameWork.cs): a server on asynchronous       *)
(* sockets.  One accept callback is outstanding at a time, and one receive *)
(* callback for each session; they run on the threads of the pool, beside  *)
(* the application's own thread.  All of them read and write _sessionTable *)
(* and _clientCount, and none takes a lock, so every access is a step.     *)
(*                                                                         *)
(* A client is named by its socket.  The hash table itself is taken to be  *)
(* atomic.  The server is started once.                                    *)
(***************************************************************************)
EXTENDS Integers, FiniteSets, Sequences

CONSTANTS Client,       \* the sockets of the clients
          MaxClient,    \* _maxClient
          Wrap,         \* the number of values of _clientCount, a ushort
          Serial,       \* callbacks and calls do not overlap
          Closing,      \* the application closes sessions by itself
          MaxSend,      \* bound: sends under way on one socket
          Stopping      \* the application stops the server

NoClient == "nobody"
NoTable == {NoClient}     \* null
App == "app"            \* the application's thread, in Stop

TcpSvrAssumption ==
  /\ IsFiniteSet(Client) /\ {NoClient, App} \cap Client = {}
  /\ Wrap \in Nat \ {0} /\ MaxClient \in 0..(Wrap - 1)
  /\ {Serial, Closing, Stopping} \subseteq BOOLEAN /\ MaxSend \in Nat

Idle == [at |-> "idle", who |-> NoClient, reg |-> 0]

VARIABLES
  isRun,                \* _isRun
  svrSock,              \* _svrSock: "none", "open" or "closed"
  table,                \* _sessionTable
  count,                \* _clientCount
  accepting,            \* an accept has been posted
  acceptor,             \* where the accept callback is
  sock,                 \* the socket of each client, as the server sees it
  remote,               \* what the client's end has done
  recv,                 \* a receive has been posted
  sends,                \* how many sends are under way
  worker,               \* where the receive callback of each session is
  closer,               \* where the application's CloseSession or Stop is
  events,               \* ClientConn and ClientClose, for each client
  fault                 \* a callback has died of an exception: that of a "send", some
                        \* "other", or "no"

svrVars  == <<isRun, svrSock, table, count>>
sockVars == <<sock, remote, recv, sends>>
vars == <<svrVars, accepting, acceptor, sockVars, worker, closer, events, fault>>

Init ==
  /\ isRun = FALSE /\ svrSock = "none" /\ table = NoTable /\ count = 0
  /\ accepting = FALSE /\ acceptor = Idle
  /\ sock = [c \in Client |-> "none"]
  /\ remote = [c \in Client |-> "open"]
  /\ recv = [c \in Client |-> FALSE] /\ sends = [c \in Client |-> 0]
  /\ worker = [c \in Client |-> Idle]
  /\ closer = Idle
  /\ events = [c \in Client |-> <<>>]
  /\ fault = "no"

-----------------------------------------------------------------------------
Quiet == acceptor = Idle /\ closer = Idle /\ \A c \in Client : worker[c] = Idle

(* A callback or a call of the application begins. *)
MayBegin == fault = "no" /\ (Serial => Quiet)

Goes(p, place) == [p EXCEPT !.at = place]
Dies == fault' = "other"

(* Start. *)
Start ==
  /\ MayBegin /\ svrSock = "none" /\ ~isRun
  /\ table' = {} /\ svrSock' = "open" /\ accepting' = TRUE /\ isRun' = TRUE
  /\ UNCHANGED <<count, acceptor, sockVars, worker, closer, events, fault>>

-----------------------------------------------------------------------------
(* The ends of the connections.                                            *)

(* A client connects; it waits in the backlog of the listening socket. *)
Connects(c) ==
  /\ svrSock = "open" /\ sock[c] = "none"
  /\ sock' = [sock EXCEPT ![c] = "backlog"]
  /\ UNCHANGED <<svrVars, accepting, acceptor, remote, recv, sends, worker, closer,
                 events, fault>>

(* The client shuts its end, resets it, or the connection fails with some  *)
(* other error.                                                            *)
Ends(c, how) ==
  /\ sock[c] = "open" /\ remote[c] = "open"
  /\ remote' = [remote EXCEPT ![c] = how]
  /\ UNCHANGED <<svrVars, accepting, acceptor, sock, recv, sends, worker, closer,
                 events, fault>>

-----------------------------------------------------------------------------
(* AcceptConn.                                                             *)

(* The test of _isRun, EndAccept, and the test of _clientCount. *)
AcceptBegin ==
  /\ MayBegin /\ acceptor = Idle /\ accepting
  /\ IF svrSock = "closed"
     THEN /\ accepting' = FALSE
          /\ IF isRun THEN Dies ELSE UNCHANGED fault
          /\ UNCHANGED <<acceptor, sock>>
     ELSE \E c \in Client :
          /\ sock[c] = "backlog"
          /\ accepting' = FALSE
          /\ IF isRun
             THEN /\ sock' = [sock EXCEPT ![c] = "open"]
                  /\ acceptor' = [Idle EXCEPT !.who = c, !.at =
                                    IF count = MaxClient THEN "full" ELSE "add"]
             ELSE UNCHANGED <<sock, acceptor>>
          /\ UNCHANGED fault
  /\ UNCHANGED <<svrVars, remote, recv, sends, worker, closer, events>>

(* Deviation: the limit is tested after one more client is let in. *)
AcceptBegin_OneMore ==
  /\ MayBegin /\ acceptor = Idle /\ accepting /\ svrSock = "open" /\ isRun
  /\ \E c \in Client :
       /\ sock[c] = "backlog"
       /\ accepting' = FALSE
       /\ sock' = [sock EXCEPT ![c] = "open"]
       /\ acceptor' = [Idle EXCEPT !.who = c, !.at =
                         IF count > MaxClient THEN "full" ELSE "add"]
  /\ UNCHANGED <<svrVars, remote, recv, sends, worker, closer, events, fault>>

(* Too many clients: ServerFull is raised, and the socket is left alone. *)
AcceptFull ==
  /\ fault = "no" /\ acceptor.at = "full"
  /\ events' = [events EXCEPT ![acceptor.who] = Append(@, "full")]
  /\ acceptor' = Goes(acceptor, "again")
  /\ UNCHANGED <<svrVars, accepting, sockVars, worker, closer, fault>>

(* Deviation: the session is not put into the table. *)
AcceptAdd_Not ==
  /\ fault = "no" /\ acceptor.at = "add"
  /\ acceptor' = Goes(acceptor, "load")
  /\ UNCHANGED <<svrVars, accepting, sockVars, worker, closer, events, fault>>

(* The session goes into the table. *)
AcceptAdd ==
  /\ fault = "no" /\ acceptor.at = "add"
  /\ IF table = NoTable
     THEN Dies /\ UNCHANGED <<table, acceptor>>
     ELSE /\ table' = table \cup {acceptor.who}
          /\ acceptor' = Goes(acceptor, "load")
          /\ UNCHANGED fault
  /\ UNCHANGED <<isRun, svrSock, count, accepting, sockVars, worker, closer, events>>

(* _clientCount++ reads the counter, and then writes it. *)
AcceptLoad ==
  /\ fault = "no" /\ acceptor.at = "load"
  /\ acceptor' = [acceptor EXCEPT !.at = "store", !.reg = count]
  /\ UNCHANGED <<svrVars, accepting, sockVars, worker, closer, events, fault>>

AcceptStore ==
  /\ fault = "no" /\ acceptor.at = "store"
  /\ count' = (acceptor.reg + 1) % Wrap
  /\ acceptor' = Goes(acceptor, "recv")
  /\ UNCHANGED <<isRun, svrSock, table, accepting, sockVars, worker, closer,
                 events, fault>>

(* Deviation: a client that is let in is not counted. *)
AcceptStore_Not ==
  /\ fault = "no" /\ acceptor.at = "store"
  /\ acceptor' = Goes(acceptor, "recv")
  /\ UNCHANGED <<svrVars, accepting, sockVars, worker, closer, events, fault>>

(* BeginReceive, which throws when the socket has been closed. *)
AcceptReceive ==
  /\ fault = "no" /\ acceptor.at = "recv"
  /\ IF sock[acceptor.who] = "closed"
     THEN Dies /\ UNCHANGED <<recv, acceptor>>
     ELSE /\ recv' = [recv EXCEPT ![acceptor.who] = TRUE]
          /\ acceptor' = Goes(acceptor, "event")
          /\ UNCHANGED fault
  /\ UNCHANGED <<svrVars, accepting, sock, remote, sends, worker, closer, events>>

(* Deviation: no receive is posted on a session that has just been made. *)
AcceptReceive_Not ==
  /\ fault = "no" /\ acceptor.at = "recv"
  /\ acceptor' = Goes(acceptor, "event")
  /\ UNCHANGED <<svrVars, accepting, sockVars, worker, closer, events, fault>>

(* ClientConn is raised: the receive may have completed before. *)
AcceptEvent ==
  /\ fault = "no" /\ acceptor.at = "event"
  /\ events' = [events EXCEPT ![acceptor.who] = Append(@, "conn")]
  /\ acceptor' = Goes(acceptor, "again")
  /\ UNCHANGED <<svrVars, accepting, sockVars, worker, closer, fault>>

(* Deviation: the application is not told. *)
AcceptEvent_Silent ==
  /\ fault = "no" /\ acceptor.at = "event"
  /\ acceptor' = Goes(acceptor, "again")
  /\ UNCHANGED <<svrVars, accepting, sockVars, worker, closer, events, fault>>

(* The next accept is posted. *)
AcceptAgain ==
  /\ fault = "no" /\ acceptor.at = "again"
  /\ IF svrSock = "closed"
     THEN Dies /\ UNCHANGED <<accepting, acceptor>>
     ELSE accepting' = TRUE /\ acceptor' = Idle /\ UNCHANGED fault
  /\ UNCHANGED <<svrVars, sockVars, worker, closer, events>>

(* Deviation: the next accept is only posted while there is room. *)
AcceptAgain_Room ==
  /\ fault = "no" /\ acceptor.at = "again"
  /\ accepting' = (count < MaxClient)
  /\ acceptor' = Idle
  /\ UNCHANGED <<svrVars, sockVars, worker, closer, events, fault>>

Accept ==
  \/ AcceptBegin \/ AcceptFull \/ AcceptAdd \/ AcceptLoad \/ AcceptStore
  \/ AcceptReceive \/ AcceptEvent \/ AcceptAgain

-----------------------------------------------------------------------------
(* CloseSession(c), run by the thread t: the receive callback of a session *)
(* or the application.                                                     *)

Proc(t) == IF t = App THEN closer ELSE worker[t]
Moves(t, p) ==
  IF t = App THEN closer' = p /\ UNCHANGED worker
             ELSE worker' = [worker EXCEPT ![t] = p] /\ UNCHANGED closer

(* The session leaves the table. *)
CloseRemove(t, c) ==
  /\ Proc(t).at = "remove"
  /\ IF table = NoTable
     THEN Dies /\ UNCHANGED <<table, worker, closer>>
     ELSE table' = table \ {c} /\ Moves(t, Goes(Proc(t), "load")) /\ UNCHANGED fault
  /\ UNCHANGED <<count, sock, events>>

(* _clientCount--, of an unsigned counter. *)
Less(n) == (n + Wrap - 1) % Wrap

CloseLoad(t) ==
  /\ Proc(t).at = "load"
  /\ Moves(t, [Proc(t) EXCEPT !.at = "store", !.reg = count])
  /\ UNCHANGED <<table, count, sock, events, fault>>

CloseStore(t) ==
  /\ Proc(t).at = "store"
  /\ count' = Less(Proc(t).reg)
  /\ Moves(t, Goes(Proc(t), "event"))
  /\ UNCHANGED <<table, sock, events, fault>>

(* ClientClose is raised. *)
CloseEvent(t, c) ==
  /\ Proc(t).at = "event"
  /\ events' = [events EXCEPT ![c] = Append(@, "close")]
  /\ Moves(t, Goes(Proc(t), "close"))
  /\ UNCHANGED <<table, count, sock, fault>>

(* Session.Close.  On a socket that is closed already it throws, which     *)
(* only the try of ReceiveData catches.                                    *)
CloseSocket(t, c, caught) ==
  /\ Proc(t).at = "close"
  /\ IF sock[c] = "closed" /\ ~caught THEN Dies ELSE UNCHANGED fault
  /\ sock' = [sock EXCEPT ![c] = "closed"]
  /\ Moves(t, Idle)
  /\ UNCHANGED <<table, count, events>>

CloseSession(t, c, caught) ==
  \/ CloseRemove(t, c) \/ CloseLoad(t) \/ CloseStore(t)
  \/ CloseEvent(t, c)  \/ CloseSocket(t, c, caught)

-----------------------------------------------------------------------------
(* ReceiveData, of the session c.                                          *)

WorkerMoves(c, p) == worker' = [worker EXCEPT ![c] = p]

(* EndReceive: bytes, the end of the stream (recv == 0), a reset (10054),  *)
(* an error that is swallowed, or a socket that is closed already.         *)
ReceiveBegin(c) ==
  /\ MayBegin /\ recv[c] /\ worker[c] = Idle
  /\ recv' = [recv EXCEPT ![c] = FALSE]
  /\ WorkerMoves(c, IF sock[c] = "closed" \/ remote[c] = "failed" THEN Idle
                    ELSE [Idle EXCEPT !.at = IF remote[c] = "open" THEN "data" ELSE "find"])
  /\ UNCHANGED <<svrVars, accepting, acceptor, sock, remote, sends, closer, events, fault>>

(* The data event, and the next receive.  The application is told of every *)
(* piece; the bytes and the resolver are in the module Resolver.           *)
ReceiveAgain(c) ==
  /\ fault = "no" /\ worker[c].at = "data"
  /\ recv' = [recv EXCEPT ![c] = (sock[c] # "closed")]
  /\ WorkerMoves(c, Idle)
  /\ UNCHANGED <<svrVars, accepting, acceptor, sock, remote, sends, closer, events, fault>>

(* The handler of that event answers, and its Send throws: a reset is      *)
(* taken for the end of the connection, any other error is swallowed.      *)
ReceiveThrows(c) ==
  /\ fault = "no" /\ worker[c].at = "data"
  /\ sock[c] = "open" /\ remote[c] \in {"reset", "failed"} /\ MaxSend > 0
  /\ WorkerMoves(c, IF remote[c] = "reset" THEN Goes(worker[c], "find") ELSE Idle)
  /\ UNCHANGED <<svrVars, accepting, acceptor, sockVars, closer, events, fault>>

(* Deviation: no further receive is posted. *)
ReceiveAgain_Not(c) ==
  /\ fault = "no" /\ worker[c].at = "data"
  /\ WorkerMoves(c, Idle)
  /\ UNCHANGED <<svrVars, accepting, acceptor, sockVars, closer, events, fault>>

(* CloseClient looks the session up; it uses what it found before it tests *)
(* it for null.                                                            *)
CloseClient(c) ==
  /\ fault = "no" /\ worker[c].at = "find"
  /\ IF table # NoTable /\ c \in table
     THEN WorkerMoves(c, Goes(worker[c], "remove")) /\ UNCHANGED fault
     ELSE Dies /\ UNCHANGED worker
  /\ UNCHANGED <<svrVars, accepting, acceptor, sockVars, closer, events>>

WorkerCloses(c) ==
  /\ fault = "no"
  /\ CloseSession(c, c, remote[c] = "shut")
  /\ UNCHANGED <<isRun, svrSock, accepting, acceptor, remote, recv, sends>>

Receive(c) ==
  \/ ReceiveBegin(c) \/ ReceiveAgain(c) \/ ReceiveThrows(c)
  \/ CloseClient(c) \/ WorkerCloses(c)

-----------------------------------------------------------------------------
(* Sending.                                                                *)

(* Send, to a session of the table, from the application's thread or from  *)
(* the handler of an event.  If BeginSend throws, its caller gets it.      *)
Send(c) ==
  /\ fault = "no" /\ table # NoTable /\ c \in table
  /\ sock[c] = "open" /\ sends[c] < MaxSend
  /\ sends' = [sends EXCEPT ![c] = @ + 1]
  /\ UNCHANGED <<svrVars, accepting, acceptor, sock, remote, recv, worker, closer,
                 events, fault>>

(* SendDataEnd: EndSend throws on a socket that has been closed, and it    *)
(* may throw when the client's end has gone.  Nobody catches it.           *)
EndSendThrows(c) == sock[c] = "closed" \/ remote[c] # "open"

SendDataEnd(c) ==
  /\ MayBegin /\ sends[c] > 0
  /\ sends' = [sends EXCEPT ![c] = @ - 1]
  /\ \/ sock[c] # "closed" /\ UNCHANGED fault
     \/ EndSendThrows(c) /\ fault' = "send"
  /\ UNCHANGED <<svrVars, accepting, acceptor, sock, remote, recv, worker, closer,
                 events>>

-----------------------------------------------------------------------------
(* The application's thread.                                               *)

Told(c) == \E k \in DOMAIN events[c] : events[c][k] = "conn"
Ended(c) == \E k \in DOMAIN events[c] : events[c][k] = "close"

(* While the server runs, it closes a session that it has been told of and *)
(* has not seen close.                                                     *)
AppBegin(c) ==
  /\ Closing /\ MayBegin /\ closer = Idle /\ isRun /\ Told(c) /\ ~Ended(c)
  /\ closer' = [Idle EXCEPT !.at = "remove", !.who = c]
  /\ UNCHANGED <<svrVars, accepting, acceptor, sockVars, worker, events, fault>>

AppCloses(c) ==
  /\ fault = "no" /\ closer.who = c
  /\ CloseSession(App, c, FALSE)
  /\ UNCHANGED <<isRun, svrSock, accepting, acceptor, remote, recv, sends>>

(* Stop: _isRun is cleared, the sessions are closed, the count and the     *)
(* table are cleared, and the listening socket is closed.                  *)
StopBegin ==
  /\ Stopping /\ MayBegin /\ closer = Idle /\ isRun
  /\ isRun' = FALSE
  /\ closer' = [Idle EXCEPT !.at = "closeall", !.who = App]
  /\ UNCHANGED <<svrSock, table, count, accepting, acceptor, sockVars, worker,
                 events, fault>>

(* Deviation: the server does not say that it has stopped. *)
StopBegin_StillRunning ==
  /\ Stopping /\ MayBegin /\ closer = Idle /\ isRun
  /\ closer' = [Idle EXCEPT !.at = "closeall", !.who = App]
  /\ UNCHANGED <<svrVars, accepting, acceptor, sockVars, worker, events, fault>>

StopCloses ==
  /\ fault = "no" /\ closer.at = "closeall"
  /\ IF \E c \in table : sock[c] = "closed" THEN Dies ELSE UNCHANGED fault
  /\ sock' = [c \in Client |-> IF c \in table THEN "closed" ELSE sock[c]]
  /\ closer' = Goes(closer, "zero")
  /\ UNCHANGED <<svrVars, accepting, acceptor, remote, recv, sends, worker, events>>

StopZero ==
  /\ fault = "no" /\ closer.at = "zero"
  /\ count' = 0 /\ closer' = Goes(closer, "clear")
  /\ UNCHANGED <<isRun, svrSock, table, accepting, acceptor, sockVars, worker,
                 events, fault>>

StopClears ==
  /\ fault = "no" /\ closer.at = "clear"
  /\ table' = {} /\ closer' = Goes(closer, "server")
  /\ UNCHANGED <<isRun, svrSock, count, accepting, acceptor, sockVars, worker,
                 events, fault>>

StopEnds ==
  /\ fault = "no" /\ closer.at = "server"
  /\ svrSock' = "closed" /\ table' = NoTable /\ closer' = Idle
  /\ UNCHANGED <<isRun, count, accepting, acceptor, sockVars, worker, events, fault>>

Stop == StopBegin \/ StopCloses \/ StopZero \/ StopClears \/ StopEnds

-----------------------------------------------------------------------------
How == {"shut", "reset", "failed"}

Next ==
  \/ Start \/ Accept \/ Stop
  \/ \E c \in Client :
       \/ Connects(c) \/ Receive(c) \/ AppBegin(c) \/ AppCloses(c)
       \/ Send(c) \/ SendDataEnd(c)
  \/ \E c \in Client, how \in How : Ends(c, how)

Spec == Init /\ [][Next]_vars

(* The pool runs the callbacks that are due, and the application's calls   *)
(* go on.                                                                  *)
FairSpec ==
  /\ Spec
  /\ WF_vars(Accept)
  /\ \A c \in Client :
       WF_vars(Receive(c)) /\ WF_vars(SendDataEnd(c)) /\ WF_vars(AppCloses(c))

-----------------------------------------------------------------------------
Place == {"idle", "full", "add", "remove", "load", "store", "recv", "event", "again",
          "data", "find", "close", "closeall", "zero", "clear", "server"}
Thread == [at : Place, who : Client \cup {NoClient, App}, reg : 0..(Wrap - 1)]

(* The types of the variables. *)
TypeOK ==
  /\ isRun \in BOOLEAN /\ svrSock \in {"none", "open", "closed"}
  /\ table = NoTable \/ table \subseteq Client
  /\ count \in 0..(Wrap - 1) /\ accepting \in BOOLEAN
  /\ acceptor \in Thread /\ closer \in Thread /\ worker \in [Client -> Thread]
  /\ sock \in [Client -> {"none", "backlog", "open", "closed"}]
  /\ remote \in [Client -> {"open"} \cup How]
  /\ recv \in [Client -> BOOLEAN] /\ sends \in [Client -> 0..MaxSend]
  /\ fault \in {"no", "send", "other"}
  /\ events \in [Client -> Seq({"conn", "close", "full"})]

(* _clientCount is the number of sessions, whenever nobody is at work.     *)
CountIsTheTable == Quiet /\ table # NoTable => count = Cardinality(table)

(* No more clients than _maxClient have a session. *)
AtMostMaxClient == table # NoTable => Cardinality(table) <= MaxClient

(* A session in the table is heard: a receive is posted on its open socket,*)
(* or a thread is at work on it, or its connection failed with an error    *)
(* the receive callback swallows.                                          *)
SessionsAreHeard ==
  fault = "no" /\ table # NoTable =>
    \A c \in table :
      \/ recv[c] \/ worker[c] # Idle \/ remote[c] = "failed"
      \/ c \in {acceptor.who, closer.who} \/ closer.at \in {"zero", "clear"}

(* A socket that is open and that no thread is at work on has a session in *)
(* the table, unless the server was full when it came: that one is never   *)
(* closed.                                                                 *)
OrphansWereRefused ==
  \A c \in Client :
    sock[c] = "open" /\ fault = "no" =>
      \/ table # NoTable /\ c \in table
      \/ worker[c] # Idle \/ c \in {acceptor.who, closer.who}
      \/ \E k \in DOMAIN events[c] : events[c][k] = "full"

(* When calls and callbacks do not overlap, the application hears of a     *)
(* session before it hears of its end.                                     *)
ConnBeforeClose == \A c \in Client : Ended(c) => events[c][1] = "conn"

(* When calls and callbacks do not overlap, no call dies of an exception,  *)
(* and of the callbacks only that of a send, after its session has been    *)
(* closed, or the client's end has gone, before it ran.                    *)
CallbacksSurvive ==
  /\ fault # "other"
  /\ fault = "send" => \E c \in Client : EndSendThrows(c)

(* A client that waits is let in or told that the server is full, unless   *)
(* the callback of a send has died.                                        *)
BacklogServed ==
  \A c \in Client : sock[c] = "backlog" ~> sock[c] # "backlog" \/ fault = "send"

(* A session whose client has gone leaves the table, and its socket is     *)
(* closed, unless the callback of a send has died.                         *)
GoneIsClosed ==
  \A c \in Client :
    (remote[c] \in {"shut", "reset"} /\ table # NoTable /\ c \in table)
      ~> ((c \notin table /\ sock[c] = "closed") \/ fault = "send")
=============================================================================
