---------------------------- MODULE IocpService ----------------------------
(***************************************************************************)
(* The server side of the network library on Windows                       *)
(* (libnet/src/Win_IOCP_io_service.cpp): one I/O thread that accepts,      *)
(* takes completions from the completion port, runs the application's      *)
(* callbacks and posts the next overlapped operations.                     *)
(*                                                                         *)
(* The operating system is external: it owns the posted operations and the *)
(* queue of completions.  A completion carries the index of a slot (the    *)
(* completion key given at registration) and not the serial, so one that   *)
(* is taken from the queue after its connection was closed may meet the    *)
(* next connection in the same slot.  The constant ReuseRace says whether  *)
(* connection requests arrive that early.                                  *)
(***************************************************************************)
EXTENDS PeerManager, Sequences, SequencesExt

CONSTANTS
  MaxConn,       \* bound: connections made in a behaviour
  RecvRoom,      \* the room made for a receive, 512 in the code
  MaxIn,         \* bound: bytes the remote side sends on a connection
  MaxOut,        \* bound: bytes the application sends on a connection
  ReuseRace,     \* a slot may be reused before its old completions are gone
  HardErrors     \* the system may fail an operation with another error code

ASSUME ServiceAssumption ==
  /\ MaxConn \in Nat \ {0}
  /\ RecvRoom \in Nat \ {0}
  /\ MaxIn \in Nat
  /\ MaxOut \in Nat
  /\ ReuseRace \in BOOLEAN /\ HardErrors \in BOOLEAN

VARIABLES
  net,           \* socket -> its state at the operating system
  key,           \* socket -> the slot given as its completion key
  recvs, sends,  \* socket -> lengths of the overlapped operations pending
  rest,          \* socket -> bytes the remote side may still send
  cq,            \* the queue of completions
  pc,            \* where the I/O thread is in its loop
  down,          \* the exception that ended the process
  players,       \* the application's table, kept by onCon and onDisCon
  accepted,      \* socket -> bytes send() has taken
  wired,         \* socket -> bytes the system reported as sent
  eaten,         \* socket -> bytes the application has consumed
  leaked         \* I/O contexts no completion will ever give back

netVars == <<net, key, recvs, sends, rest>>
appVars == <<players, accepted, eaten>>
vars == <<peerVars, netVars, cq, pc, down, appVars, wired, leaked>>

Conn == 1..MaxConn
NetState == {"none", "up", "fin", "rst", "closed"}
Io == {"read", "write"}            \* ClientIoRead, ClientIoWrite
Outcome == {"ok", "netname", "other"}  \* success, ERROR_NETNAME_DELETED, else
Exception == {"no", "full", "read_move", "write_move", "error"}

(* The sock of a completion is known to the system, not to the program. *)
Completion == [key : Slot, sock : Conn, io : Io, bytes : Nat, res : Outcome]

Init ==
  /\ PeerInit
  /\ net = [c \in Conn |-> "none"]
  /\ key = [c \in Conn |-> 0]
  /\ recvs = [c \in Conn |-> <<>>]
  /\ sends = [c \in Conn |-> <<>>]
  /\ rest = [c \in Conn |-> MaxIn]
  /\ cq = <<>>
  /\ pc = "accept"
  /\ down = "no"
  /\ players = {}
  /\ accepted = [c \in Conn |-> 0]
  /\ wired = [c \in Conn |-> 0]
  /\ eaten = [c \in Conn |-> 0]
  /\ leaked = 0

-----------------------------------------------------------------------------
(* The operating system.                                                   *)

Completed(c, io, n, res) ==
  Append(cq, [key |-> key[c], sock |-> c, io |-> io, bytes |-> n, res |-> res])

(* Bytes of the remote side fill the oldest pending receive. *)
KernelReceives(c, n) ==
  /\ down = "no"
  /\ net[c] = "up"
  /\ recvs[c] # <<>>
  /\ n <= Head(recvs[c]) /\ n <= rest[c]
  /\ recvs' = [recvs EXCEPT ![c] = Tail(@)]
  /\ rest' = [rest EXCEPT ![c] = @ - n]
  /\ cq' = Completed(c, "read", n, "ok")
  /\ UNCHANGED <<peerVars, net, key, sends, pc, down, appVars, wired, leaked>>

(* The remote side closes its half, or resets the connection. *)
RemoteCloses(c) ==
  /\ down = "no"
  /\ net[c] = "up"
  /\ net' = [net EXCEPT ![c] = "fin"]
  /\ UNCHANGED <<peerVars, key, recvs, sends, rest, cq, pc, down, appVars,
                 wired, leaked>>

RemoteResets(c) ==
  /\ down = "no"
  /\ net[c] \in {"up", "fin"}
  /\ net' = [net EXCEPT ![c] = "rst"]
  /\ UNCHANGED <<peerVars, key, recvs, sends, rest, cq, pc, down, appVars,
                 wired, leaked>>

(* A receive on a connection the remote side has closed returns no bytes. *)
KernelEndOfStream(c) ==
  /\ down = "no"
  /\ net[c] = "fin"
  /\ recvs[c] # <<>>
  /\ recvs' = [recvs EXCEPT ![c] = Tail(@)]
  /\ cq' = Completed(c, "read", 0, "ok")
  /\ UNCHANGED <<peerVars, net, key, sends, rest, pc, down, appVars, wired,
                 leaked>>

(* The oldest pending send completes, perhaps only with a part of it. *)
KernelSends(c, n) ==
  /\ down = "no"
  /\ net[c] \in {"up", "fin"}
  /\ sends[c] # <<>>
  /\ n <= Head(sends[c])
  /\ sends' = [sends EXCEPT ![c] = Tail(@)]
  /\ wired' = [wired EXCEPT ![c] = @ + n]
  /\ cq' = Completed(c, "write", n, "ok")
  /\ UNCHANGED <<peerVars, net, key, recvs, rest, pc, down, appVars, leaked>>

(* The operations pending on a reset or closed socket are cancelled. *)
Failure == {"netname"} \cup (IF HardErrors THEN {"other"} ELSE {})

KernelCancelsRecv(c, res) ==
  /\ down = "no"
  /\ net[c] \in {"rst", "closed"}
  /\ recvs[c] # <<>>
  /\ recvs' = [recvs EXCEPT ![c] = Tail(@)]
  /\ cq' = Completed(c, "read", 0, res)
  /\ UNCHANGED <<peerVars, net, key, sends, rest, pc, down, appVars, wired,
                 leaked>>

KernelCancelsSend(c, res) ==
  /\ down = "no"
  /\ net[c] \in {"rst", "closed"}
  /\ sends[c] # <<>>
  /\ sends' = [sends EXCEPT ![c] = Tail(@)]
  /\ cq' = Completed(c, "write", 0, res)
  /\ UNCHANGED <<peerVars, net, key, recvs, rest, pc, down, appVars, wired,
                 leaked>>

Kernel(c) ==
  \/ \E n \in 1..MaxIn : KernelReceives(c, n)
  \/ KernelEndOfStream(c)
  \/ \E n \in 1..MaxOut : KernelSends(c, n)
  \/ \E res \in Failure : KernelCancelsRecv(c, res) \/ KernelCancelsSend(c, res)

-----------------------------------------------------------------------------
(* What the functions of the service do to the state; each is part of an   *)
(* action of the I/O thread below.                                         *)

(* closePeer(i, serial[i]) of a slot in use: onDisCon runs first, then the *)
(* socket is closed and the slot marked free.                              *)
ClosePeer(i) ==
  /\ players' = {p \in players : p[2] # serial[i]}
  /\ net' = [net EXCEPT ![socket[i]] = "closed"]
  /\ DeletePeer(i)

StaysOpen == UNCHANGED <<players, net, socket>>

(* A message of the application: a handle it was given in onCon and that   *)
(* may be out of date by now, and a length; or no message.                 *)
Handle == {<<key[c], c - 1>> : c \in {d \in Conn : net[d] # "none"}}
Message == {[on |-> TRUE, to |-> h, len |-> n] : h \in Handle, n \in 1..MaxOut}
NoMessage == [on |-> FALSE]
Room(m) == m.on => accepted[m.to[2] + 1] + m.len <= MaxOut
Outbox == {m \in Message \cup {NoMessage} : Room(m)}

(* If nothing is being sent to the slot, send() posts a completion of its  *)
(* own so that the I/O thread starts.  Deviations: never, always.          *)
Signal(i, queue) ==
  Append(queue, [key |-> i, sock |-> socket[i], io |-> "write",
                 bytes |-> 0, res |-> "ok"])
Notify_Never(i, queue) == queue
Notify_Always(i, queue) == Signal(i, queue)
Notify(i, queue) == IF wsa_send[i] THEN queue ELSE Signal(i, queue)

(* send(): append behind the data in flight.  queue is the completion      *)
(* queue before the call.                                                  *)
SendMessage(m, queue) ==
  LET i == m.to[1]
  IN  IF m.on /\ Valid(i, m.to[2])
      THEN /\ write_buf_backup' = [write_buf_backup EXCEPT ![i] = ApendBuf(@, m.len)]
           /\ wsa_send' = [wsa_send EXCEPT ![i] = TRUE]
           /\ cq' = Notify(i, queue)
           /\ accepted' = [accepted EXCEPT ![socket[i]] = @ + m.len]
      ELSE /\ cq' = queue
           /\ UNCHANGED <<write_buf_backup, wsa_send, accepted>>

-----------------------------------------------------------------------------
(* The I/O thread: main() alternates eventLoop() and a frame of the game;  *)
(* eventLoop() alternates onAcceptTick() and onEventTick().                *)

(* No completion of an earlier user of the slot is still to come. *)
Quiet(i) ==
  /\ \A k \in 1..Len(cq) : cq[k].key # i
  /\ \A c \in Conn : key[c] = i => recvs[c] = <<>> /\ sends[c] = <<>>

NextConn(c) == net[c] = "none" /\ \A d \in Conn : d < c => net[d] # "none"

(* WSARecv and WSASend of a buffer, accepted.  Deviations: not called;     *)
(* called twice.                                                           *)
PostRecv_Never(c, buf) == recvs
PostRecv_Twice(c, buf) == [recvs EXCEPT ![c] = @ \o <<WritableBytes(buf), WritableBytes(buf)>>]
PostRecv(c, buf) == [recvs EXCEPT ![c] = Append(@, WritableBytes(buf))]

PostSend_Never(c, buf) == sends
PostSend(c, buf) == [sends EXCEPT ![c] = Append(@, ReadableBytes(buf))]

(* The context of the completion is freed; that of a failed post is not.   *)
(* Deviation: neither is.                                                  *)
Contexts_Kept(failed) == leaked + 1
Contexts(failed) == IF failed THEN leaked + 1 ELSE leaked

(* The backup after its bytes were moved on.  Deviation: they stay.        *)
Emptied_Not(b) == b
Emptied(b) == ReadMove(b, ReadableBytes(b))

(* registerSocket(): a slot, the application's onCon, the first receive.   *)
(* When WSARecv fails at once the peer is closed again and the context is  *)
(* lost, as no completion follows.                                         *)
RegisterSocket(c, i) ==
  /\ NextConn(c)
  /\ ReuseRace \/ Quiet(i)
  /\ NewPeer(i)
  /\ key' = [key EXCEPT ![c] = i]
  /\ LET buf == EnsureWritableBytes(Reset(read_buf[i]), RecvRoom)
     IN  /\ read_buf' = [read_buf EXCEPT ![i] = buf]
         /\ \/ /\ socket' = [socket EXCEPT ![i] = c]
               /\ players' = players \cup {<<i, m_serial>>}
               /\ net' = [net EXCEPT ![c] = "up"]
               /\ recvs' = PostRecv(c, buf)
               /\ UNCHANGED leaked
            \/ /\ net' = [net EXCEPT ![c] = "closed"]
               /\ leaked' = leaked + 1
               /\ UNCHANGED <<socket, players, recvs>>
  /\ UNCHANGED <<sends, rest, cq, down, accepted, eaten, wired>>

(* newPeer() returns -1 when no slot is free and getPeer() throws. *)
RegisterOverflow(c) ==
  /\ NextConn(c)
  /\ Full
  /\ down' = "full"
  /\ UNCHANGED <<peerVars, netVars, cq, appVars, wired, leaked>>

Register == \E c \in Conn : RegisterOverflow(c) \/ \E i \in Slot : RegisterSocket(c, i)

NoRequest == UNCHANGED <<peerVars, netVars, cq, down, appVars, wired, leaked>>

OnAcceptTick ==
  /\ down = "no" /\ pc = "accept"
  /\ pc' = "event"
  /\ Register \/ NoRequest

(* The part of onEventTick() common to all completions: the loop goes on,  *)
(* or ends because it has run its count of rounds.                         *)
Dequeue(io, res) ==
  /\ down = "no" /\ pc = "event"
  /\ cq # <<>>
  /\ Head(cq).io \in io /\ Head(cq).res = res
  /\ pc' \in {"accept", "frame"}

(* GetQueuedCompletionStatus times out when there is nothing. *)
EventTimeout ==
  /\ down = "no" /\ pc = "event"
  /\ cq = <<>>
  /\ pc' = "frame"
  /\ UNCHANGED <<peerVars, netVars, cq, down, appVars, wired, leaked>>

(* ERROR_NETNAME_DELETED closes whatever connection is in the slot now. *)
EventNetnameDeleted ==
  /\ Dequeue(Io, "netname")
  /\ LET i == Head(cq).key IN IF InUse(i) THEN ClosePeer(i) ELSE StaysOpen
  /\ cq' = Tail(cq)
  /\ UNCHANGED <<serial, bufVars, m_serial, key, recvs, sends, rest, down,
                 accepted, eaten, wired, leaked>>

(* Any other error code: THROWNEXCEPT("shoud not be here."). *)
EventOtherError ==
  /\ Dequeue(Io, "other")
  /\ down' = "error"
  /\ UNCHANGED <<peerVars, netVars, cq, appVars, wired, leaked>>

(* A success for a slot that is free: returns before the context is freed. *)
EventSlotFree ==
  /\ Dequeue(Io, "ok")
  /\ ~InUse(Head(cq).key)
  /\ cq' = Tail(cq)
  /\ leaked' = leaked + 1
  /\ UNCHANGED <<peerVars, netVars, down, appVars, wired>>

(* A receive of no bytes: the remote side has shut down. *)
EventShutdown ==
  /\ Dequeue({"read"}, "ok")
  /\ LET e == Head(cq) IN InUse(e.key) /\ e.bytes = 0 /\ ClosePeer(e.key)
  /\ cq' = Tail(cq)
  /\ UNCHANGED <<serial, bufVars, m_serial, key, recvs, sends, rest, down,
                 accepted, eaten, wired, leaked>>

(* processRead(): the bytes are in the buffer; the application consumes    *)
(* take of them, may send m, and answers whether to keep the connection;   *)
(* then the next receive is posted, which may fail.                        *)
ProcessRead(i, n, take, m, keep, posted) ==
  LET c    == socket[i]
      full == WriteMove(read_buf[i], n)
      left == ReadMove(full, take)
      room == EnsureWritableBytes(left, RecvRoom)
  IN  /\ eaten' = [eaten EXCEPT ![c] = @ + take]
      /\ SendMessage(m, Tail(cq))
      /\ read_buf' = [read_buf EXCEPT ![i] = IF keep THEN room ELSE left]
      /\ recvs' = IF keep /\ posted THEN PostRecv(c, room) ELSE recvs
      /\ IF keep /\ posted THEN StaysOpen ELSE ClosePeer(i)
      /\ leaked' = Contexts(keep /\ ~posted)
      /\ UNCHANGED <<serial, write_buf, m_serial, key, sends, rest, down, wired>>

EventRead ==
  /\ Dequeue({"read"}, "ok")
  /\ LET e == Head(cq)
     IN  /\ InUse(e.key) /\ e.bytes > 0
         /\ IF WriteMoveThrows(read_buf[e.key], e.bytes)
            THEN /\ down' = "write_move"
                 /\ UNCHANGED <<peerVars, netVars, cq, appVars, wired, leaked>>
            ELSE \E take \in 0..(ReadableBytes(read_buf[e.key]) + e.bytes),
                    m \in Outbox, keep \in BOOLEAN, posted \in BOOLEAN :
                   ProcessRead(e.key, e.bytes, take, m, keep, posted)

(* processWrite(): the bytes sent leave the buffer, those waiting behind   *)
(* move into it, and if there are any the next send is posted, which may   *)
(* fail.                                                                   *)
ProcessWrite(i, n, posted) ==
  LET c       == socket[i]
      kept    == ReadMove(write_buf[i], n)
      waiting == ReadableBytes(write_buf_backup[i])
      now     == IF waiting > 0 THEN ApendBuf(kept, waiting) ELSE kept
      more    == ReadableBytes(now) > 0
  IN  /\ write_buf' = [write_buf EXCEPT ![i] = now]
      /\ write_buf_backup' = [write_buf_backup EXCEPT ![i] = Emptied(@)]
      /\ wsa_send' = [wsa_send EXCEPT ![i] = more]
      /\ sends' = IF more /\ posted THEN PostSend(c, now) ELSE sends
      /\ IF more /\ ~posted THEN ClosePeer(i) ELSE StaysOpen
      /\ leaked' = Contexts(more /\ ~posted)
      /\ cq' = Tail(cq)
      /\ UNCHANGED <<serial, read_buf, m_serial, key, recvs, rest, down,
                     accepted, eaten, wired>>

EventWrite ==
  /\ Dequeue({"write"}, "ok")
  /\ LET e == Head(cq)
     IN  /\ InUse(e.key)
         /\ IF ReadMoveThrows(write_buf[e.key], e.bytes)
            THEN /\ down' = "read_move"
                 /\ UNCHANGED <<peerVars, netVars, cq, appVars, wired, leaked>>
            ELSE \E posted \in BOOLEAN : ProcessWrite(e.key, e.bytes, posted)

OnEventTick ==
  \/ EventTimeout \/ EventNetnameDeleted \/ EventOtherError \/ EventSlotFree
  \/ EventShutdown \/ EventRead \/ EventWrite

(* Between two runs of eventLoop() the application may send, close a peer  *)
(* or, as a client, connect.                                               *)
Frame ==
  /\ down = "no" /\ pc = "frame"
  /\ pc' = "accept"

FrameSend ==
  /\ Frame
  /\ \E m \in Outbox : SendMessage(m, cq)
  /\ UNCHANGED <<socket, serial, read_buf, write_buf, m_serial, netVars, down,
                 players, eaten, wired, leaked>>

FrameClose ==
  /\ Frame
  /\ \E h \in Handle : Valid(h[1], h[2]) /\ ClosePeer(h[1])
  /\ UNCHANGED <<serial, bufVars, m_serial, key, recvs, sends, rest, cq, down,
                 accepted, eaten, wired, leaked>>

ConnectPeer == Frame /\ Register

IoThread == OnAcceptTick \/ OnEventTick \/ FrameSend \/ FrameClose \/ ConnectPeer

(* The process has ended. *)
Ended == down # "no" /\ UNCHANGED vars

Next ==
  \/ IoThread
  \/ \E c \in Conn : Kernel(c) \/ RemoteCloses(c) \/ RemoteResets(c)
  \/ Ended

Spec == Init /\ [][Next]_vars

-----------------------------------------------------------------------------
(* The types of the variables. *)
TypeOK ==
  /\ PeerTypeOK
  /\ net \in [Conn -> NetState]
  /\ key \in [Conn -> Slot]
  /\ recvs \in [Conn -> Seq(Nat)]
  /\ sends \in [Conn -> Seq(Nat)]
  /\ rest \in [Conn -> Nat]
  /\ cq \in Seq(Completion)
  /\ pc \in {"accept", "event", "frame"}
  /\ down \in Exception
  /\ players \subseteq (Slot \X Nat)
  /\ accepted \in [Conn -> Nat]
  /\ wired \in [Conn -> Nat]
  /\ eaten \in [Conn -> Nat]
  /\ leaked \in Nat

(* The application's table holds exactly the connections in the slots,     *)
(* under the handles that reach them: each connect notice is followed by   *)
(* at most one disconnect notice, and by one as soon as the slot is free.  *)
PlayersAreThePeers ==
  players = {<<i, serial[i]>> : i \in {j \in Slot : InUse(j)}}

(* A handle the application was given in onCon reaches its own connection  *)
(* or nobody, also when the slot has had other users since.                *)
HandlesReachOne ==
  \A c \in Conn : net[c] # "none" /\ Valid(key[c], c - 1) => socket[key[c]] = c

(* A completion that will make the I/O thread look at the write buffers of *)
(* the slot i is in the queue or will come from the system.                *)
WriteOutstanding(i) ==
  \/ sends[socket[i]] # <<>>
  \/ \E k \in 1..Len(cq) : cq[k].key = i /\ cq[k].io = "write"

(* Bytes that send() accepted never lie in a buffer with nothing under way *)
(* to send them.  send() posts only when wsa_send is false, processWrite() *)
(* only when there is something to send.                                   *)
NoStrandedBytes ==
  \A i \in Slot :
    InUse(i) /\ (ReadableBytes(write_buf[i]) > 0 \/ ReadableBytes(write_buf_backup[i]) > 0)
      => WriteOutstanding(i)

-----------------------------------------------------------------------------
(* What holds when no completion of a closed connection meets the next     *)
(* user of its slot (ReuseRace = FALSE).                                   *)

(* The places in the queue of the completions that belong to the socket c, *)
(* and the bytes they report.                                              *)
Queued(c, io) == {k \in 1..Len(cq) : cq[k].sock = c /\ cq[k].io = io}
Bytes(places) == MapThenSumSet(LAMBDA k : cq[k].bytes, places)

(* "A socket has only one send posted, and only one receive"               *)
(* (peer_manager.h): a connection always has exactly one receive under     *)
(* way, and a send, or the notice that one is wanted, exactly while        *)
(* wsa_send is set.                                                        *)
OneRecvOneSend ==
  \A i \in Slot : InUse(i) =>
    LET c == socket[i]
    IN  /\ Len(recvs[c]) + Cardinality(Queued(c, "read")) = 1
        /\ Len(sends[c]) + Cardinality(Queued(c, "write")) = IF wsa_send[i] THEN 1 ELSE 0

(* Every byte accepted from the application has been sent, is in flight,   *)
(* or is in one of the two buffers; every byte received has been consumed  *)
(* or is in the read buffer: none is lost and none counted twice, and no   *)
(* completion reports more bytes than the buffer it was posted for had, so *)
(* that no buffer throws.                                                  *)
BytesConserved ==
  /\ down \notin {"read_move", "write_move"}
  /\ \A i \in Slot : InUse(i) =>
       LET c == socket[i]
       IN  /\ accepted[c] + Bytes(Queued(c, "write")) =
                wired[c] + ReadableBytes(write_buf[i]) + ReadableBytes(write_buf_backup[i])
           /\ eaten[c] + ReadableBytes(read_buf[i]) + Bytes(Queued(c, "read")) =
                MaxIn - rest[c]

(* While the system holds a pointer into a buffer ("it locks the memory,   *)
(* the content must not be changed", peer_manager.h) no step moves, grows  *)
(* or consumes that buffer.                                                *)
PostedMemoryFixed ==
  [][\A i \in Slot :
       InUse(i) /\ socket'[i] = socket[i] =>
         /\ sends[socket[i]] # <<>> /\ sends'[socket[i]] # <<>>
              => write_buf'[i] = write_buf[i]
         /\ recvs[socket[i]] # <<>> /\ recvs'[socket[i]] # <<>>
              => read_buf'[i] = read_buf[i]]_vars

(* An I/O context whose completion is dropped, or never comes because the  *)
(* post failed, is lost; a connection loses at most one for each direction. *)
LeakBounded == leaked <= 2 * Cardinality({c \in Conn : net[c] = "closed"})

-----------------------------------------------------------------------------
(* The I/O thread keeps turning; the system completes or cancels what is   *)
(* pending as long as the remote side takes its data.                      *)
Fairness ==
  /\ WF_vars(IoThread)
  /\ \A c \in Conn :
       /\ WF_vars(\E n \in 1..MaxOut : KernelSends(c, n))
       /\ WF_vars(KernelEndOfStream(c))
       /\ WF_vars(\E res \in Failure : KernelCancelsRecv(c, res))

FairSpec == Spec /\ Fairness

(* What send() has taken gets sent, unless the connection ends. *)
SentOrClosed ==
  \A c \in Conn :
    (accepted[c] > wired[c]) ~>
      (wired[c] >= accepted[c] \/ net[c] = "closed" \/ down # "no")

(* When the remote side closes or resets the connection the application    *)
(* is told: there is always a receive posted that will fail.               *)
RemoteEndNoticed ==
  \A c \in Conn :
    (net[c] \in {"fin", "rst"}) ~> (net[c] = "closed" \/ down # "no")

-----------------------------------------------------------------------------
(* Promises in the comments that the code does not keep.                   *)

(* "Array plus serial guarantees uniqueness" (Win_IOCP_io_service.h): a    *)
(* completion of a connection that is gone never ends its successor.       *)
StaleNeverCloses ==
  [][cq # <<>> /\ Head(cq).res = "netname" /\ cq' = Tail(cq)
       /\ InUse(Head(cq).key) /\ socket[Head(cq).key] # Head(cq).sock
     => socket' = socket]_vars
=============================================================================
