--------------------------- MODULE SelectService ---------------------------
(***************************************************************************)
(* The other network service of the server (libnet/src/Select_IOService):  *)
(* one thread that asks select() which sockets are ready, accepts, and     *)
(* walks through its list of connections, reading and writing.  The        *)
(* application's callbacks run inside of that walk and may send to and     *)
(* close any connection, so that the list changes under the loop.          *)
(*                                                                         *)
(* The sockets are external.  The application reads a part of what has     *)
(* come, sends single bytes, closes whom it likes and returns what it      *)
(* likes; the remote side reads, so that a socket can always be written.   *)
(***************************************************************************)
EXTENDS PeerManager, Sequences, SequencesExt

CONSTANTS
  MaxConn,       \* bound: connections made in a behaviour
  RecvRoom,      \* the room made for a receive, 512 in the code
  MaxIn,         \* bound: bytes the remote side sends on a connection
  MaxOut,        \* bound: bytes the application sends on a connection
  FdSetSize      \* FD_SETSIZE: how many sockets a set can hold, 64

SelectAssumption ==
  /\ {MaxConn, RecvRoom, FdSetSize} \subseteq Nat \ {0}
  /\ {MaxIn, MaxOut} \subseteq Nat

VARIABLES
  net,                  \* socket -> its state
  inbox,                \* socket -> bytes that can be received
  rest,                 \* socket -> bytes the remote side may still send
  m_online_peers,       \* the slots in use, in the order of registration
  m_read_set,           \* what select() has left in the two sets
  m_write_set,
  pc,                   \* where the thread is
  pos, current,         \* the loop: its place in the list, and its slot
  down,                 \* an exception has ended the process
  players,              \* the application's table: slot, serial, socket
  accepted,             \* socket -> bytes send() has taken
  wired,                \* socket -> bytes the system has taken
  eaten                 \* socket -> bytes the application has consumed

netVars  == <<net, inbox, rest>>
setVars  == <<m_read_set, m_write_set>>
loopVars == <<pc, pos, current>>
appVars  == <<players, accepted, wired, eaten>>
vars == <<peerVars, netVars, m_online_peers, setVars, loopVars, down, appVars>>

Conn == 1..MaxConn
ListenSd == MaxConn + 1          \* m_listen_sd
Sets == SUBSET (Conn \cup {ListenSd})

Init ==
  /\ PeerInit
  /\ net = [c \in Conn |-> "none"]
  /\ inbox = [c \in Conn |-> 0]
  /\ rest = [c \in Conn |-> MaxIn]
  /\ m_online_peers = <<>>
  /\ m_read_set = {} /\ m_write_set = {}
  /\ pc = "tick" /\ pos = 0 /\ current = 0
  /\ down = FALSE
  /\ players = {}
  /\ accepted = [c \in Conn |-> 0]
  /\ wired = [c \in Conn |-> 0]
  /\ eaten = [c \in Conn |-> 0]

-----------------------------------------------------------------------------
(* The remote side of a connection.  The connections come in their order.  *)

Connects(c) ==
  /\ net[c] = "none" /\ (c > 1 => net[c - 1] # "none")
  /\ net' = [net EXCEPT ![c] = "waiting"]
  /\ UNCHANGED <<inbox, rest>>

(* It may be gone before it is accepted. *)
GivesUp(c) ==
  /\ net[c] = "waiting"
  /\ net' = [net EXCEPT ![c] = "closed"]
  /\ UNCHANGED <<inbox, rest>>

RemoteSends(c) ==
  /\ net[c] \in {"waiting", "up"} /\ rest[c] > 0
  /\ inbox' = [inbox EXCEPT ![c] = @ + 1]
  /\ rest' = [rest EXCEPT ![c] = @ - 1]
  /\ UNCHANGED net

RemoteEnds(c) ==
  /\ \/ net[c] = "up" /\ net' = [net EXCEPT ![c] = "fin"]
     \/ net[c] \in {"up", "fin"} /\ net' = [net EXCEPT ![c] = "rst"]
  /\ UNCHANGED <<inbox, rest>>

Remote(c) ==
  /\ ~down
  /\ Connects(c) \/ GivesUp(c) \/ RemoteSends(c) \/ RemoteEnds(c)
  /\ UNCHANGED <<peerVars, m_online_peers, setVars, loopVars, down, appVars>>

-----------------------------------------------------------------------------
(* onEventTick: initSets and select.                                       *)

Waiting == {c \in Conn : net[c] = "waiting"}
HasData(i) == ReadableBytes(write_buf[i]) > 0
FirstOf(s, n) == ToSet(SubSeq(s, 1, IF Len(s) < n THEN Len(s) ELSE n))
SocketsOf(slots) == {socket[i] : i \in slots}

(* Deviation: the sockets with something to write are not put in a set. *)
WriteSockets_None == {}

(* FD_SET drops what does not fit; the listening socket comes first. *)
ReadSockets == SocketsOf(FirstOf(m_online_peers, FdSetSize - 1))
WriteSockets ==
  LET writes == {k \in DOMAIN m_online_peers : HasData(m_online_peers[k])} IN
  SocketsOf({m_online_peers[k] :
               k \in {j \in writes : Cardinality(writes \cap (1..j)) <= FdSetSize}})

Ready ==
  {c \in ReadSockets : inbox[c] > 0 \/ net[c] \in {"fin", "rst"}}
    \cup (IF Waiting = {} THEN {} ELSE {ListenSd})

(* With nothing ready select() times out, and the next tick begins. *)
Select ==
  /\ pc = "tick"
  /\ m_read_set' = Ready /\ m_write_set' = WriteSockets
  /\ pc' = IF Ready \cup WriteSockets = {} THEN "tick" ELSE "accept"
  /\ UNCHANGED <<peerVars, netVars, m_online_peers, pos, current, down, appVars>>

TickEnds ==
  /\ pc' = "tick" /\ pos' = 0 /\ current' = 0
  /\ m_read_set' = {} /\ m_write_set' = {}

(* AcceptSocket finds nobody, or it is not asked. *)
AcceptNobody ==
  /\ pc = "accept" /\ (ListenSd \notin m_read_set \/ Waiting = {})
  /\ pc' = "peer" /\ pos' = 1
  /\ UNCHANGED <<peerVars, netVars, m_online_peers, setVars, current, down, appVars>>

Oldest(c) == c \in Waiting /\ \A d \in Waiting : c <= d

(* registerSocket without a free slot: newPeer returns -1 and getPeer      *)
(* throws.                                                                 *)
AcceptFull ==
  /\ pc = "accept" /\ ListenSd \in m_read_set /\ Waiting # {} /\ Full
  /\ down' = TRUE
  /\ UNCHANGED <<peerVars, netVars, m_online_peers, setVars, loopVars, appVars>>

(* registerSocket, up to onCon. *)
AcceptPeer(c, i) ==
  /\ pc = "accept" /\ ListenSd \in m_read_set /\ Oldest(c)
  /\ NewPeer(i)
  /\ read_buf' = [read_buf EXCEPT ![i] = Reset(@)]
  /\ socket' = [socket EXCEPT ![i] = c]
  /\ net' = [net EXCEPT ![c] = "up"]
  /\ m_online_peers' = Append(m_online_peers, i)
  /\ players' = players \cup {<<i, m_serial, c>>}
  /\ pc' = "onCon"
  /\ UNCHANGED <<inbox, rest, setVars, pos, current, down, accepted, wired, eaten>>

OnConReturns ==
  /\ pc = "onCon" /\ pc' = "peer" /\ pos' = 1
  /\ UNCHANGED <<peerVars, netVars, m_online_peers, setVars, current, down, appVars>>

-----------------------------------------------------------------------------
(* closePeer for a handle that is valid.  It calls onDisCon first.         *)

Forgotten(i) == {h \in players : h[1] # i}

(* Deviation: the slot stays in the list. *)
Unlisted_Not(i) == m_online_peers

(* std::find, and erase where it has found the slot. *)
Unlisted(i) ==
  LET found == {k \in DOMAIN m_online_peers : m_online_peers[k] = i} IN
  IF found = {} THEN m_online_peers ELSE RemoveAt(m_online_peers, Min(found))

Closes(i) ==
  /\ m_online_peers' = Unlisted(i)
  /\ net' = [net EXCEPT ![socket[i]] = "closed"]
  /\ DeletePeer(i)
  /\ UNCHANGED <<serial, bufVars, m_serial, inbox, rest>>

(* The service closes: the callback, and what follows it.  The loop ends.  *)
Leaves(i) == pc' = "onDisCon" /\ players' = Forgotten(i)

OnDisConReturns ==
  /\ pc = "onDisCon"
  /\ Closes(current) /\ TickEnds
  /\ UNCHANGED <<down, appVars>>

-----------------------------------------------------------------------------
(* The loop over m_online_peers.                                           *)

LoopEnds ==
  /\ pc = "peer" /\ pos > Len(m_online_peers)
  /\ TickEnds
  /\ UNCHANGED <<peerVars, netVars, m_online_peers, down, appVars>>

AtPeer(i) == pc = "peer" /\ pos <= Len(m_online_peers) /\ i = m_online_peers[pos]

NotReadable(i) ==
  /\ AtPeer(i) /\ socket[i] \notin m_read_set
  /\ pc' = "write" /\ current' = i
  /\ UNCHANGED <<peerVars, netVars, m_online_peers, setVars, pos, down, appVars>>

Roomy(i) == EnsureWritableBytes(read_buf[i], RecvRoom)

(* recv() reports the end or an error. *)
RecvEnds(i) ==
  LET c == socket[i] IN
  /\ AtPeer(i) /\ c \in m_read_set
  /\ net[c] = "rst" \/ (net[c] = "fin" /\ inbox[c] = 0)
  /\ read_buf' = [read_buf EXCEPT ![i] = Roomy(i)]
  /\ current' = i /\ Leaves(i)
  /\ UNCHANGED <<socket, serial, write_buf, write_buf_backup, wsa_send, m_serial,
                 netVars, m_online_peers, setVars, pos, down, accepted, wired, eaten>>

(* recv() takes what there is and fits. *)
RecvData(i) ==
  LET c == socket[i]
      n == IF inbox[c] < WritableBytes(Roomy(i)) THEN inbox[c] ELSE WritableBytes(Roomy(i))
  IN
  /\ AtPeer(i) /\ c \in m_read_set
  /\ net[c] \in {"up", "fin"} /\ inbox[c] > 0
  /\ read_buf' = [read_buf EXCEPT ![i] = WriteMove(Roomy(i), n)]
  /\ inbox' = [inbox EXCEPT ![c] = @ - n]
  /\ current' = i /\ pc' = "onRead"
  /\ UNCHANGED <<socket, serial, write_buf, write_buf_backup, wsa_send, m_serial,
                 net, rest, m_online_peers, setVars, pos, down, appVars>>

OnReadReturns ==
  /\ pc = "onRead" /\ pc' = "write"
  /\ UNCHANGED <<peerVars, netVars, m_online_peers, setVars, pos, current, down, appVars>>

(* It returns a negative number: closePeer, which does nothing when the    *)
(* application has closed the connection itself, and the end of the loop.  *)
OnReadRefuses ==
  /\ pc = "onRead"
  /\ IF InUse(current)
     THEN Leaves(current) /\ UNCHANGED <<setVars, pos, current>>
     ELSE TickEnds /\ UNCHANGED players
  /\ UNCHANGED <<peerVars, netVars, m_online_peers, down, accepted, wired, eaten>>

(* The slot may have been closed by the callback; its socket is not in the *)
(* set any more.                                                           *)
WritesNow == socket[current] \in m_write_set /\ HasData(current)

NotWritable ==
  /\ pc = "write" /\ ~WritesNow
  /\ pc' = "peer" /\ pos' = pos + 1
  /\ UNCHANGED <<peerVars, netVars, m_online_peers, setVars, current, down, appVars>>

SendFails ==
  /\ pc = "write" /\ WritesNow /\ net[socket[current]] = "rst"
  /\ Leaves(current)
  /\ UNCHANGED <<peerVars, netVars, m_online_peers, setVars, pos, current, down,
                 accepted, wired, eaten>>

(* send() takes a part. *)
SendData(n) ==
  LET c == socket[current] IN
  /\ pc = "write" /\ WritesNow /\ net[c] \in {"up", "fin"}
  /\ n <= ReadableBytes(write_buf[current])
  /\ write_buf' = [write_buf EXCEPT ![current] = ReadMove(@, n)]
  /\ wired' = [wired EXCEPT ![c] = @ + n]
  /\ pc' = "peer" /\ pos' = pos + 1
  /\ UNCHANGED <<socket, serial, read_buf, write_buf_backup, wsa_send, m_serial,
                 netVars, m_online_peers, setVars, current, down, players,
                 accepted, eaten>>

Service ==
  /\ ~down
  /\ \/ Select \/ AcceptNobody \/ AcceptFull \/ OnConReturns \/ OnDisConReturns
     \/ \E c \in Conn, i \in Slot : AcceptPeer(c, i)
     \/ LoopEnds \/ OnReadReturns \/ OnReadRefuses \/ NotWritable \/ SendFails
     \/ \E i \in Slot : NotReadable(i) \/ RecvEnds(i) \/ RecvData(i)
     \/ \E n \in 1..MaxOut : SendData(n)

-----------------------------------------------------------------------------
(* The application, in its callbacks.                                      *)

InCallback == pc \in {"onCon", "onRead", "onDisCon"}

(* SockBuf.readMove of what the callback was given. *)
AppEats(n) ==
  LET b == read_buf[current] IN
  /\ pc = "onRead" /\ InUse(current) /\ n <= ReadableBytes(b)
  /\ read_buf' = [read_buf EXCEPT ![current] = ReadMove(b, n)]
  /\ eaten' = [eaten EXCEPT ![socket[current]] = @ + n]
  /\ UNCHANGED <<socket, serial, write_buf, write_buf_backup, wsa_send, m_serial,
                 netVars, m_online_peers, setVars, loopVars, down, players,
                 accepted, wired>>

(* send() to the last handle of a slot.  The test of the socket is never   *)
(* true, so that the bytes for a closed connection stay in the free slot.  *)
AppSends(i) ==
  /\ InCallback /\ ReadableBytes(write_buf[i]) < MaxOut
  /\ InUse(i) => accepted[socket[i]] < MaxOut
  /\ write_buf' = [write_buf EXCEPT ![i] = ApendBuf(@, 1)]
  /\ accepted' = IF InUse(i) THEN [accepted EXCEPT ![socket[i]] = @ + 1] ELSE accepted
  /\ UNCHANGED <<socket, serial, read_buf, write_buf_backup, wsa_send, m_serial,
                 netVars, m_online_peers, setVars, loopVars, down, players,
                 wired, eaten>>

(* closePeer(), of anybody but the connection that is just closing. *)
AppCloses(i) ==
  /\ InCallback /\ InUse(i) /\ ~(pc = "onDisCon" /\ i = current)
  /\ Closes(i) /\ players' = Forgotten(i)
  /\ UNCHANGED <<setVars, loopVars, down, accepted, wired, eaten>>

App ==
  /\ ~down
  /\ \/ \E n \in 1..MaxIn : AppEats(n)
     \/ \E i \in Slot : AppSends(i) \/ AppCloses(i)

Next == (\E c \in Conn : Remote(c)) \/ Service \/ App

Spec == Init /\ [][Next]_vars

(* The thread runs, and the callbacks return. *)
FairSpec == Spec /\ WF_vars(Service)

-----------------------------------------------------------------------------
TypeOK ==
  /\ PeerTypeOK
  /\ net \in [Conn -> {"none", "waiting", "up", "fin", "rst", "closed"}]
  /\ inbox \in [Conn -> 0..MaxIn] /\ rest \in [Conn -> 0..MaxIn]
  /\ m_online_peers \in Seq(Slot)
  /\ m_read_set \in Sets /\ m_write_set \in Sets
  /\ pc \in {"tick", "accept", "onCon", "peer", "onRead", "write", "onDisCon"}
  /\ pos \in Nat /\ current \in Slot /\ down \in BOOLEAN
  /\ players \in SUBSET (Slot \X Nat \X Conn)
  /\ {accepted, wired} \subseteq [Conn -> 0..MaxOut] /\ eaten \in [Conn -> 0..MaxIn]

(* registerSocket, closePeer: in every state, also inside the callbacks    *)
(* and while the loop runs, the list names every slot in use once, the     *)
(* application's table is those slots, but for the one it was just told    *)
(* of, and no two slots have the same socket.                              *)
OnlineIsTheTable ==
  LET used == {i \in Slot : InUse(i)}
      leaving == IF pc = "onDisCon" THEN {current} ELSE {}
  IN
  /\ IsInjective(m_online_peers) /\ ToSet(m_online_peers) = used
  /\ players = {<<i, serial[i], socket[i]>> : i \in used \ leaving}
  /\ \A i, j \in used : socket[i] = socket[j] => i = j

(* send, onEventTick: what was accepted for a connection is what the       *)
(* system has taken and what its slot holds, what was received is what the *)
(* application has consumed and what its slot holds, whoever had the slot  *)
(* before and whatever was sent to a handle that is closed; and the        *)
(* buffers' indices are in order.                                          *)
BytesConserved ==
  \A i \in Slot :
    /\ WellFormed(read_buf[i]) /\ WellFormed(write_buf[i])
    /\ InUse(i) =>
         LET c == socket[i] IN
         /\ accepted[c] = wired[c] + ReadableBytes(write_buf[i])
         /\ MaxIn = rest[c] + inbox[c] + eaten[c] + ReadableBytes(read_buf[i])

(* onEventTick, when the sockets fit into the sets: who waits is let in or *)
(* goes, what was accepted is given to the system or the connection ends,  *)
(* and its end at the other side is noticed.                               *)
Served ==
  \A c \in Conn :
    /\ net[c] = "waiting" ~> net[c] # "waiting"
    /\ accepted[c] > wired[c] ~> (accepted[c] = wired[c] \/ net[c] = "closed")
    /\ net[c] \in {"fin", "rst"} ~> net[c] = "closed"
=============================================================================
