----------------------------- MODULE TcpSession -----------------------------
(***************************************************************************)
(* TcpSession of the Network project (TcpSession.cs): a session that a     *)
(* thread of its own serves.  ListenThread calls Process every 50 ms; the  *)
(* main thread calls Connect and SendPacket.  m_state is read and written  *)
(* by both without a lock; SendPacket is under the lock of m_sendNetPkt,   *)
(* and m_writeBuf under its own, so that its accesses are single steps.    *)
(*                                                                         *)
(* A packet that is sent is its sequence number; one that is received is   *)
(* its kind.  A flush sends whole packets.                                 *)
(***************************************************************************)
EXTENDS Naturals, Sequences

CONSTANTS MaxSeq,       \* MAX_NET_PACKET_SEQ
          MaxConnect,   \* Connect is called so often
          MaxWrite,     \* the main thread waits while so much is unsent
          MaxRead,      \* the server waits while so much is unread
          Serial        \* SendPacket and Process do not overlap

TcpSessionAssumption ==
  /\ MaxSeq \in Nat \ {0} /\ MaxConnect \in Nat \ {0} /\ {MaxWrite, MaxRead} \subseteq Nat \ {0}
  /\ Serial \in BOOLEAN

Listener == 1..MaxConnect      \* one thread for each Connect
Main == 0
Free == MaxConnect + 1

(* An answer to a keep-alive and a user's packet change nothing here; a bad *)
(* packet has a wrong flag or size.                                        *)
Kind == {"seed", "alive", "other", "bad"}

VARIABLES
  m_state,              \* m_state, without NET_STATE_
  socket,               \* m_clientSocket is there
  m_seq, m_writeBuf, m_readBuff,
  lock,                 \* who holds the lock of m_sendNetPkt
  at,                   \* where each listening thread is
  mainAt,               \* where the main thread is
  connects,             \* how often Connect has succeeded
  remote,               \* the server's end: "open" or "closed"
  silence,              \* nothing has come for NET_TIMEOUT
  lastSent,             \* the last packet sent on this connection
  told,                 \* the last the application was told of this connection
  ended,                \* how the last connection ended
  crashed               \* what exception has left a thread, or "no"

session == <<m_state, socket, m_seq, m_writeBuf, m_readBuff>>
ghosts  == <<lastSent, told, ended>>
vars == <<session, lock, at, mainAt, connects, remote, silence, ghosts, crashed>>

Init ==
  /\ m_state = "ZERO" /\ socket = FALSE
  /\ m_seq = 0 /\ m_writeBuf = <<>> /\ m_readBuff = <<>>
  /\ lock = Free /\ at = [i \in Listener |-> "none"] /\ mainAt = "idle"
  /\ connects = 0 /\ remote = "open" /\ silence = FALSE
  /\ lastSent = 0 /\ told = "nothing" /\ ended = "no" /\ crashed = "no"

Goes(i, place) == at' = [at EXCEPT ![i] = place]
Working == {i \in Listener : at[i] \notin {"none", "ended", "defproc"}}

NextSeq(seq) == IF seq + 1 > MaxSeq THEN 1 ELSE seq + 1

-----------------------------------------------------------------------------
(* The main thread.                                                        *)

(* Connect, when the session has ended or never began.  It touches neither *)
(* the buffers nor the number; a new thread listens.                       *)
Connect ==
  /\ crashed = "no" /\ mainAt = "idle" /\ connects < MaxConnect
  /\ m_state \in {"ZERO", "DEAD"} /\ (Serial => Working = {})
  /\ socket' = TRUE /\ m_state' = "CONNECTING"
  /\ connects' = connects + 1
  /\ Goes(connects + 1, "defproc")
  /\ remote' = "open" /\ silence' = FALSE /\ lastSent' = 0 /\ told' = "nothing"
  /\ UNCHANGED <<m_seq, m_writeBuf, m_readBuff, lock, mainAt, ended, crashed>>

(* SendPacket, up to the number: it takes the lock, and refuses when the   *)
(* session is not connected.                                               *)
SendBegin ==
  /\ crashed = "no" /\ mainAt = "idle" /\ lock = Free
  /\ Len(m_writeBuf) < MaxWrite /\ (Serial => Working = {})
  /\ m_state = "CONNECTED"
  /\ m_seq' = NextSeq(m_seq)
  /\ lock' = Main /\ mainAt' = "push"
  /\ UNCHANGED <<m_state, socket, m_writeBuf, m_readBuff, at, connects, remote,
                 silence, ghosts, crashed>>

(* Deviation: without the lock. *)
SendBegin_NoLock ==
  /\ crashed = "no" /\ mainAt = "idle"
  /\ Len(m_writeBuf) < MaxWrite /\ (Serial => Working = {})
  /\ m_state = "CONNECTED"
  /\ m_seq' = NextSeq(m_seq) /\ mainAt' = "push"
  /\ UNCHANGED <<m_state, socket, m_writeBuf, m_readBuff, lock, at, connects, remote,
                 silence, ghosts, crashed>>

(* PushData, and the lock is given back.  A user's packet is not flushed. *)
SendPush ==
  /\ crashed = "no" /\ mainAt = "push"
  /\ m_writeBuf' = Append(m_writeBuf, m_seq)
  /\ lock' = Free /\ mainAt' = "idle"
  /\ UNCHANGED <<m_state, socket, m_seq, m_readBuff, at, connects, remote, silence,
                 ghosts, crashed>>

-----------------------------------------------------------------------------
(* The listening thread i.                                                 *)

(* FlushData of the buffer b: some of it is sent, or Send throws, as it    *)
(* does on a socket that does not block when there is no room.             *)
Flush(b) ==
  IF m_state = "DEAD" \/ b = <<>>
  THEN m_writeBuf' = b /\ UNCHANGED <<lastSent, crashed>>
  ELSE \/ \E n \in 1..Len(b) :
            /\ m_writeBuf' = SubSeq(b, n + 1, Len(b))
            /\ lastSent' = b[n]
            /\ UNCHANGED crashed
       \/ crashed' = "send" /\ m_writeBuf' = b /\ UNCHANGED lastSent

(* DefProc begins: a keep-alive may be due. *)
DefProc(i) ==
  /\ at[i] = "defproc" /\ (Serial => Working = {} /\ mainAt = "idle")
  /\ CASE m_state = "CONNECTED" -> Goes(i, "keepalive") \/ Goes(i, "timeout")
       [] m_state = "WAITING_SEED" -> Goes(i, "read")
       [] OTHER -> Goes(i, "switch")
  /\ UNCHANGED <<session, lock, mainAt, connects, remote, silence, ghosts, crashed>>

(* SendPacket of a system packet, from DefProc or from HandleSysPacket,    *)
(* flushed at once.                                                        *)
Back == [keepalive |-> "timeout", reply |-> "get",
         keepalive_push |-> "timeout", reply_push |-> "get"]
PushOf == [keepalive |-> "keepalive_push", reply |-> "reply_push"]

SysBegin(i) ==
  /\ at[i] \in {"keepalive", "reply"} /\ lock = Free
  /\ IF m_state = "CONNECTED"
     THEN lock' = i /\ m_seq' = NextSeq(m_seq) /\ Goes(i, PushOf[at[i]])
     ELSE Goes(i, Back[at[i]]) /\ UNCHANGED <<lock, m_seq>>
  /\ UNCHANGED <<m_state, socket, m_writeBuf, m_readBuff, mainAt, connects, remote,
                 silence, ghosts, crashed>>

SysPush(i) ==
  /\ at[i] \in {"keepalive_push", "reply_push"}
  /\ Flush(Append(m_writeBuf, m_seq))
  /\ lock' = Free /\ Goes(i, Back[at[i]])
  /\ UNCHANGED <<m_state, socket, m_seq, m_readBuff, mainAt, connects, remote, silence,
                 told, ended>>

(* Deviation: the session does not time out. *)
TimesOut_Never(i) ==
  /\ at[i] = "timeout" /\ Goes(i, "flush")
  /\ UNCHANGED <<session, lock, mainAt, connects, remote, silence, ghosts, crashed>>

(* The rest of DefProc: the timeout, ... *)
TimesOut(i) ==
  /\ at[i] = "timeout"
  /\ IF silence THEN m_state' = "DEAD" /\ ended' = "timeout"
                ELSE UNCHANGED <<m_state, ended>>
  /\ Goes(i, "flush")
  /\ UNCHANGED <<socket, m_seq, m_writeBuf, m_readBuff, lock, mainAt, connects, remote,
                 silence, lastSent, told, crashed>>

(* ... the flush, ... *)
FlushData(i) ==
  /\ at[i] = "flush"
  /\ Flush(m_writeBuf)
  /\ Goes(i, "read")
  /\ UNCHANGED <<m_state, socket, m_seq, m_readBuff, lock, mainAt, connects, remote,
                 silence, told, ended>>

(* Deviation: the buffer is only flushed when a keep-alive is due. *)
FlushData_Not(i) ==
  /\ at[i] = "flush" /\ Goes(i, "read")
  /\ UNCHANGED <<session, lock, mainAt, connects, remote, silence, ghosts, crashed>>

(* ... and ReadData: one packet or two, an exception, or nothing, for      *)
(* which the end of the stream is taken too.                               *)
Arrivals == {<<k>> : k \in Kind} \cup {<<k, l>> : k, l \in Kind}

ReadData(i) ==
  /\ at[i] = "read" /\ Goes(i, "switch")
  /\ \/ m_state # "DEAD" /\ socket /\ remote = "open"
        /\ \E packets \in Arrivals :
             /\ Len(m_readBuff) + Len(packets) <= MaxRead
             /\ m_readBuff' = m_readBuff \o packets
        /\ silence' = FALSE
        /\ UNCHANGED <<m_state, ended, crashed>>
     \/ m_state # "DEAD" /\ socket
        /\ m_state' = "DEAD" /\ ended' = "exception"
        /\ UNCHANGED <<m_readBuff, silence, crashed>>
     \/ m_state # "DEAD" /\ ~socket
        /\ crashed' = "null" /\ UNCHANGED <<m_state, ended, m_readBuff, silence>>
     \/ (m_state = "DEAD" \/ socket) /\ UNCHANGED <<m_state, ended, m_readBuff, silence, crashed>>
  /\ UNCHANGED <<socket, m_seq, m_writeBuf, lock, mainAt, connects, remote, lastSent,
                 told>>

(* Deviation: what was read stays in the buffer. *)
Reset_KeepsRead ==
  IF socket
  THEN m_writeBuf' = <<>> /\ m_seq' = 0 /\ socket' = FALSE /\ UNCHANGED <<crashed, m_readBuff>>
  ELSE crashed' = "null" /\ UNCHANGED <<m_readBuff, m_writeBuf, m_seq, socket>>

(* Reset, which Close is. *)
Reset ==
  IF socket
  THEN /\ m_readBuff' = <<>> /\ m_writeBuf' = <<>> /\ m_seq' = 0 /\ socket' = FALSE
       /\ UNCHANGED crashed
  ELSE /\ crashed' = "null" /\ UNCHANGED <<m_readBuff, m_writeBuf, m_seq, socket>>

(* The switch of Process. *)
SwitchConnected(i) ==
  /\ at[i] = "switch" /\ m_state = "CONNECTED"
  /\ Goes(i, "get")
  /\ UNCHANGED <<session, lock, mainAt, connects, remote, silence, ghosts, crashed>>

SwitchDead(i) ==
  /\ at[i] = "switch" /\ m_state = "DEAD"
  /\ told' = "disconnect"
  /\ Reset /\ m_state' = "ZERO"
  /\ Goes(i, "test")
  /\ UNCHANGED <<lock, mainAt, connects, remote, silence, lastSent, ended>>

(* Deviation: the session is closed before the application is told, and    *)
(* the thread, which finds it closed, does not tell it.                    *)
SwitchDead_Silent(i) ==
  /\ at[i] = "switch" /\ m_state = "DEAD"
  /\ Reset /\ m_state' = "ZERO"
  /\ Goes(i, "test")
  /\ UNCHANGED <<lock, mainAt, connects, remote, silence, lastSent, told, ended>>

(* Waiting for the seed: one packet is looked at. *)
SwitchWaiting(i) ==
  /\ at[i] = "switch" /\ m_state = "WAITING_SEED"
  /\ Goes(i, "test")
  /\ IF m_readBuff = <<>> THEN UNCHANGED <<m_state, m_readBuff, told, ended>>
     ELSE IF Head(m_readBuff) = "bad"
     THEN m_state' = "DEAD" /\ ended' = "protocol" /\ UNCHANGED <<m_readBuff, told>>
     ELSE /\ m_readBuff' = Tail(m_readBuff)
          /\ IF Head(m_readBuff) = "seed"
             THEN m_state' = "CONNECTED" /\ told' = "connect"
             ELSE UNCHANGED <<m_state, told>>
          /\ UNCHANGED ended
  /\ UNCHANGED <<socket, m_seq, m_writeBuf, lock, mainAt, connects, remote, silence,
                 lastSent, crashed>>

(* Connecting: an error or the timeout, or the socket can be written. *)
SwitchConnecting(i) ==
  /\ at[i] = "switch" /\ m_state = "CONNECTING"
  /\ Goes(i, "test")
  /\ \/ /\ Reset /\ m_state' = "DEAD"
        /\ told' = "refused" /\ ended' = "refused"
        /\ UNCHANGED silence
     \/ /\ socket /\ m_state' = "WAITING_SEED" /\ silence' = FALSE
        /\ UNCHANGED <<socket, m_seq, m_writeBuf, m_readBuff, told, ended, crashed>>
     \/ /\ socket
        /\ UNCHANGED <<session, silence, told, ended, crashed>>
  /\ UNCHANGED <<lock, mainAt, connects, remote, lastSent>>

SwitchZero(i) ==
  /\ at[i] = "switch" /\ m_state = "ZERO"
  /\ Goes(i, "test")
  /\ UNCHANGED <<session, lock, mainAt, connects, remote, silence, ghosts, crashed>>

Switch(i) ==
  \/ SwitchConnected(i) \/ SwitchDead(i) \/ SwitchWaiting(i)
  \/ SwitchConnecting(i) \/ SwitchZero(i)

(* GetPacket, one packet at a time, and what is done with it. *)
GetPacket(i) ==
  /\ at[i] = "get"
  /\ IF m_readBuff = <<>> THEN Goes(i, "test") /\ UNCHANGED <<m_state, m_readBuff, told, ended>>
     ELSE IF Head(m_readBuff) = "bad"
     THEN /\ m_state' = "DEAD" /\ ended' = "protocol" /\ Goes(i, "test")
          /\ UNCHANGED <<m_readBuff, told>>
     ELSE /\ m_readBuff' = Tail(m_readBuff)
          /\ Goes(i, IF Head(m_readBuff) = "alive" THEN "reply" ELSE "get")
          /\ IF Head(m_readBuff) = "seed"
             THEN m_state' = "CONNECTED" /\ told' = "connect"
             ELSE UNCHANGED <<m_state, told>>
          /\ UNCHANGED ended
  /\ UNCHANGED <<socket, m_seq, m_writeBuf, lock, mainAt, connects, remote, silence,
                 lastSent, crashed>>

(* The test of ListenThread: the thread ends only when it finds the state  *)
(* dead here.                                                              *)
ThreadTest(i) ==
  /\ at[i] = "test"
  /\ Goes(i, IF m_state = "DEAD" THEN "ended" ELSE "defproc")
  /\ UNCHANGED <<session, lock, mainAt, connects, remote, silence, ghosts, crashed>>

(* Deviation: the thread goes on with a session that has failed. *)
ThreadTest_Never(i) ==
  /\ at[i] = "test" /\ Goes(i, "defproc")
  /\ UNCHANGED <<session, lock, mainAt, connects, remote, silence, ghosts, crashed>>

ListenThread(i) ==
  crashed = "no" /\
    (\/ DefProc(i) \/ SysBegin(i) \/ SysPush(i) \/ TimesOut(i) \/ FlushData(i)
     \/ ReadData(i) \/ Switch(i) \/ GetPacket(i) \/ ThreadTest(i))

-----------------------------------------------------------------------------
(* The server's end closes; and time passes in which nothing comes.        *)
RemoteCloses ==
  /\ m_state \notin {"ZERO", "DEAD"} /\ remote = "open"
  /\ remote' = "closed"
  /\ UNCHANGED <<session, lock, at, mainAt, connects, silence, ghosts, crashed>>

TimePasses ==
  /\ m_state \notin {"ZERO", "DEAD"} /\ ~silence
  /\ silence' = TRUE
  /\ UNCHANGED <<session, lock, at, mainAt, connects, remote, ghosts, crashed>>

Next ==
  \/ Connect \/ SendBegin \/ SendPush \/ RemoteCloses \/ TimePasses
  \/ \E i \in Listener : ListenThread(i)

Spec == Init /\ [][Next]_vars

(* The threads run, a thread that waits for the lock gets it some time,    *)
(* and time passes.                                                        *)
FairSpec ==
  /\ Spec /\ WF_vars(SendPush) /\ WF_vars(TimePasses)
  /\ \A i \in Listener : SF_vars(ListenThread(i))

-----------------------------------------------------------------------------
(* The types of the variables. *)
TypeOK ==
  /\ m_state \in {"CONNECTING", "WAITING_SEED", "CONNECTED", "DEAD", "ZERO"}
  /\ socket \in BOOLEAN /\ m_seq \in 0..MaxSeq
  /\ m_writeBuf \in Seq(0..MaxSeq) /\ m_readBuff \in Seq(Kind)
  /\ lock \in Listener \cup {Main, Free} /\ mainAt \in {"idle", "push"}
  /\ connects \in 0..MaxConnect /\ remote \in {"open", "closed"}
  /\ silence \in BOOLEAN /\ crashed \in {"no", "send", "null"} /\ lastSent \in 0..MaxSeq
  /\ ended \in {"no", "timeout", "exception", "protocol", "refused"}

(* While the session is connected, what has been sent and what waits are   *)
(* packets numbered one after the other, from 1 on and again from 1 after  *)
(* MAX_NET_PACKET_SEQ, whoever sent them.                                  *)
SeqInOrder ==
  connects = 1 /\ m_state = "CONNECTED" =>
    /\ m_writeBuf # <<>> => m_writeBuf[1] = NextSeq(lastSent)
    /\ \A k \in 2..Len(m_writeBuf) : m_writeBuf[k] = NextSeq(m_writeBuf[k - 1])
    /\ lock = Free =>
         m_seq = IF m_writeBuf = <<>> THEN lastSent ELSE m_writeBuf[Len(m_writeBuf)]
    /\ 0 \notin {m_writeBuf[k] : k \in DOMAIN m_writeBuf}

(* In a session that is connected once nobody uses the socket after Reset  *)
(* has thrown it away, or throws it away again.                            *)
SocketIsThere == connects = 1 => crashed # "null"

(* A listening thread that has ended has told the application of the end,  *)
(* unless the server broke the protocol: that end is told to nobody.       *)
UntoldIsProtocolError ==
  connects = 1 /\ at[1] \in {"test", "ended", "defproc"} /\ ended # "no"
    => ended = "protocol" \/ told \in {"disconnect", "refused"}

(* The application hears of the end of a connection once, and of nothing   *)
(* after it.                                                               *)
ToldOnce ==
  told \in {"disconnect", "refused"} /\ connects' = connects => told' = told
EndIsLast == [][ToldOnce]_vars

(* As long as calls do not overlap with Process, a new connection starts   *)
(* with empty buffers, unless the one before it ended in a protocol error, *)
(* after which nobody resets the session.                                  *)
FreshStart ==
  Serial /\ m_state = "CONNECTING" /\ ended # "protocol" =>
    m_writeBuf = <<>> /\ m_readBuff = <<>> /\ m_seq = 0

(* A packet at the head of the write buffer is sent, or the session ends.  *)
PacketsLeave ==
  \A q \in 1..MaxSeq :
    (m_writeBuf # <<>> /\ m_writeBuf[1] = q /\ m_state = "CONNECTED")
      ~> (m_writeBuf = <<>> \/ m_writeBuf[1] # q \/ m_state # "CONNECTED" \/ crashed # "no")

(* When the server's end has closed, the session ends: Receive takes the   *)
(* end of the stream for silence, so it is the timeout that notices.       *)
EndNoticed ==
  (m_state = "CONNECTED" /\ remote = "closed") ~> (m_state # "CONNECTED" \/ crashed # "no")
=============================================================================
