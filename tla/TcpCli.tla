------------------------------- MODULE TcpCli -------------------------------
(***************************************************************************)
(* TcpCli of TcpCSFramework (FrameWork.cs) as the Unity client uses it     *)
(* (Client.cs): the main thread presses Connect and Disconnect, and the    *)
(* callbacks Connected and RecvData run on other threads.  Both sides      *)
(* share _session and _isConnected without a lock, and a callback looks    *)
(* _session up again at every use, so each use is a step.                  *)
(*                                                                         *)
(* The sockets are numbered in the order of Connect; a session has the     *)
(* number of its socket.  What a stream carries is in ClientFraming.  The  *)
(* states of the client that need a connection are one here: Online.       *)
(***************************************************************************)
EXTENDS Naturals, FiniteSets

CONSTANTS MaxSock,      \* Connect is pressed so often at most
          MaxSend,      \* bound: sends under way on one socket
          Serial,       \* callbacks and calls do not overlap
          Patient       \* Connect is not pressed while a connect is under way

TcpCliAssumption ==
  MaxSock \in Nat /\ MaxSend \in Nat /\ {Serial, Patient} \subseteq BOOLEAN

Sock == 1..MaxSock
Null == 0

VARIABLES
  session,              \* _session
  isConnected,          \* _isConnected
  m_state,              \* Client.m_state: "Offline" or "Online"
  sock, remote,         \* each socket, and its remote end
  posted,               \* receives posted on a socket, by their AsyncState
  sends,                \* how many sends are under way on a socket
  connecting,           \* where the callback Connected of each socket is
  receiving,            \* where a callback RecvData of each socket is
  main,                 \* where the main thread is, in Close
  overlapped,           \* two connects have been under way at once
  mixed,                \* bytes have gone to another connection's session
  dead                  \* why a callback has died, or "no"

shared == <<session, isConnected, m_state>>
net    == <<sock, remote, posted, sends>>
vars   == <<shared, net, connecting, receiving, main, overlapped, mixed, dead>>

Init ==
  /\ session = Null /\ isConnected = FALSE /\ m_state = "Offline"
  /\ sock = [s \in Sock |-> "none"] /\ remote = [s \in Sock |-> "open"]
  /\ posted = [p \in Sock \X Sock |-> 0] /\ sends = [s \in Sock |-> 0]
  /\ connecting = [s \in Sock |-> "idle"] /\ receiving = [s \in Sock |-> "idle"]
  /\ main = "idle" /\ overlapped = FALSE /\ mixed = FALSE /\ dead = "no"

-----------------------------------------------------------------------------
Quiet ==
  main = "idle" /\ \A s \in Sock : connecting[s] = "idle" /\ receiving[s] = "idle"
MayBegin == dead = "no" /\ (Serial => Quiet)

UnderWay == {s \in Sock : sock[s] = "connecting" \/ connecting[s] # "idle"}

(* OnGUI, button Connect: TcpCli.Connect with a new socket. *)
Connect(s) ==
  /\ MayBegin /\ main = "idle" /\ m_state = "Offline"
  /\ sock[s] = "none" /\ \A t \in 1..(s - 1) : sock[t] # "none"
  /\ Patient => UnderWay = {}
  /\ sock' = [sock EXCEPT ![s] = "connecting"]
  /\ overlapped' = (overlapped \/ UnderWay # {})
  /\ UNCHANGED <<shared, remote, posted, sends, connecting, receiving, main, mixed, dead>>

-----------------------------------------------------------------------------
(* Connected, of socket s.                                                 *)

ConnectedGoes(s, place) == connecting' = [connecting EXCEPT ![s] = place]

(* EndConnect throws when the server has refused: nobody catches it. *)
Refused(s) ==
  /\ MayBegin /\ sock[s] = "connecting"
  /\ sock' = [sock EXCEPT ![s] = "closed"] /\ dead' = "refused"
  /\ UNCHANGED <<shared, remote, posted, sends, connecting, receiving, main,
                 overlapped, mixed>>

ConnectedSession(s) ==
  /\ MayBegin /\ sock[s] = "connecting"
  /\ sock' = [sock EXCEPT ![s] = "open"]
  /\ session' = s
  /\ ConnectedGoes(s, "flag")
  /\ UNCHANGED <<isConnected, m_state, remote, posted, sends, receiving, main,
                 overlapped, mixed, dead>>

(* Deviation: the flag is not set. *)
ConnectedFlag_Forgotten(s) ==
  /\ dead = "no" /\ connecting[s] = "flag"
  /\ ConnectedGoes(s, "event")
  /\ UNCHANGED <<shared, net, receiving, main, overlapped, mixed, dead>>

ConnectedFlag(s) ==
  /\ dead = "no" /\ connecting[s] = "flag"
  /\ isConnected' = TRUE
  /\ ConnectedGoes(s, "event")
  /\ UNCHANGED <<session, m_state, net, receiving, main, overlapped, mixed, dead>>

(* ConnectedServer is raised: Client.ClientConn. *)
ConnectedEvent(s) ==
  /\ dead = "no" /\ connecting[s] = "event"
  /\ m_state' = "Online"
  /\ ConnectedGoes(s, "recv")
  /\ UNCHANGED <<session, isConnected, net, receiving, main, overlapped, mixed, dead>>

(* The first receive, on the socket of _session as it is now, with the     *)
(* socket of this callback as its AsyncState.                              *)
ConnectedReceive(s) ==
  /\ dead = "no" /\ connecting[s] = "recv"
  /\ ConnectedGoes(s, "idle")
  /\ IF session = Null \/ sock[session] = "closed"
     THEN dead' = "no session" /\ UNCHANGED posted
     ELSE posted' = [posted EXCEPT ![<<session, s>>] = @ + 1] /\ UNCHANGED dead
  /\ UNCHANGED <<shared, sock, remote, sends, receiving, main, overlapped, mixed>>

(* Deviation: the receive is left to somebody else. *)
ConnectedReceive_Not(s) ==
  /\ dead = "no" /\ connecting[s] = "recv"
  /\ ConnectedGoes(s, "idle")
  /\ UNCHANGED <<shared, net, receiving, main, overlapped, mixed, dead>>

Connected(s) ==
  \/ Refused(s) \/ ConnectedSession(s) \/ ConnectedFlag(s)
  \/ ConnectedEvent(s) \/ ConnectedReceive(s)

-----------------------------------------------------------------------------
(* RecvData, of a receive posted on socket s with AsyncState t.            *)

ReceivingGoes(s, place) == receiving' = [receiving EXCEPT ![s] = place]

(* EndReceive: a wrong socket throws, a closed one is let go, an end is    *)
(* told, bytes are taken, and any other error is thrown on.                *)
RecvBegin(s, t) ==
  /\ MayBegin /\ posted[<<s, t>>] > 0 /\ receiving[s] = "idle"
  /\ posted' = [posted EXCEPT ![<<s, t>>] = @ - 1]
  /\ CASE s # t                  -> dead' = "argument" /\ UNCHANGED receiving
       [] s = t /\ sock[s] = "closed"   -> UNCHANGED <<dead, receiving>>
       [] s = t /\ sock[s] = "open" /\ remote[s] = "failed" ->
            dead' = "failed" /\ UNCHANGED receiving
       [] s = t /\ sock[s] = "open" /\ remote[s] = "open" ->
            ReceivingGoes(s, "add") /\ UNCHANGED dead
       [] s = t /\ sock[s] = "open" /\ remote[s] \in {"shut", "reset"} ->
            ReceivingGoes(s, "end") /\ UNCHANGED dead
  /\ UNCHANGED <<shared, sock, remote, sends, connecting, main, overlapped, mixed>>

(* Deviation: a receive that was cancelled by Close is taken for an end. *)
RecvBegin_ClosedEnds(s, t) ==
  /\ MayBegin /\ posted[<<s, t>>] > 0 /\ receiving[s] = "idle"
  /\ posted' = [posted EXCEPT ![<<s, t>>] = @ - 1]
  /\ ReceivingGoes(s, IF sock[s] = "closed" \/ remote[s] # "open" THEN "end" ELSE "add")
  /\ UNCHANGED <<shared, sock, remote, sends, connecting, main, overlapped, mixed, dead>>

(* The bytes are copied from the buffer of _session and given to it. *)
RecvAdd(s) ==
  /\ dead = "no" /\ receiving[s] = "add"
  /\ IF session = Null
     THEN dead' = "no session" /\ UNCHANGED <<mixed, receiving>>
     ELSE mixed' = (mixed \/ session # s) /\ ReceivingGoes(s, "raise") /\ UNCHANGED dead
  /\ UNCHANGED <<shared, net, connecting, main, overlapped>>

(* The handler answers on the socket of _session.  A closed one throws,    *)
(* and RecvData lets it go; a reset is taken for the end, any other error  *)
(* is thrown on.                                                           *)
Answers(s) ==
  \/ /\ sock[session] = "open" /\ sends[session] < MaxSend
     /\ sends' = [sends EXCEPT ![session] = @ + 1]
     /\ ReceivingGoes(s, "again") /\ UNCHANGED dead
  \/ /\ sock[session] = "closed"
     /\ ReceivingGoes(s, "idle") /\ UNCHANGED <<sends, dead>>
  \/ /\ sock[session] = "open" /\ remote[session] = "reset"
     /\ ReceivingGoes(s, "end") /\ UNCHANGED <<sends, dead>>
  \/ /\ sock[session] = "open" /\ remote[session] = "failed"
     /\ dead' = "failed" /\ UNCHANGED <<sends, receiving>>

(* ReceivedDatagram is raised: Client.RecvData, which may answer; without  *)
(* a connection Send throws what nobody catches.                           *)
RecvRaise(s) ==
  /\ dead = "no" /\ receiving[s] = "raise"
  /\ \/ session # Null /\ ReceivingGoes(s, "again") /\ UNCHANGED <<sends, dead>>
     \/ /\ session = Null \/ ~isConnected
        /\ dead' = "no session" /\ UNCHANGED <<sends, receiving>>
     \/ session # Null /\ isConnected /\ Answers(s)
  /\ UNCHANGED <<shared, sock, remote, posted, connecting, main, overlapped, mixed>>

(* The next receive, on the socket of _session; closed, it is let go. *)
RecvAgain(s) ==
  /\ dead = "no" /\ receiving[s] = "again"
  /\ IF session = Null
     THEN dead' = "no session" /\ UNCHANGED <<posted, receiving>>
     ELSE /\ posted' = IF sock[session] = "closed" THEN posted
                       ELSE [posted EXCEPT ![<<session, session>>] = @ + 1]
          /\ ReceivingGoes(s, "idle") /\ UNCHANGED dead
  /\ UNCHANGED <<shared, sock, remote, sends, connecting, main, overlapped, mixed>>

(* The end of the connection: TypeOfExit of _session, and                  *)
(* DisConnectedServer: Client.ClientClose.                                 *)
RecvEnd(s) ==
  /\ dead = "no" /\ receiving[s] = "end"
  /\ IF session = Null
     THEN dead' = "no session" /\ UNCHANGED <<m_state, receiving>>
     ELSE m_state' = "Offline" /\ ReceivingGoes(s, "idle") /\ UNCHANGED dead
  /\ UNCHANGED <<session, isConnected, net, connecting, main, overlapped, mixed>>

(* Deviation: an end is not told. *)
RecvEnd_Silent(s) ==
  /\ dead = "no" /\ receiving[s] = "end"
  /\ ReceivingGoes(s, "idle")
  /\ UNCHANGED <<shared, net, connecting, main, overlapped, mixed, dead>>

RecvData(s) ==
  \/ \E t \in Sock : RecvBegin(s, t)
  \/ RecvAdd(s) \/ RecvRaise(s) \/ RecvAgain(s) \/ RecvEnd(s)

(* The remote end shuts or resets the connection, or it fails otherwise. *)
Ends(s, how) ==
  /\ sock[s] = "open" /\ remote[s] = "open" /\ dead = "no"
  /\ remote' = [remote EXCEPT ![s] = how]
  /\ UNCHANGED <<shared, sock, posted, sends, connecting, receiving, main, overlapped,
                 mixed, dead>>

-----------------------------------------------------------------------------
(* Send by the main thread, which sends while it is online.  If Send or    *)
(* BeginSend throws, the exception is logged.                              *)
Send ==
  /\ MayBegin /\ main = "idle" /\ m_state = "Online"
  /\ isConnected /\ session # Null /\ sock[session] = "open" /\ sends[session] < MaxSend
  /\ sends' = [sends EXCEPT ![session] = @ + 1]
  /\ UNCHANGED <<shared, sock, remote, posted, connecting, receiving, main, overlapped,
                 mixed, dead>>

(* SendDataEnd, of the socket s: EndSend throws when the socket has been   *)
(* closed, and may throw when its remote end has gone; nobody catches it.  *)
EndSendThrows(s) == sock[s] = "closed" \/ remote[s] # "open"

SendDataEnd(s) ==
  /\ MayBegin /\ sends[s] > 0
  /\ sends' = [sends EXCEPT ![s] = @ - 1]
  /\ \/ sock[s] # "closed" /\ UNCHANGED dead
     \/ EndSendThrows(s) /\ dead' = "send"
  /\ UNCHANGED <<shared, sock, remote, posted, connecting, receiving, main, overlapped,
                 mixed>>

-----------------------------------------------------------------------------
(* OnGUI, button Disconnect: TcpCli.Close, then m_state.  An exception of  *)
(* the main thread is logged, and the rest of the handler does not run.    *)
PressDisconnect ==
  /\ MayBegin /\ main = "idle" /\ m_state = "Online"
  /\ main' = IF isConnected THEN "close" ELSE "state"
  /\ UNCHANGED <<shared, net, connecting, receiving, overlapped, mixed, dead>>

CloseSocket ==
  /\ dead = "no" /\ main = "close"
  /\ IF session = Null \/ sock[session] = "closed"
     THEN main' = "idle" /\ UNCHANGED sock
     ELSE main' = "null" /\ sock' = [sock EXCEPT ![session] = "closed"]
  /\ UNCHANGED <<shared, remote, posted, sends, connecting, receiving, overlapped, mixed,
                 dead>>

(* Deviation: the socket is let go without being closed. *)
CloseSocket_Not ==
  /\ dead = "no" /\ main = "close"
  /\ main' = "null"
  /\ UNCHANGED <<shared, net, connecting, receiving, overlapped, mixed, dead>>

CloseNull ==
  /\ dead = "no" /\ main = "null"
  /\ session' = Null /\ main' = "flag"
  /\ UNCHANGED <<isConnected, m_state, net, connecting, receiving, overlapped, mixed,
                 dead>>

CloseFlag ==
  /\ dead = "no" /\ main = "flag"
  /\ isConnected' = FALSE /\ main' = "state"
  /\ UNCHANGED <<session, m_state, net, connecting, receiving, overlapped, mixed, dead>>

CloseState ==
  /\ dead = "no" /\ main = "state"
  /\ m_state' = "Offline" /\ main' = "idle"
  /\ UNCHANGED <<session, isConnected, net, connecting, receiving, overlapped, mixed,
                 dead>>

Close == CloseSocket \/ CloseNull \/ CloseFlag \/ CloseState

-----------------------------------------------------------------------------
Next ==
  \/ PressDisconnect \/ Close \/ Send
  \/ \E s \in Sock :
       \/ Connect(s) \/ Connected(s) \/ RecvData(s) \/ SendDataEnd(s)
       \/ \E how \in {"shut", "reset", "failed"} : Ends(s, how)

Spec == Init /\ [][Next]_vars

(* Callbacks that are due are run, and the main thread goes on. *)
FairSpec ==
  /\ Spec /\ WF_vars(Close)
  /\ \A s \in Sock :
       WF_vars(Connected(s)) /\ WF_vars(RecvData(s)) /\ WF_vars(SendDataEnd(s))

-----------------------------------------------------------------------------
(* The types of the variables: a socket has at most one receive for each   *)
(* connect that has been made.                                             *)
TypeOK ==
  /\ session \in Sock \cup {Null} /\ isConnected \in BOOLEAN
  /\ m_state \in {"Offline", "Online"}
  /\ sock \in [Sock -> {"none", "connecting", "open", "closed"}]
  /\ remote \in [Sock -> {"open", "shut", "reset", "failed"}]
  /\ posted \in [Sock \X Sock -> 0..MaxSock] /\ sends \in [Sock -> 0..MaxSend]
  /\ connecting \in [Sock -> {"idle", "flag", "event", "recv"}]
  /\ receiving \in [Sock -> {"idle", "add", "raise", "again", "end"}]
  /\ main \in {"idle", "close", "null", "flag", "state"}
  /\ overlapped \in BOOLEAN /\ mixed \in BOOLEAN
  /\ dead \in {"no", "refused", "failed", "argument", "no session", "send"}

(* Without overlapping connects, calls and callbacks, no callback dies but *)
(* for a refused or failed connection, which RecvData and Connected throw, *)
(* and for a send whose socket has been closed, or whose remote end has    *)
(* gone, before SendDataEnd ran.                                           *)
CallbacksSurvive ==
  Serial /\ ~overlapped =>
    /\ dead \in {"no", "refused", "failed", "send"}
    /\ dead = "send" => \E s \in Sock : EndSendThrows(s)

(* ... and the bytes of a connection go to its own session. *)
OwnSession == Serial /\ ~overlapped => ~mixed

(* ... and the session that is online has exactly one receive posted, with *)
(* its own socket, while every other socket has none.                      *)
OneReceive ==
  Serial /\ ~overlapped /\ Quiet /\ dead = "no" =>
    \A s, t \in Sock :
      sock[s] = "open" =>
        posted[<<s, t>>] = IF s = t /\ s = session /\ m_state = "Online" THEN 1 ELSE 0

(* A socket that is open without being the session's is one whose remote   *)
(* end has gone: the client never closes it.                               *)
LeakedAreEnded ==
  ~overlapped => \A s \in Sock : sock[s] = "open" /\ s # session => remote[s] # "open"

(* Between its steps the main thread finds a session whenever it is        *)
(* online: what Send needs.  This holds however calls and callbacks        *)
(* interleave, as long as connects do not.                                 *)
OnlineHasSession ==
  ~overlapped /\ main = "idle" /\ m_state = "Online" => isConnected /\ session # Null

(* The end of the connection takes the client offline, unless a callback   *)
(* has died.                                                               *)
EndNoticed ==
  \A s \in Sock :
    (remote[s] \in {"shut", "reset"} /\ session = s /\ m_state = "Online")
      ~> (m_state = "Offline" \/ session # s \/ dead # "no")
=============================================================================
