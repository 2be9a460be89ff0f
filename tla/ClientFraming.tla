--------------------------- MODULE ClientFraming ---------------------------
(***************************************************************************)
(* Messages from the server to a client: GHS_Lobby::send puts a message    *)
(* into the stream; TcpCli.RecvData receives a piece of it, gives it to    *)
(* Session.addBuff, which takes at most one message out of its buffer, and *)
(* raises ReceivedDatagram, complete message or not.  The handler          *)
(* (Client.RecvData) reads RecvPacket from where the last reader stopped.  *)
(***************************************************************************)
EXTENDS Framing, FiniteSetsExt

CONSTANTS ReadSize,     \* the most bytes one receive brings
          MaxStream,    \* the server waits with more bytes under way
          KeepAlive,    \* the message the server sends when it is silent
          KnownCmd,     \* the commands the handler has a case for
          ReadsBody,    \* the commands whose case reads the rest
          WholeFirst    \* the first piece holds a complete message

ClientFramingAssumption ==
  /\ ReadSize \in Nat \ {0} /\ MaxStream \in Nat
  /\ KeepAlive \in Message /\ WholeFirst \in BOOLEAN
  /\ ReadsBody \subseteq KnownCmd /\ 0 \notin KnownCmd

VARIABLES
  wire,                 \* the bytes under way
  RecvBuffer,           \* Session.RecvBuffer
  RecvPacket,           \* Session.RecvPacket: data and read offset
  raised,               \* changes with every ReceivedDatagram
  deaf,                 \* an exception has left RecvData: nothing receives
  last, parity          \* what the handler has acted on last

vars == <<wire, RecvBuffer, RecvPacket, raised, deaf, last, parity>>

Null == <<>>            \* the data of a packet that was never filled

Init ==
  /\ wire = <<>> /\ RecvBuffer = <<>>
  /\ RecvPacket = [data |-> Null, offset |-> 0]
  /\ raised = 0 /\ deaf = FALSE /\ last = <<>> /\ parity = 0

(* GHS_Lobby::send. *)
Send(m) ==
  /\ Len(wire) + Len(RecvBuffer) + Len(Frame(m)) <= MaxStream
  /\ wire' = wire \o Frame(m)
  /\ UNCHANGED <<RecvBuffer, RecvPacket, raised, deaf, last, parity>>

(* Session.addBuff: the packet afterwards, and what stays in the buffer. *)
PacketAfter(b) ==
  IF HasMessage(b) THEN [data |-> FirstMessage(b), offset |-> 0] ELSE RecvPacket
BufferAfter(b) == IF HasMessage(b) THEN AfterFirst(b) ELSE b

(* CmdPacket.ReadUShort: the command, 0 when the packet has none left. *)
HasCmd(p) == p.offset + 2 <= Len(p.data)

(* Deviation: the low byte first. *)
Cmd_HostOrder(p) ==
  IF HasCmd(p) THEN p.data[p.offset + 2] * Base + p.data[p.offset + 1] ELSE 0

Cmd(p) ==
  IF HasCmd(p) THEN p.data[p.offset + 1] * Base + p.data[p.offset + 2] ELSE 0

(* Deviation: the handler reads the packet from the start each time. *)
OffsetAfter_Rewinds(p) == 0

(* The offset after the case of the command has read what it wants. *)
OffsetAfter(p) ==
  IF Cmd(p) \in ReadsBody THEN Len(p.data)
  ELSE IF HasCmd(p) THEN p.offset + 2 ELSE p.offset

(* Client.RecvData with packet p. *)
Handle(p) ==
  /\ RecvPacket' = [p EXCEPT !.offset = OffsetAfter(p)]
  /\ IF Cmd(p) \in KnownCmd
     THEN /\ last' = SubSeq(p.data, p.offset + 1, Len(p.data))
          /\ parity' = 1 - parity
     ELSE UNCHANGED <<last, parity>>

(* TcpCli.RecvData of n bytes.  The handler formats the data of the packet *)
(* before anything else, which throws when there is none.                  *)
RecvData(n) ==
  LET b == RecvBuffer \o SubSeq(wire, 1, n)
      p == PacketAfter(b)
  IN /\ ~deaf
     /\ WholeFirst /\ RecvPacket.data = Null => HasMessage(b)
     /\ wire' = SubSeq(wire, n + 1, Len(wire))
     /\ RecvBuffer' = BufferAfter(b)
     /\ raised' = 1 - raised
     /\ deaf' = (p.data = Null)
     /\ IF deaf' THEN UNCHANGED <<RecvPacket, last, parity>> ELSE Handle(p)

Receive == \E n \in 1..Min({ReadSize, Len(wire)}) : RecvData(n)

Next == Receive \/ \E m \in Message : Send(m)

Spec == Init /\ [][Next]_vars

(* The connection works, and the server is heard of every ten seconds.     *)
FairSpec == Spec /\ WF_vars(Receive) /\ WF_vars(Send(KeepAlive))

-----------------------------------------------------------------------------
(* The types of the variables. *)
TypeOK ==
  /\ wire \in Seq(Byte) /\ RecvBuffer \in Seq(Byte)
  /\ RecvPacket.data \in Message \cup {Null}
  /\ RecvPacket.offset \in 0..Len(RecvPacket.data)
  /\ last \in Seq(Byte) /\ parity \in {0, 1} /\ raised \in {0, 1}
  /\ deaf \in BOOLEAN

(* The handler acts on the messages of the server whole, in order and      *)
(* once, although it is called for every piece: a packet that was read to  *)
(* its end gives command 0, which has no case.                             *)
Stream == INSTANCE MessageStream WITH chan <- Messages[RecvBuffer \o wire]
StreamSpec == Stream!Spec

(* A message that was left behind in the buffer is handled in the end,     *)
(* since the server's keep-alives go on arriving.                          *)
NothingRots ==
  \A p \in {0, 1} :
    Messages[RecvBuffer \o wire] # <<>> /\ parity = p ~> parity # p
=============================================================================
