--------------------------- MODULE ServerFraming ---------------------------
(***************************************************************************)
(* Messages from a client to the server: TcpCli.Send puts a message into   *)
(* the stream, and NetEvent::onRead (ghs_server.cpp) takes it out of the   *)
(* read buffer of the connection.  The network cuts the stream where it    *)
(* likes.  onRead looks for one message each time it is called, and it is  *)
(* called once for each piece that arrives.                                *)
(***************************************************************************)
EXTENDS Framing, FiniteSetsExt

CONSTANTS ReadSize,     \* the most bytes one receive brings
          MaxStream,    \* the client waits with more bytes under way
          KeepAlive,    \* the message a client sends when it is silent
          MayMerge      \* one piece may hold the ends of two messages

ServerFramingAssumption ==
  /\ ReadSize \in Nat \ {0} /\ MaxStream \in Nat
  /\ KeepAlive \in Message /\ MayMerge \in BOOLEAN

VARIABLES
  wire,                 \* the bytes under way
  read_buf,             \* the content of the peer's read buffer
  last, parity          \* the packet given to GHS_Lobby::onRead last

vars == <<wire, read_buf, last, parity>>

Init == wire = <<>> /\ read_buf = <<>> /\ last = <<>> /\ parity = 0

(* TcpCli.Send, of a message that is not empty. *)
Send(m) ==
  /\ Len(wire) + Len(read_buf) + Len(Frame(m)) <= MaxStream
  /\ wire' = wire \o Frame(m)
  /\ UNCHANGED <<read_buf, last, parity>>

(* NetEvent::onRead with what the buffer holds now. *)
OnRead(b) ==
  IF HasMessage(b)
  THEN /\ last' = FirstMessage(b)
       /\ parity' = 1 - parity
       /\ read_buf' = AfterFirst(b)
  ELSE /\ read_buf' = b
       /\ UNCHANGED <<last, parity>>

(* Deviation: onRead forgets the message it has found. *)
OnRead_Drops(b) ==
  /\ read_buf' = IF HasMessage(b) THEN AfterFirst(b) ELSE b
  /\ UNCHANGED <<last, parity>>

(* Deviation: a message is only given when nothing follows it. *)
OnRead_Whole(b) ==
  IF HasMessage(b) /\ Len(b) = TotalLen(b)
  THEN last' = b /\ parity' = 1 - parity /\ read_buf' = <<>>
  ELSE read_buf' = b /\ UNCHANGED <<last, parity>>

(* A piece of n bytes arrives: processRead stores it and calls onRead. *)
Arrives(n) ==
  /\ MayMerge \/ Len(Messages[read_buf \o SubSeq(wire, 1, n)]) <= 1
  /\ wire' = SubSeq(wire, n + 1, Len(wire))
  /\ OnRead(read_buf \o SubSeq(wire, 1, n))

Receive == \E n \in 1..Min({ReadSize, Len(wire)}) : Arrives(n)

Next == Receive \/ \E m \in Message : Send(m)

Spec == Init /\ [][Next]_vars

(* The connection works, and the client is heard of every ten seconds.     *)
FairSpec == Spec /\ WF_vars(Receive) /\ WF_vars(Send(KeepAlive))

-----------------------------------------------------------------------------
(* The types of the variables. *)
TypeOK ==
  /\ wire \in Seq(Byte) /\ read_buf \in Seq(Byte)
  /\ last \in Message \cup {<<>>} /\ parity \in {0, 1}

(* The server gets the messages of the client whole, in order and once,    *)
(* wherever the network cuts the stream: what is still to come is what the *)
(* bytes in the buffer and under way spell.                                *)
Stream == INSTANCE MessageStream WITH chan <- Messages[read_buf \o wire]
StreamSpec == Stream!Spec

(* As long as no piece brings the ends of two messages no complete message *)
(* is left behind in the buffer: the lag comes from merging alone, and     *)
(* once there it stays, since each later piece takes out one and brings    *)
(* one.                                                                    *)
NothingLeftBehind == ~MayMerge => ~HasMessage(read_buf)

(* A message that was left behind in the buffer is given in the end, since *)
(* the client's keep-alives go on arriving.                                *)
NothingRots ==
  \A p \in {0, 1} :
    Messages[read_buf \o wire] # <<>> /\ parity = p ~> parity # p
=============================================================================
