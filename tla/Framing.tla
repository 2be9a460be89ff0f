------------------------------ MODULE Framing ------------------------------
(***************************************************************************)
(* How a message travels in the stream of bytes of a connection: two bytes *)
(* with its length, the high one first, then the message.  The senders     *)
(* (GHS_Lobby::send, TcpCli.Send) and the receivers (onRead, addBuff) each *)
(* have code of their own for it.                                          *)
(*                                                                         *)
(* A byte has Base values instead of 256, so that a length needs both      *)
(* bytes of the header in a small instance too, and the bytes of a message *)
(* may look like a header.                                                 *)
(***************************************************************************)
EXTENDS Naturals, Sequences

CONSTANTS Base,      \* the number of values of a byte
          Message    \* the messages, sequences of bytes

Byte == 0..(Base - 1)
HeaderSize == 2

(* Every message has at least its command, and its length fits the header. *)
FramingAssumption ==
  /\ Base \in Nat \ {0, 1}
  /\ Message \subseteq Seq(Byte)
  /\ \A m \in Message : Len(m) >= 1 /\ Len(m) < Base * Base

-----------------------------------------------------------------------------
(* What the senders put in front: htons on the server's side,              *)
(* HostToNetworkOrder on the client's.                                     *)
Header(len) == <<len \div Base, len % Base>>
Frame(m) == Header(Len(m)) \o m

(* Deviation: the low byte first, as it is in the memory of the sender. *)
Header_HostOrder(len) == <<len % Base, len \div Base>>

(* What a receiver makes of the bytes it has: ntohs of the first two. *)
PacketLen(b) == b[1] * Base + b[2]
TotalLen(b) == HeaderSize + PacketLen(b)
HasMessage(b) == Len(b) > HeaderSize /\ Len(b) >= TotalLen(b)
FirstMessage(b) == SubSeq(b, HeaderSize + 1, TotalLen(b))
AfterFirst(b) == SubSeq(b, TotalLen(b) + 1, Len(b))

(* Deviation: the header is given with the message. *)
FirstMessage_WithHeader(b) == SubSeq(b, 1, TotalLen(b))

-----------------------------------------------------------------------------
(* Reference: the messages that a stream of bytes consists of, and what is *)
(* left at its end.                                                        *)
Messages[b \in Seq(Byte)] ==
  IF HasMessage(b) THEN <<FirstMessage(b)>> \o Messages[AfterFirst(b)] ELSE <<>>
=============================================================================
