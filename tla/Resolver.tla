------------------------------ MODULE Resolver ------------------------------
(***************************************************************************)
(* Datagrams that end in a tag: DatagramResolver.Resolve, and how          *)
(* TcpSvr.ReceiveData uses it.  What is left of one piece is kept in       *)
(* Session.Datagram and put in front of the next, and is dropped when it   *)
(* is too long.                                                            *)
(*                                                                         *)
(* The network carries bytes, the resolver sees characters, and each piece *)
(* is decoded by itself.  A character is the sequence of its bytes: one,   *)
(* or two of which the first tells, as in the Default encoding of a        *)
(* Chinese Windows (code page 936).  There the second byte may be one that *)
(* is a letter or a bracket by itself, or may be a first byte.             *)
(***************************************************************************)
EXTENDS Naturals, SequencesExt

CONSTANTS Char,         \* the characters a client sends
          Lead,         \* the bytes that begin a character of two
          Tag,          \* endTag
          MaxStream,    \* a client sends so many characters at most
          MaxDatagramSize

Byte == UNION {Range(c) : c \in Char}
Bad == "?"              \* what is read for half a character

ResolverAssumption ==
  /\ Char \subseteq {<<b>> : b \in Byte \ Lead} \cup (Lead \X Byte)
  /\ Tag \in Seq(Char) /\ Tag # <<>>
  /\ MaxStream \in Nat /\ MaxDatagramSize \in Nat

(* What decoding can give, also of bytes that were never sent as a pair.   *)
Character == {<<b>> : b \in Byte \cup {Bad}} \cup (Lead \X Byte)

NotFound == 0

(* String.IndexOf(Tag, from), counted from 1. *)
IndexOf(text, from) ==
  LET Here == {i \in from..(Len(text) - Len(Tag) + 1) :
                 SubSeq(text, i, i + Len(Tag) - 1) = Tag}
  IN IF Here = {} THEN NotFound ELSE Min(Here)

(* The loop of Resolve on what is left of the text looks for the tag from  *)
(* a given place.                                                          *)

(* Deviation: it looks one character further. *)
Start_Further(first) == IF first THEN 1 ELSE 3

(* After the first datagram it looks from the second character on. *)
Start(first) == IF first THEN 1 ELSE 2

Rest(text, i) == SubSeq(text, i + Len(Tag), Len(text))

(* Deviation: the character after the tag is lost. *)
Rest_OneLess(text, i) == SubSeq(text, i + Len(Tag) + 1, Len(text))

First(text, i) == SubSeq(text, 1, i + Len(Tag) - 1)

(* Deviation: the datagram without its tag. *)
First_NoTag(text, i) == SubSeq(text, 1, i - 1)

Resolve[text \in Seq(Character), first \in BOOLEAN] ==
  LET i    == IndexOf(text, Start(first))
      more == Resolve[Rest(text, i), FALSE]
  IN IF i = NotFound THEN [datagrams |-> <<>>, rest |-> text]
     ELSE [datagrams |-> <<First(text, i)>> \o more.datagrams, rest |-> more.rest]

(* GetEncodingString: the characters of the bytes of one receive.  A first *)
(* byte at the end has lost its second, and is read as "?".                *)
GetEncodingString[bytes \in Seq(Byte)] ==
  LET n == IF bytes[1] \in Lead THEN 2 ELSE 1
  IN IF bytes = <<>> THEN <<>>
     ELSE IF n > Len(bytes) THEN << <<Bad>> >>
     ELSE <<SubSeq(bytes, 1, n)>> \o GetEncodingString[SubSeq(bytes, n + 1, Len(bytes))]

-----------------------------------------------------------------------------
VARIABLES
  stream,               \* what the client sends in all
  arrived,              \* how many bytes of it have arrived
  Datagram,             \* Session.Datagram
  raised,               \* the datagrams of the RecvData events
  dropped,              \* a rest was too long
  torn                  \* a receive ended inside of a character

vars == <<stream, arrived, Datagram, raised, dropped, torn>>

Streams == UNION {[1..k -> Char] : k \in 0..MaxStream}
Bytes(text) == FlattenSeq(text)

Init ==
  /\ stream \in Streams
  /\ arrived = 0 /\ Datagram = <<>> /\ raised = <<>> /\ dropped = FALSE /\ torn = FALSE

(* What stays in the session: a rest that is too long is forgotten. *)
Kept(rest) == IF Len(rest) > MaxDatagramSize THEN <<>> ELSE rest

Boundary(n) == \E k \in 0..Len(stream) : Len(Bytes(SubSeq(stream, 1, k))) = n

(* ReceiveData, of the next n bytes. *)
ReceiveData(n) ==
  LET piece == SubSeq(Bytes(stream), arrived + 1, arrived + n)
      result == Resolve[Datagram \o GetEncodingString[piece], TRUE]
  IN /\ arrived' = arrived + n
     /\ raised' = raised \o result.datagrams
     /\ Datagram' = Kept(result.rest)
     /\ dropped' = (dropped \/ Len(result.rest) > MaxDatagramSize)
     /\ torn' = (torn \/ ~Boundary(arrived + n))
     /\ UNCHANGED stream

Next == \E n \in 1..(Len(Bytes(stream)) - arrived) : ReceiveData(n)

Spec == Init /\ [][Next]_vars

-----------------------------------------------------------------------------
(* The types of the variables. *)
TypeOK ==
  /\ stream \in Streams /\ arrived \in 0..Len(Bytes(stream))
  /\ Datagram \in Seq(Character) /\ Len(Datagram) <= MaxDatagramSize
  /\ dropped \in BOOLEAN /\ torn \in BOOLEAN
  /\ raised \in Seq(Seq(Character))

(* However the stream is cut, the datagrams and the rest together are what *)
(* has arrived, in order.  While no receive ends inside of a character     *)
(* they are its characters, none lost, doubled or moved.  Otherwise they   *)
(* are still its bytes, except that first bytes may have become "?"; but   *)
(* the bytes may be taken for other characters, and so for other           *)
(* datagrams, than were sent.                                              *)
NothingLost ==
  LET text == FlattenSeq(raised) \o Datagram
      read == Bytes(text)
      sent == Bytes(stream)
  IN ~dropped =>
       /\ Len(read) = arrived
       /\ ~torn => IsPrefix(text, stream)
       /\ \A k \in 1..arrived : read[k] # sent[k] => read[k] = Bad /\ sent[k] \in Lead

Occurrences(text) ==
  {i \in 1..(Len(text) - Len(Tag) + 1) : SubSeq(text, i, i + Len(Tag) - 1) = Tag}

(* A datagram ends in the tag, also one whose tag came in two pieces. *)
EndsInTag == \A k \in DOMAIN raised : IsSuffix(Tag, raised[k])

(* A datagram that is not empty is never glued to the one before it: two   *)
(* datagrams in one stand there only because the first was a tag alone.    *)
GluedIsEmpty ==
  \A k \in DOMAIN raised :
    \A i \in Occurrences(raised[k]) :
      i + Len(Tag) - 1 < Len(raised[k]) => i = 1
=============================================================================
