---------------------------- MODULE SockBufIndex ----------------------------
(***************************************************************************)
(* The index arithmetic of the class SockBuf (libnet/src/sockbuf.cpp).     *)
(* A buffer is a record [size, rd, wr] for the members m_size,             *)
(* m_read_index and m_write_index: the readable bytes are those at the     *)
(* offsets rd .. wr-1, the bytes at wr .. size-1 can be written.           *)
(*                                                                         *)
(* SockBuf.tla adds the memory; IocpService.tla uses these operators for   *)
(* the three buffers of a connection.                                      *)
(***************************************************************************)
EXTENDS Naturals

SockBufType == [size : Nat, rd : Nat, wr : Nat]

(* The constructor: an empty buffer of the given size. *)
NewSockBuf(size) == [size |-> size, rd |-> 0, wr |-> 0]

(* Deviation: the read index is not reset. *)
Reset_KeepsReadIndex(b) == [b EXCEPT !.wr = 0]

(* reset() forgets the content and keeps the memory. *)
Reset(b) == [size |-> b.size, rd |-> 0, wr |-> 0]

(* readableBytes() and writableBytes(), for a buffer whose indices are in  *)
(* order: with a negative difference both throw.                           *)
ReadableBytes(b) == b.wr - b.rd
WritableBytes(b) == b.size - b.wr

(* Deviation: the index moves the wrong way. *)
ReadMove_Backwards(b, len) == [b EXCEPT !.rd = @ - len]

(* Deviation: the test is off by one. *)
ReadMoveThrows_OffByOne(b, len) == b.rd + len >= b.wr

(* readMove(len): the index moves first, then the code throws when it has  *)
(* passed the write index.                                                 *)
ReadMove(b, len) == [b EXCEPT !.rd = @ + len]
ReadMoveThrows(b, len) == b.rd + len > b.wr

(* writeMove(len), which throws when the index passes the size. *)
WriteMove(b, len) == [b EXCEPT !.wr = @ + len]
WriteMoveThrows(b, len) == b.wr + len > b.size

(* Deviation: the room in front of the content is not counted. *)
Grows_IgnoresFront(b, len) == WritableBytes(b) < len

(* makeSpace(len) allocates when even the room in front of the unread      *)
(* bytes does not help, else it moves them to the front.                   *)
Grows(b, len) == WritableBytes(b) + b.rd < len

(* Deviation: the new block has no room for the old content. *)
MakeSpace_TooSmall(b, len) ==
  [size |-> IF Grows(b, len) THEN len ELSE b.size, rd |-> 0, wr |-> ReadableBytes(b)]

MakeSpace(b, len) ==
  [size |-> IF Grows(b, len) THEN b.wr + len ELSE b.size,
   rd   |-> 0,
   wr   |-> ReadableBytes(b)]

EnsureWritableBytes(b, len) ==
  IF WritableBytes(b) < len THEN MakeSpace(b, len) ELSE b

(* apendBuf(buf, len) *)
ApendBuf(b, len) == WriteMove(EnsureWritableBytes(b, len), len)

(* The indices are in order: what every operation above assumes. *)
WellFormed(b) == b \in SockBufType /\ b.rd <= b.wr /\ b.wr <= b.size
=============================================================================
