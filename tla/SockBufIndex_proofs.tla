------------------------ MODULE SockBufIndex_proofs ------------------------
(***************************************************************************)
(* Facts about the operators of SockBufIndex.tla: every operation keeps    *)
(* the indices of a buffer in order, making room keeps the content, and    *)
(* the room made is enough.  The proofs about SockBuf.tla and              *)
(* IocpService.tla rest on them.                                           *)
(***************************************************************************)
EXTENDS SockBufIndex, TLAPS

(* A buffer in order has a natural number of bytes to read and to write.   *)
LEMMA RoomIsNat ==
  ASSUME NEW b, WellFormed(b)
  PROVE  /\ ReadableBytes(b) \in Nat
         /\ WritableBytes(b) \in Nat
         /\ b.rd + ReadableBytes(b) = b.wr
         /\ b.wr + WritableBytes(b) = b.size
BY DEF WellFormed, SockBufType, ReadableBytes, WritableBytes

(* A new buffer and a reset one are in order. *)
LEMMA NewSockBufWellFormed ==
  ASSUME NEW n \in Nat
  PROVE  WellFormed(NewSockBuf(n))
BY DEF WellFormed, SockBufType, NewSockBuf

LEMMA ResetWellFormed ==
  ASSUME NEW b, WellFormed(b)
  PROVE  /\ WellFormed(Reset(b))
         /\ Reset(b).size = b.size
         /\ ReadableBytes(Reset(b)) = 0
BY DEF WellFormed, SockBufType, Reset, ReadableBytes

(* makeSpace keeps the content, moves it to the front and makes the room.  *)
LEMMA MakeSpaceWellFormed ==
  ASSUME NEW b, WellFormed(b), NEW len \in Nat
  PROVE  /\ WellFormed(MakeSpace(b, len))
         /\ MakeSpace(b, len).rd = 0
         /\ MakeSpace(b, len).wr = ReadableBytes(b)
         /\ len <= WritableBytes(MakeSpace(b, len))
         /\ ReadableBytes(MakeSpace(b, len)) = ReadableBytes(b)
         /\ b.size <= MakeSpace(b, len).size
BY DEF WellFormed, SockBufType, MakeSpace, Grows, ReadableBytes, WritableBytes

(* ensureWritableBytes keeps the content and makes the room.  This is why  *)
(* apendBuf never throws.                                                  *)
LEMMA EnsureWellFormed ==
  ASSUME NEW b, WellFormed(b), NEW len \in Nat
  PROVE  /\ WellFormed(EnsureWritableBytes(b, len))
         /\ len <= WritableBytes(EnsureWritableBytes(b, len))
         /\ ReadableBytes(EnsureWritableBytes(b, len)) = ReadableBytes(b)
         /\ ~WriteMoveThrows(EnsureWritableBytes(b, len), len)
<1>1. /\ WellFormed(EnsureWritableBytes(b, len))
      /\ len <= WritableBytes(EnsureWritableBytes(b, len))
      /\ ReadableBytes(EnsureWritableBytes(b, len)) = ReadableBytes(b)
  <2>1. WritableBytes(b) \in Nat
    BY RoomIsNat
  <2>2. CASE WritableBytes(b) < len
    BY <2>2, MakeSpaceWellFormed DEF EnsureWritableBytes
  <2>3. CASE ~(WritableBytes(b) < len)
    BY <2>1, <2>3 DEF EnsureWritableBytes
  <2> QED
    BY <2>2, <2>3
<1>2. ~WriteMoveThrows(EnsureWritableBytes(b, len), len)
  <2> DEFINE r == EnsureWritableBytes(b, len)
  <2>1. WellFormed(r) /\ len <= WritableBytes(r)
    BY <1>1
  <2> HIDE DEF r
  <2>2. ~WriteMoveThrows(r, len)
    BY <2>1 DEF WellFormed, SockBufType, WritableBytes, WriteMoveThrows
  <2> QED
    BY <2>2 DEF r
<1> QED
  BY <1>1, <1>2

(* Writing into the room there is, and reading what there is, keep the     *)
(* order.                                                                  *)
LEMMA WriteMoveWellFormed ==
  ASSUME NEW b, WellFormed(b), NEW len \in Nat, ~WriteMoveThrows(b, len)
  PROVE  /\ WellFormed(WriteMove(b, len))
         /\ ReadableBytes(WriteMove(b, len)) = ReadableBytes(b) + len
BY DEF WellFormed, SockBufType, WriteMove, WriteMoveThrows, ReadableBytes

LEMMA ReadMoveWellFormed ==
  ASSUME NEW b, WellFormed(b), NEW len \in Nat, ~ReadMoveThrows(b, len)
  PROVE  /\ WellFormed(ReadMove(b, len))
         /\ ReadableBytes(ReadMove(b, len)) = ReadableBytes(b) - len
BY DEF WellFormed, SockBufType, ReadMove, ReadMoveThrows, ReadableBytes

LEMMA ApendBufWellFormed ==
  ASSUME NEW b, WellFormed(b), NEW len \in Nat
  PROVE  /\ WellFormed(ApendBuf(b, len))
         /\ ReadableBytes(ApendBuf(b, len)) = ReadableBytes(b) + len
BY EnsureWellFormed, WriteMoveWellFormed DEF ApendBuf
=============================================================================
