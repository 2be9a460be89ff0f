--------------------------- MODULE SockBuf_proofs ---------------------------
(***************************************************************************)
(* What SockBuf.tla promises, proved for every set of bytes, every initial *)
(* size and all bounds.  The inductive invariant is IInv: the indices are  *)
(* in order until an exception, the memory has the size the indices say,   *)
(* and what lies between the indices was written.                          *)
(***************************************************************************)
EXTENDS SockBuf, SockBufIndex_proofs, SequenceTheorems

Val == Byte \cup {Undefined}

(* m is a memory for a buffer of the given size. *)
IsMem(m, size) == m \in [0..(size - 1) -> Val]

(* The unread bytes of b in m are all written. *)
Written(b, m) == \A k \in b.rd..(b.wr - 1) : m[k] \in Byte

IInv ==
  /\ thrown \in BOOLEAN
  /\ buf \in SockBufType
  /\ IsMem(mem, buf.size)
  /\ SizeBounded
  /\ ~thrown => /\ WellFormed(buf)
                /\ ReadableBytes(buf) <= MaxReadable
                /\ Written(buf, mem)

-----------------------------------------------------------------------------
(* A piece is a sequence of at most MaxLen bytes. *)
LEMMA PieceIsSeq ==
  ASSUME NEW bytes \in Piece
  PROVE  /\ bytes \in Seq(Byte)
         /\ Len(bytes) \in 0..MaxLen
         /\ Len(bytes) \in Nat
         /\ \A i \in 1..Len(bytes) : bytes[i] \in Byte
<1>1. PICK n \in 0..MaxLen : bytes \in [1..n -> Byte]
  BY DEF Piece
<1>2. n \in Nat /\ n <= MaxLen
  BY <1>1, SizeAssumption
<1>3. bytes \in Seq(Byte) /\ Len(bytes) = n
  BY <1>1, <1>2
<1> QED
  BY <1>1, <1>2, <1>3

(* Making room moves the unread bytes and loses none of them, whether it   *)
(* allocates or moves within the block.                                    *)
LEMMA MemWithRoomKeepsContent ==
  ASSUME WellFormed(buf), IsMem(mem, buf.size), NEW len \in Nat
  PROVE  LET b == EnsureWritableBytes(buf, len)
             m == MemWithRoom(buf, len)
         IN  /\ IsMem(m, b.size)
             /\ \A j \in 0..(ReadableBytes(buf) - 1) : m[b.rd + j] = mem[buf.rd + j]
<1>1. WritableBytes(buf) \in Nat /\ ReadableBytes(buf) \in Nat
  BY RoomIsNat
<1>2. CASE ~(WritableBytes(buf) < len)
  BY <1>2 DEF EnsureWritableBytes, MemWithRoom
<1>3. CASE WritableBytes(buf) < len
  <2> DEFINE b == MakeSpace(buf, len)
             m == MovedMem(buf, len)
  <2>1. b = EnsureWritableBytes(buf, len) /\ m = MemWithRoom(buf, len)
    BY <1>3 DEF EnsureWritableBytes, MemWithRoom
  <2>2. /\ WellFormed(b)
        /\ b.rd = 0 /\ b.wr = ReadableBytes(buf)
        /\ buf.size <= b.size
    BY MakeSpaceWellFormed
  <2>3. ~Grows(buf, len) => b.size = buf.size
    BY DEF MakeSpace
  <2>4. m = [k \in 0..(b.size - 1) |->
               IF k < ReadableBytes(buf) THEN mem[buf.rd + k]
               ELSE IF Grows(buf, len) THEN Undefined ELSE mem[k]]
    BY DEF MovedMem
  <2> HIDE DEF b, m
  <2>5. \A k \in 0..(ReadableBytes(buf) - 1) : buf.rd + k \in 0..(buf.size - 1)
    BY <1>1 DEF WellFormed, SockBufType, ReadableBytes
  <2>6. IsMem(m, b.size)
    <3>1. \A k \in 0..(b.size - 1) :
             (IF k < ReadableBytes(buf) THEN mem[buf.rd + k]
              ELSE IF Grows(buf, len) THEN Undefined ELSE mem[k]) \in Val
      <4> SUFFICES ASSUME NEW k \in 0..(b.size - 1)
                   PROVE  (IF k < ReadableBytes(buf) THEN mem[buf.rd + k]
                           ELSE IF Grows(buf, len) THEN Undefined ELSE mem[k]) \in Val
        OBVIOUS
      <4>1. CASE k < ReadableBytes(buf)
        BY <1>1, <2>5, <4>1 DEF IsMem
      <4>2. CASE ~(k < ReadableBytes(buf)) /\ Grows(buf, len)
        BY <4>2 DEF Val
      <4>3. CASE ~(k < ReadableBytes(buf)) /\ ~Grows(buf, len)
        BY <2>3, <4>3 DEF IsMem
      <4> QED
        BY <4>1, <4>2, <4>3
    <3> QED
      BY <2>4, <3>1 DEF IsMem
  <2>7. \A j \in 0..(ReadableBytes(buf) - 1) : m[b.rd + j] = mem[buf.rd + j]
    <3> SUFFICES ASSUME NEW j \in 0..(ReadableBytes(buf) - 1)
                 PROVE  m[b.rd + j] = mem[buf.rd + j]
      OBVIOUS
    <3>1. j \in 0..(b.size - 1) /\ j < ReadableBytes(buf) /\ b.rd + j = j
      BY <1>1, <2>2 DEF WellFormed, SockBufType
    <3> QED
      BY <2>4, <3>1
  <2> QED
    BY <2>1, <2>6, <2>7
<1> QED
  BY <1>2, <1>3

(* Storing a piece in the room behind the write index. *)
LEMMA StoreFacts ==
  ASSUME NEW b, WellFormed(b), NEW m, IsMem(m, b.size),
         NEW bytes \in Piece, Len(bytes) <= WritableBytes(b)
  PROVE  /\ IsMem(Store(m, b.wr, bytes), b.size)
         /\ \A k \in 0..(b.wr - 1) : Store(m, b.wr, bytes)[k] = m[k]
         /\ \A i \in 1..Len(bytes) : Store(m, b.wr, bytes)[b.wr + i - 1] = bytes[i]
<1> DEFINE s == Store(m, b.wr, bytes)
<1>1. /\ Len(bytes) \in Nat
      /\ \A i \in 1..Len(bytes) : bytes[i] \in Byte
  BY PieceIsSeq
<1>2. /\ b.wr \in Nat /\ b.size \in Nat
      /\ b.wr + Len(bytes) <= b.size
  BY <1>1 DEF WellFormed, SockBufType, WritableBytes
<1>3. DOMAIN m = 0..(b.size - 1) /\ \A k \in 0..(b.size - 1) : m[k] \in Val
  BY DEF IsMem
<1>4. s = [k \in 0..(b.size - 1) |->
             IF b.wr <= k /\ k < b.wr + Len(bytes) THEN bytes[k - b.wr + 1] ELSE m[k]]
  BY <1>3 DEF Store
<1> HIDE DEF s
<1>5. \A k \in 0..(b.size - 1) : b.wr <= k /\ k < b.wr + Len(bytes)
                                   => k - b.wr + 1 \in 1..Len(bytes)
  BY <1>1, <1>2
<1>6. \A k \in 0..(b.size - 1) : s[k] \in Val
  BY <1>1, <1>3, <1>4, <1>5 DEF Val
<1>7. IsMem(s, b.size)
  BY <1>4, <1>6 DEF IsMem
<1>8. \A k \in 0..(b.wr - 1) : s[k] = m[k]
  BY <1>1, <1>2, <1>4
<1>9. \A i \in 1..Len(bytes) : s[b.wr + i - 1] = bytes[i]
  <2> SUFFICES ASSUME NEW i \in 1..Len(bytes)
               PROVE  s[b.wr + i - 1] = bytes[i]
    OBVIOUS
  <2>1. /\ b.wr + i - 1 \in 0..(b.size - 1)
        /\ b.wr <= b.wr + i - 1 /\ b.wr + i - 1 < b.wr + Len(bytes)
        /\ (b.wr + i - 1) - b.wr + 1 = i
    BY <1>1, <1>2
  <2> QED
    BY <1>4, <2>1
<1> QED
  BY <1>7, <1>8, <1>9 DEF s

(* A buffer grows only if the unread bytes and the free ones in front of   *)
(* and behind them are fewer than asked for.                               *)
BoundedSize(size) == size <= InitSize \/ size < MaxReadable + 2 * MaxLen

LEMMA GrowthIsBounded ==
  ASSUME NEW b, WellFormed(b), BoundedSize(b.size), ReadableBytes(b) <= MaxReadable,
         NEW len \in 0..MaxLen
  PROVE  BoundedSize(EnsureWritableBytes(b, len).size)
<1>1. CASE WritableBytes(b) < len /\ Grows(b, len)
  <2>1. EnsureWritableBytes(b, len).size = b.wr + len
    BY <1>1 DEF EnsureWritableBytes, MakeSpace
  <2>2. b.wr + len < MaxReadable + 2 * MaxLen
    BY <1>1, SizeAssumption
    DEF WellFormed, SockBufType, Grows, ReadableBytes, WritableBytes
  <2> QED
    BY <2>1, <2>2 DEF BoundedSize
<1>2. CASE WritableBytes(b) < len /\ ~Grows(b, len)
  BY <1>2 DEF EnsureWritableBytes, MakeSpace
<1>3. CASE ~(WritableBytes(b) < len)
  BY <1>3 DEF EnsureWritableBytes
<1> QED
  BY <1>1, <1>2, <1>3

-----------------------------------------------------------------------------
(* The content as a function of the indices and the memory. *)
ContentOf(b, m) == [i \in 1..ReadableBytes(b) |-> m[b.rd + i - 1]]

LEMMA ContentIsContentOf == Content = ContentOf(buf, mem)
BY DEF Content, ContentOf, ReadableBytes

LEMMA ContentIsSeq ==
  ASSUME NEW b, WellFormed(b), NEW m, Written(b, m)
  PROVE  /\ ContentOf(b, m) \in Seq(Byte)
         /\ Len(ContentOf(b, m)) = ReadableBytes(b)
<1>1. ReadableBytes(b) \in Nat
  BY RoomIsNat
<1>2. \A i \in 1..ReadableBytes(b) : b.rd + i - 1 \in b.rd..(b.wr - 1)
  BY DEF WellFormed, SockBufType, ReadableBytes
<1>3. ContentOf(b, m) \in [1..ReadableBytes(b) -> Byte]
  BY <1>2 DEF ContentOf, Written
<1> QED
  BY <1>1, <1>3

(* Making room leaves the content as it is. *)
LEMMA RoomIsInvisible ==
  ASSUME WellFormed(buf), IsMem(mem, buf.size), Written(buf, mem), NEW len \in Nat
  PROVE  LET b == EnsureWritableBytes(buf, len)
             m == MemWithRoom(buf, len)
         IN  Written(b, m) /\ ContentOf(b, m) = ContentOf(buf, mem)
<1> DEFINE b == EnsureWritableBytes(buf, len)
           m == MemWithRoom(buf, len)
<1>1. WellFormed(b) /\ ReadableBytes(b) = ReadableBytes(buf)
  BY EnsureWellFormed
<1>2. \A j \in 0..(ReadableBytes(buf) - 1) : m[b.rd + j] = mem[buf.rd + j]
  BY MemWithRoomKeepsContent
<1> HIDE DEF b, m
<1>3. \A k \in b.rd..(b.wr - 1) :
         /\ k - b.rd \in 0..(ReadableBytes(buf) - 1)
         /\ b.rd + (k - b.rd) = k
         /\ buf.rd + (k - b.rd) \in buf.rd..(buf.wr - 1)
  BY <1>1 DEF WellFormed, SockBufType, ReadableBytes
<1>4. Written(b, m)
  <2> SUFFICES ASSUME NEW k \in b.rd..(b.wr - 1)
               PROVE  m[k] \in Byte
    BY DEF Written
  <2>1. m[k] = mem[buf.rd + (k - b.rd)]
    BY <1>2, <1>3
  <2> QED
    BY <1>3, <2>1 DEF Written
<1>5. ContentOf(b, m) = ContentOf(buf, mem)
  <2>1. \A i \in 1..ReadableBytes(buf) : m[b.rd + i - 1] = mem[buf.rd + i - 1]
    <3> SUFFICES ASSUME NEW i \in 1..ReadableBytes(buf)
                 PROVE  m[b.rd + i - 1] = mem[buf.rd + i - 1]
      OBVIOUS
    <3>1. /\ i - 1 \in 0..(ReadableBytes(buf) - 1)
          /\ b.rd + (i - 1) = b.rd + i - 1
          /\ buf.rd + (i - 1) = buf.rd + i - 1
      BY <1>1, RoomIsNat DEF WellFormed, SockBufType
    <3> QED
      BY <1>2, <3>1
  <2> QED
    BY <1>1, <2>1 DEF ContentOf
<1> QED
  BY <1>4, <1>5 DEF b, m

(* What is left of a sequence without its first len elements. *)
LEMMA DropFirst ==
  ASSUME NEW q \in Seq(Byte), NEW len \in 0..Len(q)
  PROVE  /\ SubSeq(q, len + 1, Len(q)) \in Seq(Byte)
         /\ Len(SubSeq(q, len + 1, Len(q))) = Len(q) - len
         /\ \A i \in 1..(Len(q) - len) : SubSeq(q, len + 1, Len(q))[i] = q[len + i]
<1> DEFINE m == len + 1
           n == Len(q)
<1>1. m \in Int /\ n \in Int
  OBVIOUS
<1>2. \A i \in m..n : q[i] \in Byte
  BY ElementOfSeq
<1>3. /\ n - m + 1 = n - len
      /\ (IF m <= n THEN n - m + 1 ELSE 0) = n - len
      /\ \A i \in 1..(n - len) : m + i - 1 = len + i
  OBVIOUS
<1> HIDE DEF m, n
<1>4. /\ SubSeq(q, m, n) \in Seq(Byte)
      /\ Len(SubSeq(q, m, n)) = IF m <= n THEN n - m + 1 ELSE 0
      /\ \A i \in 1..(n - m + 1) : SubSeq(q, m, n)[i] = q[m + i - 1]
  BY <1>1, <1>2, SubSeqProperties
<1>5. /\ Len(SubSeq(q, m, n)) = n - len
      /\ \A i \in 1..(n - len) : SubSeq(q, m, n)[i] = q[len + i]
  BY <1>3, <1>4
<1> QED
  BY <1>4, <1>5 DEF m, n

(* A piece stored at the write index comes after the content. *)
LEMMA StoreAppends ==
  ASSUME NEW b, WellFormed(b), NEW m, IsMem(m, b.size), Written(b, m),
         NEW bytes \in Piece, Len(bytes) <= WritableBytes(b)
  PROVE  LET c == WriteMove(b, Len(bytes))
             n == Store(m, b.wr, bytes)
         IN  /\ WellFormed(c) /\ c.size = b.size /\ IsMem(n, c.size)
             /\ ReadableBytes(c) = ReadableBytes(b) + Len(bytes)
             /\ Written(c, n)
             /\ ContentOf(c, n) = ContentOf(b, m) \o bytes
<1> DEFINE c == WriteMove(b, Len(bytes))
           n == Store(m, b.wr, bytes)
<1>1. /\ bytes \in Seq(Byte) /\ Len(bytes) \in Nat
      /\ \A i \in 1..Len(bytes) : bytes[i] \in Byte
  BY PieceIsSeq
<1>2. ~WriteMoveThrows(b, Len(bytes))
  BY <1>1 DEF WellFormed, SockBufType, WritableBytes, WriteMoveThrows
<1>3. /\ WellFormed(c) /\ c.size = b.size
      /\ ReadableBytes(c) = ReadableBytes(b) + Len(bytes)
      /\ c.rd = b.rd /\ c.wr = b.wr + Len(bytes)
  BY <1>1, <1>2, WriteMoveWellFormed DEF WellFormed, SockBufType, WriteMove
<1>4. /\ IsMem(n, b.size)
      /\ \A k \in 0..(b.wr - 1) : n[k] = m[k]
      /\ \A i \in 1..Len(bytes) : n[b.wr + i - 1] = bytes[i]
  BY StoreFacts
<1> HIDE DEF c, n
<1>5. Written(c, n)
  <2> SUFFICES ASSUME NEW k \in c.rd..(c.wr - 1)
               PROVE  n[k] \in Byte
    BY DEF Written
  <2>1. CASE k < b.wr
    <3>1. k \in b.rd..(b.wr - 1) /\ k \in 0..(b.wr - 1)
      BY <1>3, <2>1 DEF WellFormed, SockBufType
    <3> QED
      BY <1>4, <3>1 DEF Written
  <2>2. CASE ~(k < b.wr)
    <3>1. k - b.wr + 1 \in 1..Len(bytes) /\ b.wr + (k - b.wr + 1) - 1 = k
      BY <1>1, <1>3, <2>2 DEF WellFormed, SockBufType
    <3> QED
      BY <1>1, <1>4, <3>1
  <2> QED
    BY <2>1, <2>2
<1>6. ContentOf(c, n) = ContentOf(b, m) \o bytes
  <2> DEFINE s == ContentOf(c, n)
             q == ContentOf(b, m)
  <2>1. /\ s \in Seq(Byte) /\ Len(s) = ReadableBytes(c)
        /\ q \in Seq(Byte) /\ Len(q) = ReadableBytes(b)
    BY <1>3, <1>5, ContentIsSeq
  <2>2. /\ q \o bytes \in Seq(Byte) /\ Len(q \o bytes) = Len(q) + Len(bytes)
        /\ \A i \in 1..(Len(q) + Len(bytes)) :
             (q \o bytes)[i] = IF i <= Len(q) THEN q[i] ELSE bytes[i - Len(q)]
    BY <1>1, <2>1, ConcatProperties
  <2>3. ReadableBytes(b) \in Nat
    BY RoomIsNat
  <2>4. \A i \in 1..ReadableBytes(c) : s[i] = n[b.rd + i - 1]
    BY <1>3 DEF ContentOf
  <2>5. \A i \in 1..ReadableBytes(b) : q[i] = m[b.rd + i - 1]
    BY DEF ContentOf
  <2> HIDE DEF s, q
  <2>6. \A i \in 1..Len(s) : s[i] = (q \o bytes)[i]
    <3> SUFFICES ASSUME NEW i \in 1..Len(s)
                 PROVE  s[i] = (q \o bytes)[i]
      OBVIOUS
    <3>1. i \in 1..ReadableBytes(c) /\ i \in 1..(Len(q) + Len(bytes))
      BY <1>1, <1>3, <2>1, <2>3
    <3>2. CASE i <= Len(q)
      <4>1. i \in 1..ReadableBytes(b) /\ b.rd + i - 1 \in 0..(b.wr - 1)
        BY <2>1, <3>1, <3>2 DEF WellFormed, SockBufType, ReadableBytes
      <4> QED
        BY <1>4, <2>2, <2>4, <2>5, <3>1, <3>2, <4>1
    <3>3. CASE ~(i <= Len(q))
      <4>1. i - Len(q) \in 1..Len(bytes)
        BY <1>1, <2>1, <2>3, <3>1, <3>3
      <4>2. b.wr + (i - Len(q)) - 1 = b.rd + i - 1
        <5>1. i \in Int /\ b.rd + ReadableBytes(b) = b.wr
          BY <3>1, RoomIsNat
        <5> QED
          BY <2>1, <2>3, <5>1 DEF WellFormed, SockBufType
      <4> QED
        BY <1>4, <2>2, <2>4, <3>1, <3>3, <4>1, <4>2
    <3> QED
      BY <3>2, <3>3
  <2>7. s = q \o bytes
    BY <1>3, <2>1, <2>2, <2>6, SeqEqual
  <2> QED
    BY <2>7 DEF s, q
<1> QED
  BY <1>3, <1>4, <1>5, <1>6 DEF c, n

-----------------------------------------------------------------------------
(* The abstract queue under the refinement mapping of SockBuf.tla. *)
AbsQ == IF thrown THEN <<>> ELSE Content

LEMMA InitStep == Init => IInv /\ Queue!Init
<1> SUFFICES ASSUME Init PROVE IInv /\ Queue!Init
  OBVIOUS
<1>1. /\ buf = [size |-> InitSize, rd |-> 0, wr |-> 0]
      /\ mem = [k \in 0..(InitSize - 1) |-> Undefined]
      /\ thrown = FALSE
  BY DEF Init, NewSockBuf
<1>2. buf \in SockBufType /\ WellFormed(buf)
  BY <1>1, SizeAssumption DEF SockBufType, WellFormed
<1>3. IsMem(mem, buf.size)
  BY <1>1 DEF IsMem, Val
<1>4. ReadableBytes(buf) = 0 /\ Written(buf, mem) /\ SizeBounded
  BY <1>1, SizeAssumption DEF ReadableBytes, Written, SizeBounded
<1>5. IInv
  <2>1. thrown \in BOOLEAN
    BY <1>1
  <2>2. ReadableBytes(buf) <= MaxReadable
    BY <1>4, SizeAssumption
  <2> QED
    BY <1>2, <1>3, <1>4, <2>1, <2>2 DEF IInv
<1>6. Content = <<>>
  BY <1>2, <1>4, ContentIsSeq, ContentIsContentOf, EmptySeq
<1> QED
  BY <1>1, <1>5, <1>6 DEF Queue!Init

(* reset() clears the queue. *)
LEMMA ResetStep ==
  ASSUME IInv, DoReset
  PROVE  IInv' /\ Queue!Clear
<1>1. /\ ~thrown /\ thrown' = thrown /\ mem' = mem /\ buf' = Reset(buf)
      /\ WellFormed(buf)
  BY DEF IInv, DoReset
<1>2. WellFormed(buf') /\ buf'.size = buf.size /\ ReadableBytes(buf') = 0
  BY <1>1, ResetWellFormed
<1>3. Written(buf', mem')
  BY <1>2 DEF Written, ReadableBytes, WellFormed, SockBufType
<1>4. IInv'
  BY <1>1, <1>2, <1>3, SizeAssumption DEF IInv, WellFormed, IsMem, SizeBounded, Written, ReadableBytes
<1>5. Content' = <<>>
  <2>1. Content' = ContentOf(buf', mem')
    BY DEF Content, ContentOf, ReadableBytes
  <2> QED
    BY <1>2, <1>3, <2>1, ContentIsSeq, EmptySeq
<1> QED
  BY <1>1, <1>4, <1>5 DEF Queue!Clear

(* ensureWritableBytes() cannot be seen. *)
LEMMA EnsureStep ==
  ASSUME IInv, NEW len \in 0..MaxLen, DoEnsure(len)
  PROVE  IInv' /\ UNCHANGED <<AbsQ, thrown>>
<1>1. /\ ~thrown /\ thrown' = thrown
      /\ buf' = EnsureWritableBytes(buf, len) /\ mem' = MemWithRoom(buf, len)
  BY DEF DoEnsure
<1>2. /\ len \in Nat /\ WellFormed(buf) /\ IsMem(mem, buf.size) /\ Written(buf, mem)
      /\ ReadableBytes(buf) <= MaxReadable /\ BoundedSize(buf.size)
  BY <1>1, SizeAssumption DEF IInv, SizeBounded, BoundedSize
<1>3. WellFormed(buf') /\ ReadableBytes(buf') = ReadableBytes(buf)
  BY <1>1, <1>2, EnsureWellFormed
<1>4. IsMem(mem', buf'.size)
  BY <1>1, <1>2, MemWithRoomKeepsContent
<1>5. Written(buf', mem') /\ ContentOf(buf', mem') = ContentOf(buf, mem)
  BY <1>1, <1>2, RoomIsInvisible
<1>6. BoundedSize(buf'.size)
  BY <1>1, <1>2, GrowthIsBounded
<1>7. IInv'
  BY <1>1, <1>2, <1>3, <1>4, <1>5, <1>6
  DEF IInv, WellFormed, IsMem, SizeBounded, BoundedSize, Written, ReadableBytes
<1>8. Content' = Content
  BY <1>5 DEF Content, ContentOf, ReadableBytes
<1> QED
  BY <1>1, <1>7, <1>8 DEF AbsQ

(* Bytes stored by a receive are put into the queue. *)
LEMMA ReceiveStep ==
  ASSUME IInv, NEW bytes \in Piece, DoReceive(bytes)
  PROVE  IInv' /\ Queue!Put(bytes)
<1>1. /\ ~thrown /\ Len(bytes) <= WritableBytes(buf)
      /\ ReadableBytes(buf) + Len(bytes) <= MaxReadable
      /\ buf' = WriteMove(buf, Len(bytes)) /\ mem' = Store(mem, buf.wr, bytes)
      /\ thrown' = WriteMoveThrows(buf, Len(bytes))
  BY DEF DoReceive
<1>2. /\ WellFormed(buf) /\ IsMem(mem, buf.size) /\ Written(buf, mem)
      /\ SizeBounded
  BY <1>1 DEF IInv
<1>3. /\ WellFormed(buf') /\ buf'.size = buf.size /\ IsMem(mem', buf'.size)
      /\ ReadableBytes(buf') = ReadableBytes(buf) + Len(bytes)
      /\ Written(buf', mem')
      /\ ContentOf(buf', mem') = ContentOf(buf, mem) \o bytes
  BY <1>1, <1>2, StoreAppends
<1>4. thrown = FALSE /\ thrown' = FALSE
  <2>1. ~WriteMoveThrows(buf, Len(bytes))
    BY <1>1, <1>2, PieceIsSeq DEF WellFormed, SockBufType, WritableBytes, WriteMoveThrows
  <2>2. WriteMoveThrows(buf, Len(bytes)) \in BOOLEAN /\ thrown \in BOOLEAN
    BY DEF WriteMoveThrows, IInv
  <2> QED
    BY <1>1, <2>1, <2>2
<1>5. IInv'
  BY <1>1, <1>2, <1>3, <1>4 DEF IInv, WellFormed, IsMem, SizeBounded, Written, ReadableBytes
<1>6. Content' = Content \o bytes
  BY <1>3 DEF Content, ContentOf, ReadableBytes
<1> QED
  BY <1>1, <1>4, <1>5, <1>6 DEF Queue!Put

(* So are those apendBuf() copies, after it has made room. *)
LEMMA ApendStep ==
  ASSUME IInv, NEW bytes \in Piece, DoApend(bytes)
  PROVE  IInv' /\ Queue!Put(bytes)
<1> DEFINE b == EnsureWritableBytes(buf, Len(bytes))
           m == MemWithRoom(buf, Len(bytes))
<1>1. /\ ~thrown /\ ReadableBytes(buf) + Len(bytes) <= MaxReadable
      /\ buf' = WriteMove(b, Len(bytes)) /\ mem' = Store(m, b.wr, bytes)
      /\ thrown' = WriteMoveThrows(b, Len(bytes))
  BY DEF DoApend, ApendBuf
<1>2. /\ WellFormed(buf) /\ IsMem(mem, buf.size) /\ Written(buf, mem)
      /\ ReadableBytes(buf) <= MaxReadable /\ BoundedSize(buf.size)
  BY <1>1 DEF IInv, SizeBounded, BoundedSize
<1>3. Len(bytes) \in 0..MaxLen /\ Len(bytes) \in Nat
  BY PieceIsSeq
<1>4. /\ WellFormed(b) /\ Len(bytes) <= WritableBytes(b)
      /\ ReadableBytes(b) = ReadableBytes(buf)
      /\ ~WriteMoveThrows(b, Len(bytes))
  BY <1>2, <1>3, EnsureWellFormed
<1>5. IsMem(m, b.size)
  BY <1>2, <1>3, MemWithRoomKeepsContent
<1>6. Written(b, m) /\ ContentOf(b, m) = ContentOf(buf, mem)
  BY <1>2, <1>3, RoomIsInvisible
<1>7. BoundedSize(b.size)
  BY <1>2, <1>3, GrowthIsBounded
<1> HIDE DEF b, m
<1>8. /\ WellFormed(buf') /\ buf'.size = b.size /\ IsMem(mem', buf'.size)
      /\ ReadableBytes(buf') = ReadableBytes(b) + Len(bytes)
      /\ Written(buf', mem')
      /\ ContentOf(buf', mem') = ContentOf(b, m) \o bytes
  BY <1>1, <1>4, <1>5, <1>6, StoreAppends
<1>9. thrown = FALSE /\ thrown' = FALSE
  <2>1. WriteMoveThrows(b, Len(bytes)) \in BOOLEAN /\ thrown \in BOOLEAN
    BY DEF WriteMoveThrows, IInv
  <2> QED
    BY <1>1, <1>4, <2>1
<1>10. IInv'
  BY <1>1, <1>4, <1>7, <1>8, <1>9
  DEF IInv, WellFormed, IsMem, SizeBounded, BoundedSize, Written, ReadableBytes
<1>11. Content' = Content \o bytes
  BY <1>6, <1>8 DEF Content, ContentOf, ReadableBytes
<1> QED
  BY <1>1, <1>9, <1>10, <1>11 DEF Queue!Put

(* readMove() takes bytes out, or more than there are: then it throws, and *)
(* it is the read index that is out of range.                              *)
LEMMA ReadMoveStep ==
  ASSUME IInv, NEW len \in 0..MaxLen, DoReadMove(len)
  PROVE  /\ IInv'
         /\ Queue!Refuse \/ \E n \in 0..Len(AbsQ) : Queue!Take(n)
         /\ thrown' => buf'.rd > buf'.wr /\ buf'.wr <= buf'.size
<1>1. /\ ~thrown /\ mem' = mem /\ buf' = ReadMove(buf, len)
      /\ thrown' = ReadMoveThrows(buf, len)
  BY DEF DoReadMove
<1>2. /\ WellFormed(buf) /\ IsMem(mem, buf.size) /\ Written(buf, mem)
      /\ ReadableBytes(buf) <= MaxReadable /\ SizeBounded
      /\ len \in Nat /\ thrown = FALSE
  BY <1>1, SizeAssumption DEF IInv
<1>3. /\ buf' \in SockBufType
      /\ buf'.size = buf.size /\ buf'.wr = buf.wr /\ buf'.rd = buf.rd + len
  BY <1>1, <1>2 DEF WellFormed, SockBufType, ReadMove
<1>4. IsMem(mem', buf'.size) /\ SizeBounded'
  BY <1>1, <1>2, <1>3 DEF IsMem, SizeBounded
<1>5. ReadMoveThrows(buf, len) \in BOOLEAN
  BY DEF ReadMoveThrows
<1>6. CASE ReadMoveThrows(buf, len)
  <2>1. thrown' = TRUE
    BY <1>1, <1>5, <1>6
  <2>2. IInv'
    BY <1>3, <1>4, <2>1 DEF IInv, IsMem
  <2>3. buf'.rd > buf'.wr /\ buf'.wr <= buf'.size
    BY <1>2, <1>3, <1>6 DEF WellFormed, SockBufType, ReadMoveThrows
  <2>4. Queue!Refuse
    BY <1>2, <2>1 DEF Queue!Refuse
  <2> QED
    BY <2>2, <2>3, <2>4
<1>7. CASE ~ReadMoveThrows(buf, len)
  <2>1. thrown' = FALSE
    BY <1>1, <1>5, <1>7
  <2>2. WellFormed(buf') /\ ReadableBytes(buf') = ReadableBytes(buf) - len
    BY <1>1, <1>2, <1>7, ReadMoveWellFormed
  <2>3. /\ Written(buf', mem')
        /\ ReadableBytes(buf) \in Nat /\ ReadableBytes(buf') \in Nat
        /\ len <= ReadableBytes(buf)
    BY <1>1, <1>2, <1>3, <2>2 DEF Written, WellFormed, SockBufType, ReadableBytes
  <2>4. ReadableBytes(buf') <= MaxReadable
    BY <1>2, <2>2, <2>3, SizeAssumption
  <2>5. IInv'
    BY <1>3, <1>4, <2>1, <2>2, <2>3, <2>4
    DEF IInv, IsMem, WellFormed, Written, ReadableBytes
  <2> DEFINE q == ContentOf(buf, mem)
             r == ContentOf(buf', mem')
  <2>6. /\ q \in Seq(Byte) /\ Len(q) = ReadableBytes(buf)
        /\ r \in Seq(Byte) /\ Len(r) = ReadableBytes(buf) - len
    BY <1>2, <2>2, <2>3, ContentIsSeq
  <2>7. r = SubSeq(q, len + 1, Len(q))
    <3>2. /\ SubSeq(q, len + 1, Len(q)) \in Seq(Byte)
          /\ Len(SubSeq(q, len + 1, Len(q))) = Len(q) - len
          /\ \A i \in 1..(Len(q) - len) : SubSeq(q, len + 1, Len(q))[i] = q[len + i]
      <4>1. len \in 0..Len(q)
        BY <1>2, <2>3, <2>6
      <4> HIDE DEF q
      <4> QED
        BY <2>6, <4>1, DropFirst
    <3>3. \A i \in 1..ReadableBytes(buf) : q[i] = mem[buf.rd + i - 1]
      BY DEF ContentOf
    <3>4. \A i \in 1..ReadableBytes(buf') : r[i] = mem[buf.rd + len + i - 1]
      BY <1>1, <1>3 DEF ContentOf
    <3> HIDE DEF q, r
    <3>5. \A i \in 1..Len(r) : r[i] = SubSeq(q, len + 1, Len(q))[i]
      <4> SUFFICES ASSUME NEW i \in 1..Len(r)
                   PROVE  r[i] = SubSeq(q, len + 1, Len(q))[i]
        OBVIOUS
      <4>1. /\ i \in 1..(Len(q) - len) /\ i \in 1..ReadableBytes(buf')
            /\ len + i \in 1..ReadableBytes(buf)
        BY <1>2, <2>2, <2>3, <2>6
      <4>2. buf.rd + (len + i) - 1 = buf.rd + len + i - 1
        BY <1>2, <4>1 DEF WellFormed, SockBufType
      <4> QED
        BY <3>2, <3>3, <3>4, <4>1, <4>2
    <3> QED
      BY <2>6, <3>2, <3>5, SeqEqual
  <2>8. Content = q /\ Content' = r
    BY DEF Content, ContentOf, ReadableBytes
  <2>9. Queue!Take(len) /\ len \in 0..Len(AbsQ)
    <3> HIDE DEF q, r
    <3>1. AbsQ = q /\ len \in 0..Len(q)
      BY <1>2, <2>3, <2>6, <2>8 DEF AbsQ
    <3>2. Content' = SubSeq(Content, len + 1, Len(Content))
      BY <2>7, <2>8
    <3>3. len \in 0..Len(Content) /\ len <= Len(Content)
      BY <2>3, <2>6, <2>8, <3>1
    <3>4. AbsQ = Content /\ AbsQ' = Content'
      BY <1>2, <2>1 DEF AbsQ
    <3>5. /\ ~thrown /\ thrown' = thrown /\ len <= Len(AbsQ)
          /\ AbsQ' = SubSeq(AbsQ, len + 1, Len(AbsQ))
      BY <1>2, <2>1, <3>2, <3>3, <3>4
    <3> QED
      BY <3>1, <3>4, <3>3, <3>5 DEF Queue!Take, AbsQ
  <2> QED
    BY <2>1, <2>5, <2>9
<1> QED
  BY <1>6, <1>7

(* What every step does: it keeps the invariant, is a step or a stutter of *)
(* the queue, and throws only by reading too much.                         *)
StepOK ==
  /\ IInv'
  /\ [Queue!Next]_<<AbsQ, thrown>>
  /\ thrown' /\ ~thrown => buf'.rd > buf'.wr /\ buf'.wr <= buf'.size

LEMMA NextStep ==
  ASSUME IInv, [Next]_vars
  PROVE  StepOK
<1>1. CASE DoReset
  <2>1. ~(thrown' /\ ~thrown)
    BY <1>1 DEF DoReset
  <2> QED
    BY <1>1, <2>1, ResetStep DEF StepOK, Queue!Next
<1>2. ASSUME NEW len \in 0..MaxLen, DoEnsure(len) PROVE StepOK
  <2>1. ~(thrown' /\ ~thrown)
    BY <1>2 DEF DoEnsure
  <2> QED
    BY <1>2, <2>1, EnsureStep DEF StepOK
<1>3. ASSUME NEW bytes \in Piece, DoReceive(bytes) \/ DoApend(bytes) PROVE StepOK
  <2>1. IInv' /\ Queue!Put(bytes)
    BY <1>3, ReceiveStep, ApendStep
  <2>2. ~(thrown' /\ ~thrown)
    BY <2>1 DEF Queue!Put
  <2> QED
    BY <2>1, <2>2 DEF StepOK, Queue!Next
<1>4. ASSUME NEW len \in 0..MaxLen, DoReadMove(len) PROVE StepOK
  <2>1. Queue!Next
    BY <1>4, ReadMoveStep DEF Queue!Next, AbsQ
  <2> QED
    BY <1>4, <2>1, ReadMoveStep DEF StepOK
<1>5. CASE Stopped \/ UNCHANGED vars
  <2>1. buf' = buf /\ mem' = mem /\ thrown' = thrown
    BY <1>5 DEF Stopped, vars
  <2>2. IInv'
    BY <2>1 DEF IInv, IsMem, SizeBounded, WellFormed, Written, ReadableBytes
  <2>3. AbsQ' = AbsQ
    BY <2>1 DEF AbsQ, Content
  <2> QED
    BY <2>1, <2>2, <2>3 DEF StepOK
<1> QED
  BY <1>1, <1>2, <1>3, <1>4, <1>5 DEF Next

-----------------------------------------------------------------------------
(* The invariant holds in every state. *)
THEOREM Invariance == Spec => []IInv
<1>1. Init => IInv
  BY InitStep
<1>2. IInv /\ [Next]_vars => IInv'
  BY NextStep DEF StepOK
<1> QED
  BY <1>1, <1>2, PTL DEF Spec

(* The state has its type: the memory block always has the size that the   *)
(* member m_size claims.                                                   *)
THEOREM TypeCorrect == Spec => []TypeOK
<1>1. IInv => TypeOK
  BY DEF IInv, TypeOK, IsMem, Val
<1> QED
  BY <1>1, Invariance, PTL

(* Until an exception the read index is at most the write index and that   *)
(* at most the size, for any sequence of calls.                            *)
THEOREM IndicesStayInOrder == Spec => []IndicesInOrder
<1>1. IInv => IndicesInOrder
  BY DEF IInv, IndicesInOrder
<1> QED
  BY <1>1, Invariance, PTL

(* No reader of the buffer gets a byte that nobody stored.                 *)
THEOREM NobodyReadsUndefined == Spec => []NoUndefinedRead
<1>1. IInv => NoUndefinedRead
  BY DEF IInv, NoUndefinedRead, Written
<1> QED
  BY <1>1, Invariance, PTL

(* A buffer grows only as far as what was unread and two pieces require,   *)
(* however long it is used.                                                *)
THEOREM SizeStaysBounded == Spec => []SizeBounded
<1>1. IInv => SizeBounded
  BY DEF IInv
<1> QED
  BY <1>1, Invariance, PTL

(* Only a readMove() beyond the content throws: inserting never does.      *)
THEOREM InsertingNeverThrows == Spec => OnlyReadMoveThrows
<1>1. IInv /\ [Next]_vars
        => [thrown' /\ ~thrown => buf'.rd > buf'.wr /\ buf'.wr <= buf'.size]_vars
  BY NextStep DEF StepOK
<1> QED
  BY <1>1, Invariance, PTL DEF Spec, OnlyReadMoveThrows

(* The buffer implements the FIFO queue of ByteQueue.tla. *)
THEOREM ImplementsQueue == Spec => QueueSpec
<1>1. Init => Queue!Init
  BY InitStep
<1>2. IInv /\ [Next]_vars => [Queue!Next]_<<AbsQ, thrown>>
  BY NextStep DEF StepOK
<1>3. IInv /\ [Next]_vars => [Queue!Next]_(Queue!qvars)
  BY <1>2 DEF Queue!qvars, AbsQ
<1> QED
  BY <1>1, <1>3, Invariance, PTL DEF Spec, QueueSpec, Queue!Spec
=============================================================================
