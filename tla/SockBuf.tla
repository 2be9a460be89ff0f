------------------------------ MODULE SockBuf ------------------------------
(***************************************************************************)
(* The class SockBuf (libnet/src/sockbuf.cpp) as a state machine: the      *)
(* indices of SockBufIndex.tla and the memory they point into.  One action *)
(* per member function that changes the buffer.  Its users are the peer    *)
(* structure (one buffer for reading, two for writing) and the lobby.      *)
(***************************************************************************)
EXTENDS SockBufIndex, Sequences

CONSTANTS Byte,          \* the values of a byte
          Undefined,     \* the content of memory nobody has written
          InitSize,      \* the argument of the constructor, 100 in the code
          MaxLen,        \* bound: the longest piece of one call
          MaxReadable    \* bound: the unread bytes the callers let pile up

ASSUME SizeAssumption ==
  /\ InitSize \in Nat
  /\ MaxLen \in Nat \ {0}
  /\ MaxReadable \in Nat

ASSUME UndefinedAssumption == Undefined \notin Byte

VARIABLES buf,           \* m_size, m_read_index, m_write_index
          mem,           \* m_buf: offset -> byte
          thrown         \* a THROWNEXCEPT ran: nothing catches it

vars == <<buf, mem, thrown>>

Piece == UNION {[1..n -> Byte] : n \in 0..MaxLen}

Init ==
  /\ buf = NewSockBuf(InitSize)
  /\ mem = [k \in 0..(InitSize - 1) |-> Undefined]
  /\ thrown = FALSE

-----------------------------------------------------------------------------
(* Deviations: the old block stays in use; a new block is not filled; the  *)
(* bytes are taken from the start of the block.                            *)
MovedMem_OldBlock(b, len) ==
  [k \in DOMAIN mem |-> IF k < ReadableBytes(b) THEN mem[b.rd + k] ELSE mem[k]]

MovedMem_NotCopied(b, len) ==
  [k \in 0..(MakeSpace(b, len).size - 1) |->
     IF Grows(b, len) THEN Undefined
     ELSE IF k < ReadableBytes(b) THEN mem[b.rd + k] ELSE mem[k]]

MovedMem_FromStart(b, len) ==
  [k \in 0..(MakeSpace(b, len).size - 1) |->
     IF k < ReadableBytes(b) THEN mem[k]
     ELSE IF Grows(b, len) THEN Undefined ELSE mem[k]]

(* The memory after makeSpace(len): both the new block (memcpy) and the    *)
(* old one (memmove) hold the unread bytes at their front.  The rest of a  *)
(* new block is uninitialized.                                             *)
MovedMem(b, len) ==
  [k \in 0..(MakeSpace(b, len).size - 1) |->
     IF k < ReadableBytes(b) THEN mem[b.rd + k]
     ELSE IF Grows(b, len) THEN Undefined
     ELSE mem[k]]

MemWithRoom(b, len) == IF WritableBytes(b) < len THEN MovedMem(b, len) ELSE mem

(* The memory m with the bytes stored from the offset at on. *)
Store(m, at, bytes) ==
  [k \in DOMAIN m |->
     IF at <= k /\ k < at + Len(bytes) THEN bytes[k - at + 1] ELSE m[k]]

-----------------------------------------------------------------------------
(* reset(), when a slot is given to a new connection. *)
DoReset ==
  /\ ~thrown
  /\ buf' = Reset(buf)
  /\ UNCHANGED <<mem, thrown>>

(* ensureWritableBytes(len), before a receive is posted. *)
DoEnsure(len) ==
  /\ ~thrown
  /\ buf' = EnsureWritableBytes(buf, len)
  /\ mem' = MemWithRoom(buf, len)
  /\ UNCHANGED thrown

(* A receive completes: the operating system has stored the bytes at       *)
(* writeStart(), never more than writableBytes(), and writeMove() follows. *)
DoReceive(bytes) ==
  /\ ~thrown
  /\ Len(bytes) <= WritableBytes(buf)
  /\ ReadableBytes(buf) + Len(bytes) <= MaxReadable
  /\ mem' = Store(mem, buf.wr, bytes)
  /\ buf' = WriteMove(buf, Len(bytes))
  /\ thrown' = WriteMoveThrows(buf, Len(bytes))

(* apendBuf(buf, len) *)
DoApend(bytes) ==
  /\ ~thrown
  /\ ReadableBytes(buf) + Len(bytes) <= MaxReadable
  /\ LET room == EnsureWritableBytes(buf, Len(bytes))
     IN  /\ mem' = Store(MemWithRoom(buf, Len(bytes)), room.wr, bytes)
         /\ buf' = ApendBuf(buf, Len(bytes))
         /\ thrown' = WriteMoveThrows(room, Len(bytes))

(* readMove(len), with whatever length the caller has: the code guards     *)
(* against one that is too large only by the exception.                    *)
DoReadMove(len) ==
  /\ ~thrown
  /\ buf' = ReadMove(buf, len)
  /\ thrown' = ReadMoveThrows(buf, len)
  /\ UNCHANGED mem

(* The exception ends the process. *)
Stopped == thrown /\ UNCHANGED vars

Next ==
  \/ DoReset
  \/ \E len \in 0..MaxLen : DoEnsure(len)
  \/ \E bytes \in Piece : DoReceive(bytes)
  \/ \E bytes \in Piece : DoApend(bytes)
  \/ \E len \in 0..MaxLen : DoReadMove(len)
  \/ Stopped

Spec == Init /\ [][Next]_vars

-----------------------------------------------------------------------------
(* The bytes a reader sees between readStart() and writeStart().  When     *)
(* readMove has thrown, the bytes it would have skipped are still there.   *)
Content ==
  [i \in 1..(buf.wr - buf.rd) |-> mem[buf.rd + i - 1]]

(* The type of the state; the indices are in order until an exception. *)
TypeOK ==
  /\ buf \in SockBufType
  /\ thrown \in BOOLEAN
  /\ mem \in [0..(buf.size - 1) -> Byte \cup {Undefined}]

(* Until an exception is thrown, 0 <= read index <= write index <= size.   *)
(* makeSpace computes unsigned differences of the three and copies by      *)
(* them, so this is what keeps its memcpy inside both blocks.              *)
IndicesInOrder == ~thrown => WellFormed(buf)

(* A byte between the read and the write index was stored by somebody: no  *)
(* move, growth or reset exposes uninitialized memory to a reader.         *)
NoUndefinedRead ==
  ~thrown => \A k \in buf.rd..(buf.wr - 1) : mem[k] \in Byte

(* A buffer never shrinks (reset keeps the memory and a slot lives as long *)
(* as the server), so its size must be bounded by what is ever in it: it   *)
(* grows only when the free bytes before and after the content are fewer   *)
(* than the new piece.                                                     *)
SizeBounded == buf.size <= InitSize \/ buf.size < MaxReadable + 2 * MaxLen

(* Inserting never throws: makeSpace always makes enough room, so only a   *)
(* readMove beyond the content can raise the exception of this class.      *)
OnlyReadMoveThrows ==
  [][thrown' /\ ~thrown => buf'.rd > buf'.wr /\ buf'.wr <= buf'.size]_vars

(* The buffer is a FIFO queue of bytes for its users. *)
Queue == INSTANCE ByteQueue WITH
           Chunk  <- Piece,
           q      <- IF thrown THEN <<>> ELSE Content,
           failed <- thrown
QueueSpec == Queue!Spec
=============================================================================
