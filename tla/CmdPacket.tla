----------------------------- MODULE CmdPacket -----------------------------
(***************************************************************************)
(* The class CmdPacket (libnet/src/cmdpacket.cpp): a buffer that numbers,  *)
(* floats and byte strings are written to in network order and read from.  *)
(* An object writes into memory of its own; it reads from there or from    *)
(* memory of its caller.  Lengths of both kinds share the member m_nLen.   *)
(*                                                                         *)
(* A value is the sequence of its bytes in memory, lowest first; a number  *)
(* of 64 bits is turned around by code of its own, and not always back.    *)
(* Its halves are held in a long, of 32 bits as on Windows.  The calls     *)
(* come as the code of the server makes them: writing follows a BeginWrite *)
(* or BeginRead(), reading a BeginRead of either kind.  A field has a byte *)
(* at least, a string its zero: WriteBinary of nothing would leave a       *)
(* length that ReadBinary refuses.                                         *)
(***************************************************************************)
EXTENDS Naturals, Sequences, SequencesExt

CONSTANTS DEFAULT_CMD_PACKET_SIZE, MAX_CMD_PACKET_SIZE,
          Field,        \* what is written: records [kind, bytes]
          Foreign,      \* the byte sequences a caller hands over
          MaxFields     \* bound: fields written after one BeginWrite

CmdPacketAssumption ==
  /\ DEFAULT_CMD_PACKET_SIZE \in Nat /\ MAX_CMD_PACKET_SIZE \in Nat
  /\ DEFAULT_CMD_PACKET_SIZE <= MAX_CMD_PACKET_SIZE
  /\ MAX_CMD_PACKET_SIZE < 32768              \* a length is a short
  /\ Field \subseteq [kind : {"number", "long", "float", "binary"}, bytes : Seq(Nat) \ {<<>>}]
  /\ \A f \in Field : f.kind = "long" => Len(f.bytes) = 8
  /\ Foreign \subseteq Seq(Nat)
  /\ MaxFields \in Nat

VARIABLES
  m_pData,              \* the memory of the object: m_nMaxSize bytes
  m_nLen, m_nReadOffset, m_nWriteOffset,
  m_pReadData,          \* the caller's bytes, in mode "foreign"
  mode,                 \* "write", "own": reads its own memory, or "foreign"
  fields,               \* the fields written since BeginWrite()
  back,                 \* the fields read since BeginRead()
  half                  \* a length was written without its bytes

vars == <<m_pData, m_nLen, m_nReadOffset, m_nWriteOffset, m_pReadData, mode,
          fields, back, half>>

Fresh == 0              \* what fresh memory, or memory of others, holds
m_nMaxSize == Len(m_pData)

Init ==
  /\ m_pData = [k \in 1..DEFAULT_CMD_PACKET_SIZE |-> Fresh]
  /\ m_nLen = 0 /\ m_nReadOffset = 0 /\ m_nWriteOffset = 0
  /\ m_pReadData = <<>> /\ mode = "write"
  /\ fields = <<>> /\ back = <<>> /\ half = FALSE

(* hton64 and ntoh64 swap the halves and turn each of them around, but the *)
(* one that becomes the lower half is a signed long: as it is or-ed to the *)
(* other, a negative one (byte 5 is its first) sets all bits above it.     *)
hton64(b) == [k \in 1..8 |-> IF k > 4 /\ b[5] >= 128 THEN 255 ELSE b[9 - k]]

(* htons, htonl and hton64 on a little-endian machine; a float is left.    *)
Ordered(f) ==
  CASE f.kind = "number" -> Reverse(f.bytes)
    [] f.kind = "long"   -> hton64(f.bytes)
    [] OTHER             -> f.bytes
WriteShort(n) == <<n \div 256, n % 256>>
ReadShort(b) == 256 * b[1] + b[2]

(* WriteData writes all bytes behind the last ones, or nothing. *)
Fits(n) == m_nLen + n <= m_nMaxSize

WriteData(bytes) ==
  /\ Fits(Len(bytes))
  /\ m_pData' = [k \in 1..m_nMaxSize |->
                   IF k \in (m_nWriteOffset + 1)..(m_nWriteOffset + Len(bytes))
                   THEN bytes[k - m_nWriteOffset] ELSE m_pData[k]]
  /\ m_nLen' = m_nLen + Len(bytes)
  /\ m_nWriteOffset' = m_nWriteOffset + Len(bytes)

MayWrite == mode \in {"write", "own"} /\ Len(fields) < MaxFields /\ ~half

WriteNumber(f) ==
  /\ MayWrite /\ f.kind # "binary"
  /\ WriteData(Ordered(f))
  /\ fields' = Append(fields, f)
  /\ UNCHANGED <<m_nReadOffset, m_pReadData, mode, back, half>>

WriteBinary(f) ==
  /\ MayWrite /\ f.kind = "binary" /\ Fits(2 + Len(f.bytes))
  /\ WriteData(WriteShort(Len(f.bytes)) \o f.bytes)
  /\ fields' = Append(fields, f)
  /\ UNCHANGED <<m_nReadOffset, m_pReadData, mode, back, half>>

(* The length fits and the bytes do not: the length stays in the packet.   *)
WriteHalf(f) ==
  /\ MayWrite /\ f.kind = "binary" /\ ~Fits(2 + Len(f.bytes))
  /\ WriteData(WriteShort(Len(f.bytes)))
  /\ half' = TRUE
  /\ UNCHANGED <<m_nReadOffset, m_pReadData, mode, fields, back>>

(* Deviation: the writer goes on where it was. *)
Restarted_Not == m_nWriteOffset

Restarted == 0

BeginWrite ==
  /\ m_nLen' = 0 /\ m_nWriteOffset' = Restarted
  /\ mode' = "write" /\ fields' = <<>> /\ back' = <<>> /\ half' = FALSE
  /\ UNCHANGED <<m_pData, m_nReadOffset, m_pReadData>>

(* CopyData: memory of exactly the size, also when there was more; what is *)
(* too long is not copied.  BeginWrite(p, len) sets m_nLen all the same.   *)
Copied(p) == IF Len(p) <= MAX_CMD_PACKET_SIZE THEN p ELSE m_pData

BeginWriteCopy(p) ==
  /\ m_pData' = Copied(p)
  /\ m_nLen' = Len(p)
  /\ mode' = "write" /\ fields' = <<>> /\ back' = <<>> /\ half' = FALSE
  /\ UNCHANGED <<m_nReadOffset, m_nWriteOffset, m_pReadData>>

-----------------------------------------------------------------------------
(* Deviation: the reader goes on where it was. *)
Rewound_Not == m_nReadOffset

Rewound == 0

(* BeginRead(p, len): a message in the caller's memory. *)
BeginReadForeign(p) ==
  /\ m_pReadData' = p /\ m_nLen' = Len(p) /\ m_nReadOffset' = Rewound
  /\ mode' = "foreign" /\ back' = <<>>
  /\ UNCHANGED <<m_pData, m_nWriteOffset, fields, half>>

(* BeginRead(): what the object has written itself. *)
BeginRead ==
  /\ mode # "foreign"
  /\ mode' = "own" /\ m_nReadOffset' = Rewound /\ back' = <<>>
  /\ UNCHANGED <<m_pData, m_nLen, m_nWriteOffset, m_pReadData, fields, half>>

(* The n bytes from the offset `at`, also of memory that is not there. *)
Source == IF mode = "own" THEN m_pData ELSE m_pReadData
Bytes(at, n) == [k \in 1..n |-> IF at + k <= Len(Source) THEN Source[at + k] ELSE Fresh]

Readable(n) == m_nReadOffset + n <= m_nLen

ReadData(n) ==
  /\ mode # "write" /\ Readable(n)
  /\ m_nReadOffset' = m_nReadOffset + n

(* A number is read if its bytes are there; else the call returns false    *)
(* and the caller's variable is not set.                                   *)
ReadNumber(f) ==
  /\ f.kind # "binary" /\ ReadData(Len(f.bytes))
  /\ LET read == [f EXCEPT !.bytes = Bytes(m_nReadOffset, Len(f.bytes))] IN
       back' = Append(back, [f EXCEPT !.bytes = Ordered(read)])
  /\ UNCHANGED <<m_pData, m_nLen, m_nWriteOffset, m_pReadData, mode, fields, half>>

(* A length without its bytes is used up, and false returned. *)
ReadBinary(f) ==
  /\ f.kind = "binary" /\ Readable(2)
  /\ LET n == ReadShort(Bytes(m_nReadOffset, 2)) IN
       IF n > 0 /\ Readable(2 + n)
       THEN /\ ReadData(2 + n)
            /\ back' = Append(back, [f EXCEPT !.bytes = Bytes(m_nReadOffset + 2, n)])
       ELSE ReadData(2) /\ UNCHANGED back
  /\ UNCHANGED <<m_pData, m_nLen, m_nWriteOffset, m_pReadData, mode, fields, half>>

(* A packet of its own is read back field by field; the bytes of a caller  *)
(* are read as any fields.                                                 *)
Read ==
  \E f \in Field :
    /\ mode = "own" => Len(back) < Len(fields) /\ f = fields[Len(back) + 1]
    /\ ReadNumber(f) \/ ReadBinary(f)

Next ==
  \/ BeginWrite \/ BeginRead \/ Read
  \/ \E f \in Field : WriteNumber(f) \/ WriteBinary(f) \/ WriteHalf(f)
  \/ \E p \in Foreign : BeginWriteCopy(p) \/ BeginReadForeign(p)

Spec == Init /\ [][Next]_vars

-----------------------------------------------------------------------------
(* Every variable has its type. *)
TypeOK ==
  /\ m_pData \in Seq(Nat) /\ m_nMaxSize <= MAX_CMD_PACKET_SIZE
  /\ m_nLen \in Nat /\ m_nReadOffset \in Nat /\ m_nWriteOffset \in Nat
  /\ m_pReadData \in Seq(Nat)
  /\ mode \in {"write", "own", "foreign"} /\ half \in BOOLEAN
  /\ fields \in Seq(Field)
  /\ back \in Seq([kind : {"number", "long", "float", "binary"}, bytes : Seq(Nat)])

(* Whatever the order of the calls, and although one length serves both    *)
(* memories, what is read lies inside of the memory that is read, and what *)
(* is written next goes behind the last byte, or is refused, unless        *)
(* BeginWrite(p, len) was given more than a packet may hold.               *)
Inside ==
  m_nLen <= MAX_CMD_PACKET_SIZE =>
    /\ mode # "foreign" => m_nLen <= m_nMaxSize
    /\ mode = "foreign" => m_nLen <= Len(m_pReadData)
    /\ mode # "write" => m_nReadOffset <= m_nLen
    /\ mode # "foreign" /\ m_nLen < m_nMaxSize => m_nWriteOffset = m_nLen

(* What has been written is read back in its order, in any interleaving of *)
(* writing and reading, also when a field no longer fits; and field by     *)
(* field as it was written, but for a 64-bit number in which bit 31 or bit *)
(* 39 is set: of those only -1 comes back as it was.                       *)
Kept(b) == (b[4] < 128 /\ b[5] < 128) \/ \A k \in 1..8 : b[k] = 255
Exact(f) == f.kind = "long" => Kept(f.bytes)

ReadsBack ==
  mode = "own" =>
    /\ Len(back) <= Len(fields)
    /\ \A k \in DOMAIN back : back[k] = fields[k] <=> Exact(fields[k])
=============================================================================
