----------------------------- MODULE ByteQueue -----------------------------
(***************************************************************************)
(* What a socket buffer promises its users: a FIFO queue of bytes.  Bytes  *)
(* leave in the order in which they came in, none is lost, none is         *)
(* invented.  Making room is invisible.  Removing more bytes than the      *)
(* queue holds is an error after which the buffer is not used again.       *)
(* SockBuf.tla shows that the buffer of sockbuf.cpp implements it.         *)
(***************************************************************************)
EXTENDS Naturals, Sequences

CONSTANTS Byte,      \* the values a byte can have
          Chunk      \* the sequences of bytes one call may add

VARIABLES q,         \* the bytes that were put and not yet taken
          failed     \* an operation was refused

qvars == <<q, failed>>

Init == q = <<>> /\ failed = FALSE

(* New bytes go to the end. *)
Put(bytes) ==
  /\ ~failed
  /\ q' = q \o bytes
  /\ UNCHANGED failed

(* The first n bytes leave. *)
Take(n) ==
  /\ ~failed
  /\ n <= Len(q)
  /\ q' = SubSeq(q, n + 1, Len(q))
  /\ UNCHANGED failed

(* All bytes leave. *)
Clear ==
  /\ ~failed
  /\ q' = <<>>
  /\ UNCHANGED failed

(* A request for more than there is: the queue is given up. *)
Refuse ==
  /\ ~failed
  /\ failed' = TRUE
  /\ q' = <<>>

Next ==
  \/ \E bytes \in Chunk : Put(bytes)
  \/ \E n \in 0..Len(q) : Take(n)
  \/ Clear
  \/ Refuse

Spec == Init /\ [][Next]_qvars
=============================================================================
