--------------------------- MODULE MessageStream ---------------------------
(***************************************************************************)
(* What the two ends of a connection promise each other: messages arrive   *)
(* whole, in the order in which they were sent, each exactly once.         *)
(***************************************************************************)
EXTENDS Naturals, Sequences

CONSTANT Message

VARIABLES chan,      \* the messages sent and not yet given to the receiver
          last,      \* the message given last
          parity     \* changes with every message that is given

vars == <<chan, last, parity>>

Init == chan = <<>> /\ last = <<>> /\ parity = 0

Put(m) == chan' = Append(chan, m) /\ UNCHANGED <<last, parity>>

Get ==
  /\ chan # <<>>
  /\ last' = Head(chan)
  /\ chan' = Tail(chan)
  /\ parity' = 1 - parity

Next == Get \/ \E m \in Message : Put(m)

Spec == Init /\ [][Next]_vars
=============================================================================
