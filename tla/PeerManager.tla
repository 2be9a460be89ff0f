---------------------------- MODULE PeerManager ----------------------------
(***************************************************************************)
(* The class PeerManager and the structure peer (libnet/src/peer_manager): *)
(* a fixed array of slots, each free or holding one connection.  A slot is *)
(* named by its index, a connection by its serial; the pair is the handle  *)
(* the application keeps.  The members of the structure are variables      *)
(* here, functions of the index; addresses and ports are left out.         *)
(***************************************************************************)
EXTENDS SockBufIndex, FiniteSets

CONSTANTS MaxPeerNum,       \* MAX_PEER_NUM, the number of slots
          PeerBufSize       \* the default size of a SockBuf, 100

ASSUME PeerAssumption == MaxPeerNum \in Nat \ {0} /\ PeerBufSize \in Nat

VARIABLES socket,           \* slot -> the socket in it
          serial,           \* slot -> serial of its present or last user
          read_buf,         \* slot -> received, not yet consumed
          write_buf,        \* slot -> handed to the operating system
          write_buf_backup, \* slot -> waiting behind write_buf
          wsa_send,         \* slot -> a send is under way
          m_serial          \* the serial of the next connection

bufVars  == <<read_buf, write_buf, write_buf_backup, wsa_send>>
peerVars == <<socket, serial, bufVars, m_serial>>

Slot == 0..(MaxPeerNum - 1)
INVALID_SOCKET == 0         \* sockets are numbered from 1

PeerInit ==
  /\ socket = [i \in Slot |-> INVALID_SOCKET]
  /\ serial = [i \in Slot |-> 0]
  /\ read_buf = [i \in Slot |-> NewSockBuf(PeerBufSize)]
  /\ write_buf = [i \in Slot |-> NewSockBuf(PeerBufSize)]
  /\ write_buf_backup = [i \in Slot |-> NewSockBuf(PeerBufSize)]
  /\ wsa_send = [i \in Slot |-> FALSE]
  /\ m_serial = 0

PeerTypeOK ==
  /\ socket \in [Slot -> Nat]
  /\ serial \in [Slot -> Nat]
  /\ read_buf \in [Slot -> SockBufType]
  /\ write_buf \in [Slot -> SockBufType]
  /\ write_buf_backup \in [Slot -> SockBufType]
  /\ wsa_send \in [Slot -> BOOLEAN]
  /\ m_serial \in Nat

InUse(i) == socket[i] # INVALID_SOCKET

(* The test every entry point makes before it touches a slot: the handle   *)
(* <<i, s>> still names a connection.                                      *)
Valid(i, s) == serial[i] = s /\ InUse(i)

(* newPeer() takes the free slot with the smallest index. *)
Full == \A i \in Slot : InUse(i)
FirstFree(i) == ~InUse(i) /\ \A j \in Slot : j < i => InUse(j)

(* Deviation: the serial is not counted up. *)
NewPeer_SameSerial(i) ==
  /\ FirstFree(i)
  /\ serial' = [serial EXCEPT ![i] = m_serial]
  /\ m_serial' = m_serial
  /\ write_buf' = [write_buf EXCEPT ![i] = Reset(@)]
  /\ write_buf_backup' = [write_buf_backup EXCEPT ![i] = Reset(@)]
  /\ wsa_send' = [wsa_send EXCEPT ![i] = FALSE]

(* Deviation: what was not sent to the last user stays in the buffer. *)
NewPeer_KeepsUnsent(i) ==
  /\ FirstFree(i)
  /\ serial' = [serial EXCEPT ![i] = m_serial]
  /\ m_serial' = m_serial + 1
  /\ UNCHANGED write_buf
  /\ write_buf_backup' = [write_buf_backup EXCEPT ![i] = Reset(@)]
  /\ wsa_send' = [wsa_send EXCEPT ![i] = FALSE]

(* What newPeer() leaves in the slot i, but for the buffer it will receive *)
(* into, which registerSocket changes again before it returns.             *)
NewPeer(i) ==
  /\ FirstFree(i)
  /\ serial' = [serial EXCEPT ![i] = m_serial]
  /\ m_serial' = m_serial + 1
  /\ write_buf' = [write_buf EXCEPT ![i] = Reset(@)]
  /\ write_buf_backup' = [write_buf_backup EXCEPT ![i] = Reset(@)]
  /\ wsa_send' = [wsa_send EXCEPT ![i] = FALSE]

(* Deviation: the slot stays marked as used. *)
DeletePeer_StillUsed(i) == UNCHANGED socket

(* deletePeer() only marks the slot as free: serial, buffers and the send  *)
(* flag stay as they were until the slot is given away again.              *)
DeletePeer(i) == socket' = [socket EXCEPT ![i] = INVALID_SOCKET]
=============================================================================
