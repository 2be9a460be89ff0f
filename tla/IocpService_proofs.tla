------------------------- MODULE IocpService_proofs -------------------------
(***************************************************************************)
(* What IocpService.tla promises in every case, also when completions of a *)
(* closed connection meet the next user of its slot: proved for any number *)
(* of slots, connections and bytes.  The inductive invariant numbers the   *)
(* connections (the serial of a slot in use is that of its socket, and the *)
(* socket's completion key is the slot) and says what wsa_send means.      *)
(*                                                                         *)
(* The second half is the exact accounting when no completion of a closed  *)
(* connection meets the next user of its slot (ReuseRace = FALSE), with    *)
(* operations that fail.  To the invariant come three parts: every         *)
(* completion was posted by the connection it names and, in a slot in use, *)
(* by the present one; a connection's receive is either posted or in the   *)
(* queue; and so is its send while wsa_send is set.  The last part bounds  *)
(* the contexts that are lost.                                             *)
(***************************************************************************)
EXTENDS IocpService, SockBufIndex_proofs, FiniteSetTheorems, SequenceTheorems

(* The three buffers of every slot, used or free, are in order. *)
BuffersInOrder ==
  \A i \in Slot : /\ WellFormed(read_buf[i])
                  /\ WellFormed(write_buf[i])
                  /\ WellFormed(write_buf_backup[i])

(* Slot, socket and serial of a connection belong together. *)
SlotsMatch ==
  \A i \in Slot : InUse(i) =>
    /\ socket[i] \in Conn
    /\ net[socket[i]] # "none"
    /\ key[socket[i]] = i
    /\ serial[i] = socket[i] - 1

(* m_serial counts the connections made. *)
Numbered == \A c \in Conn : net[c] # "none" <=> c <= m_serial

(* Who has bytes to send has wsa_send set, and with it set there is a      *)
(* completion to come.                                                     *)
HasBytes(i) == ReadableBytes(write_buf[i]) > 0 \/ ReadableBytes(write_buf_backup[i]) > 0
SendsUnderWay ==
  \A i \in Slot : InUse(i) =>
    /\ HasBytes(i) => wsa_send[i] = TRUE
    /\ wsa_send[i] = TRUE => WriteOutstanding(i)

IInv ==
  /\ TypeOK
  /\ BuffersInOrder
  /\ SlotsMatch
  /\ Numbered
  /\ PlayersAreThePeers
  /\ SendsUnderWay

-----------------------------------------------------------------------------
(* Slots and connections are natural numbers, and no socket is invalid.    *)
LEMMA Numbers ==
  /\ Slot \subseteq Nat /\ Conn \subseteq Nat
  /\ \A c \in Conn : c # INVALID_SOCKET /\ c - 1 \in Nat
  /\ MaxOut \in Nat /\ MaxIn \in Nat /\ RecvRoom \in Nat
  /\ PeerBufSize \in Nat
BY ServiceAssumption, PeerAssumption DEF Slot, Conn, INVALID_SOCKET

(* A write completion for the slot i in a queue. *)
HasWrite(queue, i) ==
  \E k \in 1..Len(queue) : queue[k].key = i /\ queue[k].io = "write"

(* It is still there when something is appended, *)
LEMMA AppendKeepsWrite ==
  ASSUME NEW queue \in Seq(Completion), NEW e \in Completion
  PROVE  /\ Append(queue, e) \in Seq(Completion)
         /\ \A i : HasWrite(queue, i) => HasWrite(Append(queue, e), i)
         /\ e.io = "write" => HasWrite(Append(queue, e), e.key)
<1>1. /\ Append(queue, e) \in Seq(Completion)
      /\ Len(queue) \in Nat
      /\ Len(Append(queue, e)) = Len(queue) + 1
      /\ \A k \in 1..Len(queue) : Append(queue, e)[k] = queue[k]
      /\ Append(queue, e)[Len(queue) + 1] = e
  BY AppendProperties, LenProperties
<1>2. ASSUME NEW i, HasWrite(queue, i)
      PROVE  HasWrite(Append(queue, e), i)
  BY <1>1, <1>2 DEF HasWrite
<1>3. e.io = "write" => HasWrite(Append(queue, e), e.key)
  BY <1>1 DEF HasWrite
<1> QED
  BY <1>1, <1>2, <1>3

(* and when another completion is taken from the front.                    *)
LEMMA TailKeepsWrite ==
  ASSUME NEW queue \in Seq(Completion), queue # << >>
  PROVE  /\ Head(queue) \in Completion
         /\ Tail(queue) \in Seq(Completion)
         /\ \A i : HasWrite(queue, i) /\ ~(Head(queue).key = i /\ Head(queue).io = "write")
                     => HasWrite(Tail(queue), i)
<1>1. /\ Head(queue) \in Completion
      /\ Tail(queue) \in Seq(Completion)
      /\ Len(queue) \in Nat
      /\ Len(Tail(queue)) = Len(queue) - 1
      /\ \A k \in 1..Len(Tail(queue)) : Tail(queue)[k] = queue[k + 1]
      /\ Head(queue) = queue[1]
  BY HeadTailProperties, LenProperties
<1>2. ASSUME NEW i, HasWrite(queue, i), ~(Head(queue).key = i /\ Head(queue).io = "write")
      PROVE  HasWrite(Tail(queue), i)
  <2>1. PICK k \in 1..Len(queue) : queue[k].key = i /\ queue[k].io = "write"
    BY <1>2 DEF HasWrite
  <2>2. k # 1
    BY <1>1, <1>2, <2>1
  <2>3. k - 1 \in 1..Len(Tail(queue)) /\ Tail(queue)[k - 1] = queue[k]
    BY <1>1, <2>2
  <2> QED
    BY <2>1, <2>3 DEF HasWrite
<1> QED
  BY <1>1, <1>2

LEMMA OutstandingIs ==
  \A i \in Slot : WriteOutstanding(i) <=> (sends[socket[i]] # << >> \/ HasWrite(cq, i))
BY DEF WriteOutstanding, HasWrite

(* The initial states.                                                     *)
LEMMA InitInv == Init => IInv
<1> SUFFICES ASSUME Init PROVE IInv
  OBVIOUS
<1>1. << >> \in Seq(Nat) /\ << >> \in Seq(Completion) /\ Len(<< >>) = 0
  BY EmptySeq
<1>2. WellFormed(NewSockBuf(PeerBufSize)) /\ NewSockBuf(PeerBufSize) \in SockBufType
  BY Numbers, NewSockBufWellFormed DEF WellFormed
<1>3. PeerTypeOK
  BY <1>2 DEF Init, PeerInit, PeerTypeOK, INVALID_SOCKET
<1>4. 0 \in Slot
  BY PeerAssumption DEF Slot
<1>5. TypeOK
  BY <1>1, <1>3, <1>4, Numbers DEF Init, TypeOK, NetState, Exception
<1>6. BuffersInOrder
  BY <1>2 DEF Init, PeerInit, BuffersInOrder
<1>7. \A i \in Slot : ~InUse(i)
  BY DEF Init, PeerInit, InUse
<1>8. SlotsMatch /\ SendsUnderWay
  BY <1>7 DEF SlotsMatch, SendsUnderWay
<1>9. PlayersAreThePeers
  BY <1>7 DEF Init, PlayersAreThePeers
<1>10. Numbered
  BY Numbers DEF Init, PeerInit, Numbered, Conn
<1> QED
  BY <1>5, <1>6, <1>8, <1>9, <1>10 DEF IInv

-----------------------------------------------------------------------------
(* Steps that leave slots, handles and buffers alone keep the invariant if *)
(* they keep the types, make no connection, and lose no write completion.  *)
LEMMA SlotsUntouched ==
  ASSUME IInv, TypeOK', UNCHANGED <<peerVars, key, players>>,
         \A c \in Conn : net'[c] # "none" <=> net[c] # "none",
         \A i \in Slot : InUse(i) /\ (sends[socket[i]] # << >> \/ HasWrite(cq, i))
           => (sends'[socket[i]] # << >> \/ HasWrite(cq', i))
  PROVE  IInv'
<1>1. BuffersInOrder'
  BY DEF IInv, BuffersInOrder, peerVars, bufVars
<1>2. \A i \in Slot : InUse(i)' <=> InUse(i)
  BY DEF InUse, peerVars
<1>3. SlotsMatch' /\ Numbered'
  BY <1>2 DEF IInv, SlotsMatch, Numbered, peerVars
<1>4. PlayersAreThePeers'
  <2>1. {j \in Slot : InUse(j)}' = {j \in Slot : InUse(j)}
    BY <1>2
  <2> QED
    BY <2>1 DEF IInv, PlayersAreThePeers, peerVars
<1>5. SendsUnderWay'
  <2> SUFFICES ASSUME NEW i \in Slot, InUse(i)
               PROVE  /\ HasBytes(i)' => wsa_send'[i] = TRUE
                      /\ wsa_send'[i] = TRUE => WriteOutstanding(i)'
    BY <1>2 DEF SendsUnderWay
  <2>1. HasBytes(i)' <=> HasBytes(i)
    BY DEF HasBytes, peerVars, bufVars
  <2>2. WriteOutstanding(i) => WriteOutstanding(i)'
    BY OutstandingIs DEF WriteOutstanding, HasWrite, peerVars
  <2> QED
    BY <2>1, <2>2 DEF IInv, SendsUnderWay, peerVars, bufVars
<1> QED
  BY <1>1, <1>3, <1>4, <1>5 DEF IInv

(* The operating system: what was pending becomes a completion.            *)
LEMMA CompletedType ==
  ASSUME IInv, NEW c \in Conn, NEW io \in Io, NEW n \in Nat, NEW res \in Outcome
  PROVE  /\ Completed(c, io, n, res) \in Seq(Completion)
         /\ \A i : HasWrite(cq, i) => HasWrite(Completed(c, io, n, res), i)
         /\ io = "write" => HasWrite(Completed(c, io, n, res), key[c])
<1> DEFINE e == [key |-> key[c], sock |-> c, io |-> io, bytes |-> n, res |-> res]
<1>1. e \in Completion /\ e.io = io /\ e.key = key[c] /\ cq \in Seq(Completion)
  BY DEF Completion, IInv, TypeOK
<1>2. Completed(c, io, n, res) = Append(cq, e)
  BY DEF Completed
<1> HIDE DEF e
<1> QED
  BY <1>1, <1>2, AppendKeepsWrite

LEMMA ReceiveSideKeeps ==
  ASSUME IInv, NEW c \in Conn, NEW n \in Nat, NEW res \in Outcome,
         recvs[c] # << >>,
         recvs' = [recvs EXCEPT ![c] = Tail(@)],
         cq' = Completed(c, "read", n, res),
         rest' \in [Conn -> Nat],
         UNCHANGED <<peerVars, net, key, sends, pc, down, appVars, wired, leaked>>
  PROVE  IInv'
<1>1. Tail(recvs[c]) \in Seq(Nat)
  BY HeadTailProperties DEF IInv, TypeOK
<1>2. "read" \in Io
  BY DEF Io
<1>3. cq' \in Seq(Completion) /\ \A i : HasWrite(cq, i) => HasWrite(cq', i)
  BY <1>2, CompletedType
<1>4. TypeOK'
  BY <1>1, <1>3 DEF IInv, TypeOK, PeerTypeOK, peerVars, bufVars, appVars
<1> QED
  BY <1>3, <1>4, SlotsUntouched DEF appVars

LEMMA SendSideKeeps ==
  ASSUME IInv, NEW c \in Conn, NEW n \in Nat, NEW res \in Outcome,
         sends[c] # << >>,
         sends' = [sends EXCEPT ![c] = Tail(@)],
         cq' = Completed(c, "write", n, res),
         wired' \in [Conn -> Nat],
         UNCHANGED <<peerVars, net, key, recvs, rest, pc, down, appVars, leaked>>
  PROVE  IInv'
<1>1. Tail(sends[c]) \in Seq(Nat)
  BY HeadTailProperties DEF IInv, TypeOK
<1>2. "write" \in Io
  BY DEF Io
<1>3. /\ cq' \in Seq(Completion) /\ HasWrite(cq', key[c])
      /\ \A i : HasWrite(cq, i) => HasWrite(cq', i)
  BY <1>2, CompletedType
<1>4. TypeOK'
  BY <1>1, <1>3 DEF IInv, TypeOK, PeerTypeOK, peerVars, bufVars, appVars
<1>5. ASSUME NEW i \in Slot, InUse(i), sends[socket[i]] # << >> \/ HasWrite(cq, i)
      PROVE  sends'[socket[i]] # << >> \/ HasWrite(cq', i)
  <2>1. socket[i] \in Conn /\ key[socket[i]] = i
    BY <1>5 DEF IInv, SlotsMatch
  <2>2. CASE socket[i] = c
    BY <1>3, <2>1, <2>2
  <2>3. CASE socket[i] # c
    <3>1. sends'[socket[i]] = sends[socket[i]]
      BY <2>1, <2>3 DEF IInv, TypeOK
    <3> QED
      BY <1>3, <1>5, <3>1
  <2> QED
    BY <2>2, <2>3
<1> QED
  BY <1>4, <1>5, SlotsUntouched DEF appVars

LEMMA KernelKeeps ==
  ASSUME IInv, NEW c \in Conn, Kernel(c)
  PROVE  IInv'
<1>0. {"ok", "netname", "other"} = Outcome /\ Failure \subseteq Outcome
  BY DEF Outcome, Failure
<1>1. ASSUME NEW n \in 1..MaxIn, KernelReceives(c, n)
      PROVE  IInv'
  <2>1. n \in Nat /\ n <= rest[c] /\ rest \in [Conn -> Nat]
    BY <1>1, Numbers DEF KernelReceives, IInv, TypeOK
  <2>2. rest' \in [Conn -> Nat]
    BY <1>1, <2>1 DEF KernelReceives
  <2> QED
    BY <1>0, <1>1, <2>1, <2>2, ReceiveSideKeeps DEF KernelReceives
<1>2. CASE KernelEndOfStream(c)
  BY <1>0, <1>2, ReceiveSideKeeps DEF KernelEndOfStream, IInv, TypeOK
<1>3. ASSUME NEW n \in 1..MaxOut, KernelSends(c, n)
      PROVE  IInv'
  <2>1. n \in Nat /\ wired' \in [Conn -> Nat]
    BY <1>3, Numbers DEF KernelSends, IInv, TypeOK
  <2> QED
    BY <1>0, <1>3, <2>1, SendSideKeeps DEF KernelSends
<1>4. ASSUME NEW res \in Failure, KernelCancelsRecv(c, res)
      PROVE  IInv'
  BY <1>0, <1>4, ReceiveSideKeeps DEF KernelCancelsRecv, IInv, TypeOK
<1>5. ASSUME NEW res \in Failure, KernelCancelsSend(c, res)
      PROVE  IInv'
  BY <1>0, <1>5, SendSideKeeps DEF KernelCancelsSend, IInv, TypeOK
<1> QED
  BY <1>1, <1>2, <1>3, <1>4, <1>5 DEF Kernel

LEMMA RemoteKeeps ==
  ASSUME IInv, NEW c \in Conn, RemoteCloses(c) \/ RemoteResets(c)
  PROVE  IInv'
<1>1. /\ net' = [net EXCEPT ![c] = "fin"] \/ net' = [net EXCEPT ![c] = "rst"]
      /\ net[c] # "none" /\ net \in [Conn -> NetState]
      /\ UNCHANGED <<peerVars, key, recvs, sends, rest, cq, pc, down, appVars,
                     wired, leaked>>
  BY DEF RemoteCloses, RemoteResets, IInv, TypeOK
<1>2. net' \in [Conn -> NetState] /\ \A d \in Conn : net'[d] # "none" <=> net[d] # "none"
  BY <1>1 DEF NetState
<1>3. TypeOK'
  BY <1>1, <1>2 DEF IInv, TypeOK, PeerTypeOK, peerVars, bufVars, appVars
<1> QED
  BY <1>1, <1>2, <1>3, SlotsUntouched DEF appVars

-----------------------------------------------------------------------------
(* closePeer() of a slot in use, or nothing: the application's table, the  *)
(* slots and the handles still agree, and no slot has come into use.       *)
LEMMA SlotsKept ==
  ASSUME IInv, UNCHANGED <<serial, m_serial, key>>,
         StaysOpen \/ \E i \in Slot : InUse(i) /\ ClosePeer(i)
  PROVE  /\ socket' \in [Slot -> Nat]
         /\ net' \in [Conn -> NetState]
         /\ players' \subseteq (Slot \X Nat)
         /\ SlotsMatch' /\ Numbered' /\ PlayersAreThePeers'
         /\ \A j \in Slot : InUse(j)' => InUse(j) /\ socket'[j] = socket[j]
<1>0. /\ socket \in [Slot -> Nat] /\ serial \in [Slot -> Nat]
      /\ net \in [Conn -> NetState] /\ players \subseteq (Slot \X Nat)
      /\ SlotsMatch /\ Numbered /\ PlayersAreThePeers
  BY DEF IInv, TypeOK, PeerTypeOK
<1>1. CASE StaysOpen
  <2>1. \A j \in Slot : InUse(j)' <=> InUse(j)
    BY <1>1 DEF StaysOpen, InUse
  <2>2. {j \in Slot : InUse(j)}' = {j \in Slot : InUse(j)}
    BY <2>1
  <2> QED
    BY <1>0, <1>1, <2>1, <2>2 DEF StaysOpen, SlotsMatch, Numbered, PlayersAreThePeers
<1>2. ASSUME NEW i \in Slot, InUse(i), ClosePeer(i)
      PROVE  /\ socket' \in [Slot -> Nat]
             /\ net' \in [Conn -> NetState]
             /\ players' \subseteq (Slot \X Nat)
             /\ SlotsMatch' /\ Numbered' /\ PlayersAreThePeers'
             /\ \A j \in Slot : InUse(j)' => InUse(j) /\ socket'[j] = socket[j]
  <2>1. /\ socket' = [socket EXCEPT ![i] = INVALID_SOCKET]
        /\ net' = [net EXCEPT ![socket[i]] = "closed"]
        /\ players' = {p \in players : p[2] # serial[i]}
    BY <1>2 DEF ClosePeer, DeletePeer
  <2>2. \A j \in Slot : InUse(j)' <=> InUse(j) /\ j # i
    BY <1>0, <2>1 DEF InUse
  <2>3. \A j \in Slot : j # i => socket'[j] = socket[j]
    BY <1>0, <2>1
  <2>4. socket' \in [Slot -> Nat]
    BY <1>0, <2>1 DEF INVALID_SOCKET
  <2>5. socket[i] \in Conn /\ net[socket[i]] # "none"
    BY <1>0, <1>2 DEF SlotsMatch
  <2>6. /\ net' \in [Conn -> NetState]
        /\ \A c \in Conn : net'[c] # "none" <=> net[c] # "none"
    BY <1>0, <2>1, <2>5 DEF NetState
  <2>7. SlotsMatch' /\ Numbered'
    BY <1>0, <2>2, <2>3, <2>6 DEF SlotsMatch, Numbered
  <2>8. \A j \in Slot : InUse(j) /\ serial[j] = serial[i] => j = i
    <3> SUFFICES ASSUME NEW j \in Slot, InUse(j), serial[j] = serial[i]
                 PROVE  j = i
      OBVIOUS
    <3>1. /\ socket[j] \in Conn /\ serial[j] = socket[j] - 1 /\ key[socket[j]] = j
          /\ socket[i] \in Conn /\ serial[i] = socket[i] - 1 /\ key[socket[i]] = i
      BY <1>0, <1>2 DEF SlotsMatch
    <3>2. socket[j] \in Nat /\ socket[i] \in Nat /\ socket[j] - 1 = socket[i] - 1
      BY <3>1, Numbers
    <3>3. socket[j] = socket[i]
      BY <3>2
    <3> QED
      BY <3>1, <3>3
  <2>9. PlayersAreThePeers'
    <3>1. players = {<<j, serial[j]>> : j \in {k \in Slot : InUse(k)}}
      BY <1>0 DEF PlayersAreThePeers
    <3>2. players' = {<<j, serial[j]>> : j \in {k \in Slot : InUse(k) /\ k # i}}
      <4>1. \A j \in Slot : InUse(j) => (serial[j] # serial[i] <=> j # i)
        BY <2>8
      <4>2. players' = {p \in {<<j, serial[j]>> : j \in {k \in Slot : InUse(k)}} :
                          p[2] # serial[i]}
        BY <2>1, <3>1
      <4> QED
        BY <4>1, <4>2
    <3>3. {k \in Slot : InUse(k)}' = {k \in Slot : InUse(k) /\ k # i}
      BY <2>2
    <3> QED
      BY <3>2, <3>3 DEF PlayersAreThePeers
  <2> QED
    BY <1>0, <2>1, <2>2, <2>3, <2>4, <2>6, <2>7, <2>9
<1> QED
  BY <1>1, <1>2

(* send(): the bytes are in the backup and a wake-up is in the queue, or   *)
(* one was to come already; or nothing has happened.                       *)
LEMMA SendMessageFacts ==
  ASSUME IInv, NEW m \in Outbox, NEW queue \in Seq(Completion), SendMessage(m, queue)
  PROVE  /\ write_buf_backup' \in [Slot -> SockBufType]
         /\ \A i \in Slot : WellFormed(write_buf_backup'[i])
         /\ wsa_send' \in [Slot -> BOOLEAN]
         /\ accepted' \in [Conn -> Nat]
         /\ cq' \in Seq(Completion)
         /\ \A i : HasWrite(queue, i) => HasWrite(cq', i)
         /\ \A i \in Slot :
              \/ /\ write_buf_backup'[i] = write_buf_backup[i]
                 /\ wsa_send'[i] = wsa_send[i]
              \/ /\ wsa_send'[i] = TRUE
                 /\ wsa_send[i] = TRUE \/ HasWrite(cq', i)
<1>0. /\ write_buf_backup \in [Slot -> SockBufType]
      /\ \A i \in Slot : WellFormed(write_buf_backup[i])
      /\ wsa_send \in [Slot -> BOOLEAN]
      /\ accepted \in [Conn -> Nat]
      /\ SlotsMatch
      /\ key \in [Conn -> Slot]
  BY DEF IInv, TypeOK, PeerTypeOK, BuffersInOrder
<1>1. CASE ~(m.on /\ Valid(m.to[1], m.to[2]))
  <2>1. cq' = queue /\ UNCHANGED <<write_buf_backup, wsa_send, accepted>>
    BY <1>1 DEF SendMessage
  <2> QED
    BY <1>0, <2>1
<1>2. CASE m.on /\ Valid(m.to[1], m.to[2])
  <2> DEFINE i == m.to[1]
  <2>1. i \in Slot /\ m.len \in Nat
    <3>1. m \in Message
      BY <1>2 DEF Outbox, NoMessage
    <3>2. m.to \in Handle /\ m.len \in 1..MaxOut
      BY <3>1 DEF Message
    <3>3. PICK c \in Conn : m.to = <<key[c], c - 1>>
      BY <3>2 DEF Handle
    <3> QED
      BY <1>0, <3>2, <3>3, Numbers
  <2>2. /\ write_buf_backup' = [write_buf_backup EXCEPT ![i] = ApendBuf(@, m.len)]
        /\ wsa_send' = [wsa_send EXCEPT ![i] = TRUE]
        /\ cq' = Notify(i, queue)
        /\ accepted' = [accepted EXCEPT ![socket[i]] = @ + m.len]
        /\ InUse(i)
    BY <1>2 DEF SendMessage, Valid
  <2> HIDE DEF i
  <2>3. socket[i] \in Conn
    BY <1>0, <2>1, <2>2 DEF SlotsMatch
  <2>4. accepted' \in [Conn -> Nat]
    BY <1>0, <2>1, <2>2, <2>3
  <2>5. WellFormed(ApendBuf(write_buf_backup[i], m.len))
    BY <1>0, <2>1, ApendBufWellFormed
  <2>6. ApendBuf(write_buf_backup[i], m.len) \in SockBufType
    BY <2>5, Zenon DEF WellFormed
  <2>7. /\ write_buf_backup' \in [Slot -> SockBufType]
        /\ \A j \in Slot : WellFormed(write_buf_backup'[j])
        /\ \A j \in Slot : j # i => write_buf_backup'[j] = write_buf_backup[j]
    BY <1>0, <2>1, <2>2, <2>5, <2>6
  <2>8. /\ wsa_send' \in [Slot -> BOOLEAN]
        /\ wsa_send'[i] = TRUE
        /\ \A j \in Slot : j # i => wsa_send'[j] = wsa_send[j]
    BY <1>0, <2>1, <2>2
  <2> DEFINE e == [key |-> i, sock |-> socket[i], io |-> "write", bytes |-> 0, res |-> "ok"]
  <2>9. e \in Completion /\ e.io = "write" /\ e.key = i
    BY <2>1, <2>3 DEF Completion, Io, Outcome
  <2>10. (cq' = queue /\ wsa_send[i] = TRUE) \/ cq' = Append(queue, e)
    <3>1. wsa_send[i] \in BOOLEAN
      BY <1>0, <2>1
    <3>2. CASE wsa_send[i]
      BY <2>2, <3>1, <3>2 DEF Notify
    <3>3. CASE ~wsa_send[i]
      BY <2>2, <3>3 DEF Notify, Signal
    <3> QED
      BY <3>2, <3>3
  <2> HIDE DEF e
  <2>11. /\ cq' \in Seq(Completion)
         /\ \A j : HasWrite(queue, j) => HasWrite(cq', j)
         /\ wsa_send[i] = TRUE \/ HasWrite(cq', i)
    BY <2>9, <2>10, AppendKeepsWrite
  <2>12. ASSUME NEW j \in Slot
         PROVE  \/ /\ write_buf_backup'[j] = write_buf_backup[j]
                   /\ wsa_send'[j] = wsa_send[j]
                \/ /\ wsa_send'[j] = TRUE
                   /\ wsa_send[j] = TRUE \/ HasWrite(cq', j)
    <3>1. CASE j = i
      BY <2>8, <2>11, <3>1
    <3>2. CASE j # i
      BY <2>7, <2>8, <3>2
    <3> QED
      BY <3>1, <3>2
  <2> QED
    BY <2>4, <2>7, <2>8, <2>11, <2>12
<1> QED
  BY <1>1, <1>2

-----------------------------------------------------------------------------
(* The I/O thread.  First the steps that only pass on, or end the process. *)
Turns == pc' \in {"accept", "event", "frame"}

LEMMA IdleKeeps ==
  ASSUME IInv, Turns, down' \in Exception, leaked' \in Nat, cq' \in Seq(Completion),
         UNCHANGED <<peerVars, netVars, appVars, wired>>,
         \A i \in Slot : InUse(i) /\ HasWrite(cq, i) => HasWrite(cq', i)
  PROVE  IInv'
<1>1. TypeOK'
  BY DEF IInv, TypeOK, PeerTypeOK, peerVars, bufVars, netVars, appVars, Turns
<1> QED
  BY <1>1, SlotsUntouched DEF netVars, appVars

(* Then those that close a peer, or find it closed already.                *)
LEMMA ClosedIsFree ==
  ASSUME IInv, NEW i \in Slot, ClosePeer(i)
  PROVE  ~InUse(i)'
BY DEF IInv, TypeOK, PeerTypeOK, ClosePeer, DeletePeer, InUse

LEMMA CloseKeeps ==
  ASSUME IInv, Turns, cq' \in Seq(Completion),
         UNCHANGED <<serial, bufVars, m_serial, key, recvs, sends, rest, down,
                     accepted, eaten, wired, leaked>>,
         StaysOpen \/ \E i \in Slot : InUse(i) /\ ClosePeer(i),
         \A j \in Slot : InUse(j)' /\ HasWrite(cq, j) => HasWrite(cq', j)
  PROVE  IInv'
<1>1. /\ socket' \in [Slot -> Nat]
      /\ net' \in [Conn -> NetState]
      /\ players' \subseteq (Slot \X Nat)
      /\ SlotsMatch' /\ Numbered' /\ PlayersAreThePeers'
      /\ \A j \in Slot : InUse(j)' => InUse(j) /\ socket'[j] = socket[j]
  BY SlotsKept
<1>2. TypeOK'
  BY <1>1 DEF IInv, TypeOK, PeerTypeOK, bufVars, Turns
<1>3. BuffersInOrder'
  BY DEF IInv, BuffersInOrder, bufVars
<1>4. SendsUnderWay'
  <2> SUFFICES ASSUME NEW j \in Slot, InUse(j)'
               PROVE  /\ HasBytes(j)' => wsa_send'[j] = TRUE
                      /\ wsa_send'[j] = TRUE => WriteOutstanding(j)'
    BY DEF SendsUnderWay
  <2>1. InUse(j) /\ socket'[j] = socket[j] /\ (HasWrite(cq, j) => HasWrite(cq', j))
    BY <1>1
  <2>2. HasBytes(j)' <=> HasBytes(j)
    BY DEF HasBytes, bufVars
  <2>3. WriteOutstanding(j) => WriteOutstanding(j)'
    BY <2>1 DEF WriteOutstanding, HasWrite
  <2> QED
    BY <2>1, <2>2, <2>3 DEF IInv, SendsUnderWay, bufVars
<1> QED
  BY <1>1, <1>2, <1>3, <1>4 DEF IInv

(* A new connection, which the post of its first receive may end at once.  *)
LEMMA RegisterKeeps ==
  ASSUME IInv, Turns, NEW c \in Conn, NEW i \in Slot, RegisterSocket(c, i)
  PROVE  IInv'
<1>0. /\ socket \in [Slot -> Nat] /\ serial \in [Slot -> Nat] /\ m_serial \in Nat
      /\ net \in [Conn -> NetState] /\ key \in [Conn -> Slot]
      /\ players \subseteq (Slot \X Nat)
      /\ SlotsMatch /\ Numbered /\ PlayersAreThePeers /\ SendsUnderWay
      /\ BuffersInOrder
      /\ recvs \in [Conn -> Seq(Nat)] /\ leaked \in Nat
      /\ read_buf \in [Slot -> SockBufType] /\ write_buf \in [Slot -> SockBufType]
      /\ write_buf_backup \in [Slot -> SockBufType] /\ wsa_send \in [Slot -> BOOLEAN]
  BY DEF IInv, TypeOK, PeerTypeOK
<1> DEFINE buf == EnsureWritableBytes(Reset(read_buf[i]), RecvRoom)
<1>1. /\ NextConn(c) /\ ~InUse(i)
      /\ serial' = [serial EXCEPT ![i] = m_serial]
      /\ m_serial' = m_serial + 1
      /\ write_buf' = [write_buf EXCEPT ![i] = Reset(@)]
      /\ write_buf_backup' = [write_buf_backup EXCEPT ![i] = Reset(@)]
      /\ wsa_send' = [wsa_send EXCEPT ![i] = FALSE]
      /\ key' = [key EXCEPT ![c] = i]
      /\ read_buf' = [read_buf EXCEPT ![i] = buf]
      /\ UNCHANGED <<sends, rest, cq, down, accepted, eaten, wired>>
  BY DEF RegisterSocket, NewPeer, FirstFree
<1>2. \/ /\ socket' = [socket EXCEPT ![i] = c]
         /\ players' = players \cup {<<i, m_serial>>}
         /\ net' = [net EXCEPT ![c] = "up"]
         /\ recvs' = PostRecv(c, buf)
         /\ leaked' = leaked
      \/ /\ net' = [net EXCEPT ![c] = "closed"]
         /\ leaked' = leaked + 1
         /\ UNCHANGED <<socket, players, recvs>>
  BY DEF RegisterSocket
<1>3. /\ WellFormed(buf) /\ buf \in SockBufType /\ WritableBytes(buf) \in Nat
      /\ WellFormed(Reset(write_buf[i])) /\ Reset(write_buf[i]) \in SockBufType
      /\ WellFormed(Reset(write_buf_backup[i])) /\ Reset(write_buf_backup[i]) \in SockBufType
      /\ ReadableBytes(Reset(write_buf[i])) = 0
      /\ ReadableBytes(Reset(write_buf_backup[i])) = 0
  <2>1. /\ WellFormed(read_buf[i]) /\ WellFormed(write_buf[i])
        /\ WellFormed(write_buf_backup[i])
    BY <1>0 DEF BuffersInOrder
  <2>2. /\ WellFormed(Reset(read_buf[i]))
        /\ WellFormed(Reset(write_buf[i])) /\ ReadableBytes(Reset(write_buf[i])) = 0
        /\ WellFormed(Reset(write_buf_backup[i]))
        /\ ReadableBytes(Reset(write_buf_backup[i])) = 0
    BY <2>1, ResetWellFormed
  <2>3. WellFormed(buf)
    BY <2>2, Numbers, EnsureWellFormed
  <2> HIDE DEF buf
  <2>4. \A b : WellFormed(b) => b \in SockBufType
    BY DEF WellFormed
  <2>5. buf \in SockBufType /\ Reset(write_buf[i]) \in SockBufType
        /\ Reset(write_buf_backup[i]) \in SockBufType
    BY <2>2, <2>3, <2>4, Zenon
  <2> QED
    BY <2>2, <2>3, <2>5, RoomIsNat
<1> HIDE DEF buf
<1>4. m_serial = c - 1
  <2>1. net[c] = "none" /\ \A d \in Conn : d < c => net[d] # "none"
    BY <1>1 DEF NextConn
  <2>2. ~(c <= m_serial) /\ c \in Nat /\ c >= 1 /\ c <= MaxConn
    BY <1>0, <2>1, ServiceAssumption DEF Numbered, Conn
  <2>3. CASE c = 1
    BY <1>0, <2>2, <2>3
  <2>4. CASE c # 1
    <3>1. c - 1 \in Conn /\ c - 1 < c
      BY <2>2, <2>4, ServiceAssumption DEF Conn
    <3>2. c - 1 <= m_serial
      BY <1>0, <2>1, <3>1 DEF Numbered
    <3> QED
      BY <1>0, <2>2, <3>2
  <2> QED
    BY <2>3, <2>4
<1>5. /\ serial' \in [Slot -> Nat] /\ m_serial' \in Nat
      /\ serial'[i] = c - 1
      /\ key' \in [Conn -> Slot] /\ key'[c] = i
      /\ \A d \in Conn : d # c => key'[d] = key[d]
      /\ \A j \in Slot : j # i => serial'[j] = serial[j]
  BY <1>0, <1>1, <1>4
<1>6. /\ net' \in [Conn -> NetState] /\ net'[c] # "none"
      /\ \A d \in Conn : d # c => net'[d] = net[d]
  BY <1>0, <1>2 DEF NetState
<1>7. /\ socket' \in [Slot -> Nat]
      /\ \A j \in Slot : j # i => socket'[j] = socket[j]
      /\ InUse(i)' => socket'[i] = c /\ players' = players \cup {<<i, m_serial>>}
      /\ ~InUse(i)' => players' = players
      /\ \A j \in Slot : j # i => (InUse(j)' <=> InUse(j))
  BY <1>0, <1>1, <1>2, Numbers DEF InUse
<1>8. /\ read_buf' \in [Slot -> SockBufType]
      /\ write_buf' \in [Slot -> SockBufType]
      /\ write_buf_backup' \in [Slot -> SockBufType]
      /\ wsa_send' \in [Slot -> BOOLEAN]
  BY <1>0, <1>1, <1>3
<1>9. recvs' \in [Conn -> Seq(Nat)] /\ leaked' \in Nat /\ players' \subseteq (Slot \X Nat)
  <2>1. Append(recvs[c], WritableBytes(buf)) \in Seq(Nat)
    BY <1>0, <1>3, AppendProperties
  <2>2. recvs' = recvs \/ recvs' = [recvs EXCEPT ![c] = Append(@, WritableBytes(buf))]
    BY <1>2 DEF PostRecv
  <2>3. recvs' \in [Conn -> Seq(Nat)]
    BY <1>0, <2>1, <2>2
  <2>4. leaked' = leaked \/ leaked' = leaked + 1
    BY <1>2
  <2>5. players' = players \/ players' = players \cup {<<i, m_serial>>}
    BY <1>2
  <2> QED
    BY <1>0, <2>3, <2>4, <2>5
<1>10. TypeOK'
  BY <1>1, <1>5, <1>6, <1>7, <1>8, <1>9 DEF IInv, TypeOK, PeerTypeOK, Turns
<1>11. BuffersInOrder'
  BY <1>0, <1>1, <1>3 DEF BuffersInOrder
<1>12. SlotsMatch'
  <2> SUFFICES ASSUME NEW j \in Slot, InUse(j)'
               PROVE  /\ socket'[j] \in Conn /\ net'[socket'[j]] # "none"
                      /\ key'[socket'[j]] = j /\ serial'[j] = socket'[j] - 1
    BY DEF SlotsMatch
  <2>1. CASE j = i
    BY <1>5, <1>6, <1>7, <2>1
  <2>2. CASE j # i
    <3>1. /\ socket[j] \in Conn /\ net[socket[j]] # "none"
          /\ key[socket[j]] = j /\ serial[j] = socket[j] - 1
      BY <1>0, <1>7, <2>2 DEF SlotsMatch
    <3>2. socket[j] # c
      BY <1>1, <3>1 DEF NextConn
    <3> QED
      BY <1>5, <1>6, <1>7, <2>2, <3>1, <3>2
  <2> QED
    BY <2>1, <2>2
<1>13. Numbered'
  <2> SUFFICES ASSUME NEW d \in Conn
               PROVE  net'[d] # "none" <=> d <= m_serial'
    BY DEF Numbered
  <2>1. m_serial' = c /\ c \in Nat /\ d \in Nat
    BY <1>0, <1>1, <1>4, Numbers
  <2>2. net[d] # "none" <=> d <= c - 1
    BY <1>0, <1>4 DEF Numbered
  <2> QED
    BY <1>6, <2>1, <2>2
<1>14. PlayersAreThePeers'
  <2>1. players = {<<j, serial[j]>> : j \in {k \in Slot : InUse(k)}}
    BY <1>0 DEF PlayersAreThePeers
  <2>2. CASE InUse(i)'
    <3>1. {k \in Slot : InUse(k)}' = {k \in Slot : InUse(k)} \cup {i}
      BY <1>7, <2>2
    <3>2. serial'[i] = m_serial /\ \A j \in {k \in Slot : InUse(k)} : serial'[j] = serial[j]
      BY <1>1, <1>4, <1>5
    <3> QED
      BY <1>7, <2>1, <2>2, <3>1, <3>2 DEF PlayersAreThePeers
  <2>3. CASE ~InUse(i)'
    <3>1. {k \in Slot : InUse(k)}' = {k \in Slot : InUse(k)}
      BY <1>1, <1>7, <2>3
    <3>2. \A j \in {k \in Slot : InUse(k)} : serial'[j] = serial[j]
      BY <1>1, <1>5
    <3> QED
      BY <1>7, <2>1, <2>3, <3>1, <3>2 DEF PlayersAreThePeers
  <2> QED
    BY <2>2, <2>3
<1>15. SendsUnderWay'
  <2> SUFFICES ASSUME NEW j \in Slot, InUse(j)'
               PROVE  /\ HasBytes(j)' => wsa_send'[j] = TRUE
                      /\ wsa_send'[j] = TRUE => WriteOutstanding(j)'
    BY DEF SendsUnderWay
  <2>1. CASE j = i
    <3>1. wsa_send'[j] = FALSE
      BY <1>0, <1>1, <2>1
    <3>2. write_buf'[j] = Reset(write_buf[i]) /\ write_buf_backup'[j] = Reset(write_buf_backup[i])
      BY <1>0, <1>1, <2>1
    <3>3. ~HasBytes(j)'
      BY <1>3, <3>2 DEF HasBytes
    <3> QED
      BY <3>1, <3>3
  <2>2. CASE j # i
    <3>1. /\ write_buf'[j] = write_buf[j] /\ write_buf_backup'[j] = write_buf_backup[j]
          /\ wsa_send'[j] = wsa_send[j]
          /\ InUse(j) /\ socket'[j] = socket[j]
      BY <1>0, <1>1, <1>7, <2>2
    <3>2. HasBytes(j)' <=> HasBytes(j)
      BY <3>1 DEF HasBytes
    <3>3. WriteOutstanding(j)' <=> WriteOutstanding(j)
      BY <1>1, <3>1 DEF WriteOutstanding
    <3> QED
      BY <1>0, <3>1, <3>2, <3>3 DEF SendsUnderWay
  <2> QED
    BY <2>1, <2>2
<1> QED
  BY <1>10, <1>11, <1>12, <1>13, <1>14, <1>15 DEF IInv

-----------------------------------------------------------------------------
(* A completed receive: the application reads, sends, perhaps asks for the *)
(* end, and the next receive is posted.                                    *)
LEMMA ReadKeeps ==
  ASSUME IInv, Turns, NEW i \in Slot, InUse(i), NEW n \in Nat,
         cq # << >>, Head(cq).io = "read",
         ~WriteMoveThrows(read_buf[i], n),
         NEW take \in 0..(ReadableBytes(read_buf[i]) + n),
         NEW m \in Outbox, NEW keep \in BOOLEAN, NEW posted \in BOOLEAN,
         ProcessRead(i, n, take, m, keep, posted)
  PROVE  IInv'
<1> DEFINE c    == socket[i]
           full == WriteMove(read_buf[i], n)
           left == ReadMove(full, take)
           room == EnsureWritableBytes(left, RecvRoom)
<1>0. /\ read_buf \in [Slot -> SockBufType] /\ WellFormed(read_buf[i])
      /\ recvs \in [Conn -> Seq(Nat)] /\ leaked \in Nat
      /\ eaten \in [Conn -> Nat] /\ cq \in Seq(Completion)
      /\ BuffersInOrder /\ SendsUnderWay
  BY DEF IInv, TypeOK, PeerTypeOK, BuffersInOrder
<1>1. c \in Conn
  BY DEF IInv, SlotsMatch
<1>2. /\ eaten' = [eaten EXCEPT ![c] = @ + take]
      /\ SendMessage(m, Tail(cq))
      /\ read_buf' = [read_buf EXCEPT ![i] = IF keep THEN room ELSE left]
      /\ recvs' = IF keep /\ posted THEN PostRecv(c, room) ELSE recvs
      /\ IF keep /\ posted THEN StaysOpen ELSE ClosePeer(i)
      /\ leaked' = Contexts(keep /\ ~posted)
      /\ UNCHANGED <<serial, write_buf, m_serial, key, sends, rest, down, wired>>
  BY DEF ProcessRead
<1>3. WellFormed(left) /\ WellFormed(room) /\ WritableBytes(room) \in Nat
  <2>1. WellFormed(full) /\ ReadableBytes(full) = ReadableBytes(read_buf[i]) + n
    BY <1>0, WriteMoveWellFormed
  <2>2. ReadableBytes(read_buf[i]) \in Nat
    BY <1>0, RoomIsNat
  <2>3. take \in Nat /\ take <= ReadableBytes(full)
    BY <2>1, <2>2
  <2> HIDE DEF full
  <2>4. ~ReadMoveThrows(full, take)
    BY <2>1, <2>3 DEF WellFormed, SockBufType, ReadableBytes, ReadMoveThrows
  <2>5. WellFormed(left)
    BY <2>1, <2>3, <2>4, ReadMoveWellFormed
  <2> HIDE DEF left
  <2>6. WellFormed(room)
    BY <2>5, Numbers, EnsureWellFormed
  <2> QED
    BY <2>5, <2>6, RoomIsNat
<1>4. take \in Nat
  BY <1>0, RoomIsNat
<1> HIDE DEF left, room
<1>5. /\ read_buf' \in [Slot -> SockBufType]
      /\ \A j \in Slot : WellFormed(read_buf'[j])
  <2> DEFINE new == IF keep THEN room ELSE left
  <2>1. WellFormed(new)
    BY <1>3
  <2>2. new \in SockBufType
    BY <2>1, Zenon DEF WellFormed
  <2>3. read_buf' = [read_buf EXCEPT ![i] = new]
    BY <1>2
  <2> HIDE DEF new
  <2> QED
    BY <1>0, <2>1, <2>2, <2>3 DEF BuffersInOrder
<1>6. recvs' \in [Conn -> Seq(Nat)]
  <2>1. Append(recvs[c], WritableBytes(room)) \in Seq(Nat)
    BY <1>0, <1>1, <1>3, AppendProperties
  <2>2. recvs' = recvs \/ recvs' = [recvs EXCEPT ![c] = Append(@, WritableBytes(room))]
    BY <1>2 DEF PostRecv
  <2> HIDE DEF c
  <2> QED
    BY <1>0, <1>1, <2>1, <2>2
<1>7. eaten' \in [Conn -> Nat] /\ leaked' \in Nat
  BY <1>0, <1>1, <1>2, <1>4 DEF Contexts
<1>8. /\ Tail(cq) \in Seq(Completion)
      /\ \A j : HasWrite(cq, j) => HasWrite(Tail(cq), j)
  BY <1>0, TailKeepsWrite
<1>9. /\ write_buf_backup' \in [Slot -> SockBufType]
      /\ \A j \in Slot : WellFormed(write_buf_backup'[j])
      /\ wsa_send' \in [Slot -> BOOLEAN]
      /\ accepted' \in [Conn -> Nat]
      /\ cq' \in Seq(Completion)
      /\ \A j : HasWrite(Tail(cq), j) => HasWrite(cq', j)
      /\ \A j \in Slot :
           \/ write_buf_backup'[j] = write_buf_backup[j] /\ wsa_send'[j] = wsa_send[j]
           \/ wsa_send'[j] = TRUE /\ (wsa_send[j] = TRUE \/ HasWrite(cq', j))
  BY <1>2, <1>8, SendMessageFacts
<1>10. /\ socket' \in [Slot -> Nat]
       /\ net' \in [Conn -> NetState]
       /\ players' \subseteq (Slot \X Nat)
       /\ SlotsMatch' /\ Numbered' /\ PlayersAreThePeers'
       /\ \A j \in Slot : InUse(j)' => InUse(j) /\ socket'[j] = socket[j]
  BY <1>2, SlotsKept
<1>11. TypeOK'
  BY <1>2, <1>5, <1>6, <1>7, <1>9, <1>10 DEF IInv, TypeOK, PeerTypeOK, Turns
<1>12. BuffersInOrder'
  BY <1>0, <1>2, <1>5, <1>9 DEF BuffersInOrder
<1>13. SendsUnderWay'
  <2> SUFFICES ASSUME NEW j \in Slot, InUse(j)'
               PROVE  /\ HasBytes(j)' => wsa_send'[j] = TRUE
                      /\ wsa_send'[j] = TRUE => WriteOutstanding(j)'
    BY DEF SendsUnderWay
  <2>1. InUse(j) /\ socket'[j] = socket[j] /\ sends' = sends /\ write_buf'[j] = write_buf[j]
    BY <1>2, <1>10
  <2>2. WriteOutstanding(j) => WriteOutstanding(j)'
    <3>1. WriteOutstanding(j)' <=> (sends'[socket'[j]] # << >> \/ HasWrite(cq', j))
      BY DEF WriteOutstanding, HasWrite
    <3> QED
      BY <1>8, <1>9, <2>1, <3>1, OutstandingIs
  <2>3. HasWrite(cq', j) => WriteOutstanding(j)'
    BY DEF WriteOutstanding, HasWrite
  <2>4. /\ HasBytes(j) => wsa_send[j] = TRUE
        /\ wsa_send[j] = TRUE => WriteOutstanding(j)
    BY <1>0, <2>1 DEF SendsUnderWay
  <2>5. CASE write_buf_backup'[j] = write_buf_backup[j] /\ wsa_send'[j] = wsa_send[j]
    <3>1. HasBytes(j)' <=> HasBytes(j)
      BY <2>1, <2>5 DEF HasBytes
    <3> QED
      BY <2>2, <2>4, <2>5, <3>1
  <2>6. CASE wsa_send'[j] = TRUE /\ (wsa_send[j] = TRUE \/ HasWrite(cq', j))
    BY <2>2, <2>3, <2>4, <2>6
  <2> QED
    BY <1>9, <2>5, <2>6
<1> QED
  BY <1>10, <1>11, <1>12, <1>13 DEF IInv

(* A completed send, or the wake-up of send(): the bytes in the backup     *)
(* move on, and if there are any the next send is posted.                  *)
LEMMA WriteKeeps ==
  ASSUME IInv, Turns, NEW i \in Slot, InUse(i), NEW n \in Nat,
         cq # << >>, Head(cq).key = i,
         ~ReadMoveThrows(write_buf[i], n),
         NEW posted \in BOOLEAN,
         ProcessWrite(i, n, posted)
  PROVE  IInv'
<1> DEFINE c       == socket[i]
           kept    == ReadMove(write_buf[i], n)
           waiting == ReadableBytes(write_buf_backup[i])
           now     == IF waiting > 0 THEN ApendBuf(kept, waiting) ELSE kept
           more    == ReadableBytes(now) > 0
           empty   == Emptied(write_buf_backup[i])
<1>0. /\ write_buf \in [Slot -> SockBufType] /\ WellFormed(write_buf[i])
      /\ write_buf_backup \in [Slot -> SockBufType] /\ WellFormed(write_buf_backup[i])
      /\ wsa_send \in [Slot -> BOOLEAN]
      /\ sends \in [Conn -> Seq(Nat)] /\ leaked \in Nat
      /\ cq \in Seq(Completion)
      /\ BuffersInOrder /\ SendsUnderWay
  BY DEF IInv, TypeOK, PeerTypeOK, BuffersInOrder
<1>1. c \in Conn
  BY DEF IInv, SlotsMatch
<1>2. /\ write_buf' = [write_buf EXCEPT ![i] = now]
      /\ write_buf_backup' = [write_buf_backup EXCEPT ![i] = empty]
      /\ wsa_send' = [wsa_send EXCEPT ![i] = more]
      /\ sends' = IF more /\ posted THEN PostSend(c, now) ELSE sends
      /\ IF more /\ ~posted THEN ClosePeer(i) ELSE StaysOpen
      /\ leaked' = Contexts(more /\ ~posted)
      /\ cq' = Tail(cq)
      /\ UNCHANGED <<serial, read_buf, m_serial, key, recvs, rest, down,
                     accepted, eaten, wired>>
  BY <1>0 DEF ProcessWrite
<1>3. WellFormed(now) /\ ReadableBytes(now) \in Nat
  <2>1. WellFormed(kept)
    BY <1>0, ReadMoveWellFormed
  <2>2. waiting \in Nat
    BY <1>0, RoomIsNat
  <2> HIDE DEF kept, waiting
  <2>3. WellFormed(now)
    BY <2>1, <2>2, ApendBufWellFormed
  <2> QED
    BY <2>3, RoomIsNat
<1>4. WellFormed(empty) /\ ReadableBytes(empty) = 0
  <2>1. waiting \in Nat /\ write_buf_backup[i].rd + waiting = write_buf_backup[i].wr
    BY <1>0, RoomIsNat
  <2>2. ~ReadMoveThrows(write_buf_backup[i], waiting)
    BY <1>0, <2>1 DEF ReadMoveThrows, WellFormed, SockBufType
  <2>3. empty = ReadMove(write_buf_backup[i], waiting)
    BY DEF Emptied
  <2>4. WellFormed(empty) /\ ReadableBytes(empty) = waiting - waiting
    BY <1>0, <2>1, <2>2, <2>3, ReadMoveWellFormed
  <2> QED
    BY <2>1, <2>4
<1> HIDE DEF now, empty
<1>5. /\ write_buf' \in [Slot -> SockBufType]
      /\ \A j \in Slot : WellFormed(write_buf'[j])
      /\ write_buf_backup' \in [Slot -> SockBufType]
      /\ \A j \in Slot : WellFormed(write_buf_backup'[j])
      /\ write_buf'[i] = now /\ write_buf_backup'[i] = empty
      /\ \A j \in Slot : j # i => /\ write_buf'[j] = write_buf[j]
                                  /\ write_buf_backup'[j] = write_buf_backup[j]
  <2>1. now \in SockBufType /\ empty \in SockBufType
    BY <1>3, <1>4, Zenon DEF WellFormed
  <2> QED
    BY <1>0, <1>2, <1>3, <1>4, <2>1 DEF BuffersInOrder
<1>6. /\ wsa_send' \in [Slot -> BOOLEAN]
      /\ wsa_send'[i] = TRUE => more
      /\ more => wsa_send'[i] = TRUE
      /\ \A j \in Slot : j # i => wsa_send'[j] = wsa_send[j]
  <2>1. more \in BOOLEAN
    OBVIOUS
  <2> HIDE DEF more
  <2> QED
    BY <1>0, <1>2, <2>1
<1>7. sends' \in [Conn -> Seq(Nat)]
      /\ (more /\ posted => sends'[c] # << >>)
      /\ (\A d \in Conn : sends[d] # << >> => sends'[d] # << >>)
  <2>1. /\ Append(sends[c], ReadableBytes(now)) \in Seq(Nat)
        /\ Append(sends[c], ReadableBytes(now)) # << >>
    <3>1. sends[c] \in Seq(Nat)
      BY <1>0, <1>1
    <3>2. /\ Append(sends[c], ReadableBytes(now)) \in Seq(Nat)
          /\ Len(Append(sends[c], ReadableBytes(now))) = Len(sends[c]) + 1
          /\ Len(sends[c]) \in Nat
      BY <1>3, <3>1, AppendProperties, LenProperties
    <3>3. Len(<< >>) = 0
      BY EmptySeq
    <3> QED
      BY <3>2, <3>3
  <2>2. \/ ~(more /\ posted) /\ sends' = sends
        \/ sends' = [sends EXCEPT ![c] = Append(@, ReadableBytes(now))]
    BY <1>2 DEF PostSend
  <2> HIDE DEF c, more
  <2> QED
    BY <1>0, <1>1, <2>1, <2>2
<1>8. leaked' \in Nat
  BY <1>0, <1>2 DEF Contexts
<1>9. /\ cq' \in Seq(Completion)
      /\ \A j : j # i /\ HasWrite(cq, j) => HasWrite(cq', j)
  BY <1>0, <1>2, TailKeepsWrite
<1>10. /\ socket' \in [Slot -> Nat]
       /\ net' \in [Conn -> NetState]
       /\ players' \subseteq (Slot \X Nat)
       /\ SlotsMatch' /\ Numbered' /\ PlayersAreThePeers'
       /\ \A j \in Slot : InUse(j)' => InUse(j) /\ socket'[j] = socket[j]
  BY <1>2, SlotsKept
<1>11. TypeOK'
  BY <1>2, <1>5, <1>6, <1>7, <1>8, <1>9, <1>10 DEF IInv, TypeOK, PeerTypeOK, Turns
<1>12. BuffersInOrder'
  BY <1>0, <1>2, <1>5 DEF BuffersInOrder
<1>13. SendsUnderWay'
  <2> SUFFICES ASSUME NEW j \in Slot, InUse(j)'
               PROVE  /\ HasBytes(j)' => wsa_send'[j] = TRUE
                      /\ wsa_send'[j] = TRUE => WriteOutstanding(j)'
    BY DEF SendsUnderWay
  <2>1. InUse(j) /\ socket'[j] = socket[j] /\ socket[j] \in Conn
    BY <1>10 DEF IInv, SlotsMatch
  <2>2. CASE j = i
    <3>1. HasBytes(j)' => more
      BY <1>4, <1>5, <2>2 DEF HasBytes
    <3>2. more => posted
      BY <1>2, <2>2, ClosedIsFree
    <3>3. more => sends'[socket'[j]] # << >>
      BY <1>7, <2>1, <2>2, <3>2
    <3> QED
      BY <1>6, <2>2, <3>1, <3>3 DEF WriteOutstanding
  <2>3. CASE j # i
    <3>1. HasBytes(j)' <=> HasBytes(j)
      BY <1>5, <2>3 DEF HasBytes
    <3>2. WriteOutstanding(j) => WriteOutstanding(j)'
      BY <1>7, <1>9, <2>1, <2>3 DEF WriteOutstanding, HasWrite
    <3> QED
      BY <1>0, <1>6, <2>1, <2>3, <3>1, <3>2 DEF SendsUnderWay
  <2> QED
    BY <2>2, <2>3
<1> QED
  BY <1>10, <1>11, <1>12, <1>13 DEF IInv

-----------------------------------------------------------------------------
(* The paths of onEventTick().                                             *)
LEMMA EventKeeps ==
  ASSUME IInv, OnEventTick
  PROVE  IInv'
<1>0. /\ cq \in Seq(Completion) /\ leaked \in Nat /\ down \in Exception
      /\ {"no", "full", "read_move", "write_move", "error"} = Exception
  BY DEF IInv, TypeOK, Exception
<1>1. CASE EventTimeout
  BY <1>0, <1>1, IdleKeeps DEF EventTimeout, Turns
<1>2. ASSUME cq # << >>
      PROVE  /\ Head(cq).key \in Slot /\ Head(cq).bytes \in Nat
             /\ Tail(cq) \in Seq(Completion)
             /\ \A i : HasWrite(cq, i) /\ ~(Head(cq).key = i /\ Head(cq).io = "write")
                         => HasWrite(Tail(cq), i)
  BY <1>0, <1>2, TailKeepsWrite DEF Completion
<1>3. CASE EventNetnameDeleted
  <2>1. /\ cq # << >> /\ Turns /\ cq' = Tail(cq)
        /\ IF InUse(Head(cq).key) THEN ClosePeer(Head(cq).key) ELSE StaysOpen
        /\ UNCHANGED <<serial, bufVars, m_serial, key, recvs, sends, rest, down,
                       accepted, eaten, wired, leaked>>
    BY <1>3 DEF EventNetnameDeleted, Dequeue, Turns
  <2>2. PICK i \in Slot : i = Head(cq).key
    BY <1>2, <2>1
  <2>3. ~InUse(i)'
    BY <2>1, <2>2, ClosedIsFree DEF StaysOpen, InUse
  <2>4. \A j \in Slot : InUse(j)' /\ HasWrite(cq, j) => HasWrite(cq', j)
    BY <1>2, <2>1, <2>2, <2>3
  <2>5. StaysOpen \/ \E j \in Slot : InUse(j) /\ ClosePeer(j)
    BY <2>1, <2>2
  <2> QED
    BY <1>2, <2>1, <2>4, <2>5, CloseKeeps
<1>4. CASE EventOtherError
  BY <1>0, <1>4, IdleKeeps DEF EventOtherError, Dequeue, Turns
<1>5. CASE EventSlotFree
  <2>1. /\ cq # << >> /\ Turns /\ cq' = Tail(cq) /\ leaked' = leaked + 1
        /\ ~InUse(Head(cq).key)
        /\ UNCHANGED <<peerVars, netVars, down, appVars, wired>>
    BY <1>5 DEF EventSlotFree, Dequeue, Turns
  <2> QED
    BY <1>0, <1>2, <2>1, IdleKeeps
<1>6. CASE EventShutdown
  <2>1. /\ cq # << >> /\ Turns /\ cq' = Tail(cq) /\ Head(cq).io = "read"
        /\ InUse(Head(cq).key) /\ ClosePeer(Head(cq).key)
        /\ UNCHANGED <<serial, bufVars, m_serial, key, recvs, sends, rest, down,
                       accepted, eaten, wired, leaked>>
    BY <1>6 DEF EventShutdown, Dequeue, Turns
  <2> QED
    BY <1>2, <2>1, CloseKeeps
<1>7. CASE EventRead
  <2>1. /\ cq # << >> /\ Turns /\ Head(cq).io = "read" /\ InUse(Head(cq).key)
    BY <1>7 DEF EventRead, Dequeue, Turns
  <2>2. CASE WriteMoveThrows(read_buf[Head(cq).key], Head(cq).bytes)
    <3>1. /\ down' = "write_move"
          /\ UNCHANGED <<peerVars, netVars, cq, appVars, wired, leaked>>
      BY <1>7, <2>2 DEF EventRead
    <3> QED
      BY <1>0, <2>1, <3>1, IdleKeeps
  <2>3. CASE ~WriteMoveThrows(read_buf[Head(cq).key], Head(cq).bytes)
    <3>1. PICK take \in 0..(ReadableBytes(read_buf[Head(cq).key]) + Head(cq).bytes),
               m \in Outbox, keep \in BOOLEAN, posted \in BOOLEAN :
                 ProcessRead(Head(cq).key, Head(cq).bytes, take, m, keep, posted)
      BY <1>7, <2>3 DEF EventRead
    <3> QED
      BY <1>2, <2>1, <2>3, <3>1, ReadKeeps
  <2> QED
    BY <2>2, <2>3
<1>8. CASE EventWrite
  <2>1. cq # << >> /\ Turns /\ InUse(Head(cq).key)
    BY <1>8 DEF EventWrite, Dequeue, Turns
  <2>2. CASE ReadMoveThrows(write_buf[Head(cq).key], Head(cq).bytes)
    <3>1. /\ down' = "read_move"
          /\ UNCHANGED <<peerVars, netVars, cq, appVars, wired, leaked>>
      BY <1>8, <2>2 DEF EventWrite
    <3> QED
      BY <1>0, <2>1, <3>1, IdleKeeps
  <2>3. CASE ~ReadMoveThrows(write_buf[Head(cq).key], Head(cq).bytes)
    <3>1. PICK posted \in BOOLEAN : ProcessWrite(Head(cq).key, Head(cq).bytes, posted)
      BY <1>8, <2>3 DEF EventWrite
    <3> QED
      BY <1>2, <2>1, <2>3, <3>1, WriteKeeps
  <2> QED
    BY <2>2, <2>3
<1> QED
  BY <1>1, <1>3, <1>4, <1>5, <1>6, <1>7, <1>8 DEF OnEventTick

(* A frame in which the application sends.                                 *)
LEMMA FrameSendKeeps ==
  ASSUME IInv, FrameSend
  PROVE  IInv'
<1>0. cq \in Seq(Completion) /\ BuffersInOrder /\ SendsUnderWay
  BY DEF IInv, TypeOK
<1>1. PICK m \in Outbox : SendMessage(m, cq)
  BY DEF FrameSend
<1>2. /\ Turns
      /\ UNCHANGED <<socket, serial, read_buf, write_buf, m_serial, netVars, down,
                     players, eaten, wired, leaked>>
  BY DEF FrameSend, Frame, Turns
<1>3. /\ write_buf_backup' \in [Slot -> SockBufType]
      /\ \A j \in Slot : WellFormed(write_buf_backup'[j])
      /\ wsa_send' \in [Slot -> BOOLEAN]
      /\ accepted' \in [Conn -> Nat]
      /\ cq' \in Seq(Completion)
      /\ \A j : HasWrite(cq, j) => HasWrite(cq', j)
      /\ \A j \in Slot :
           \/ write_buf_backup'[j] = write_buf_backup[j] /\ wsa_send'[j] = wsa_send[j]
           \/ wsa_send'[j] = TRUE /\ (wsa_send[j] = TRUE \/ HasWrite(cq', j))
  BY <1>0, <1>1, SendMessageFacts
<1>4. /\ socket' \in [Slot -> Nat]
      /\ net' \in [Conn -> NetState]
      /\ players' \subseteq (Slot \X Nat)
      /\ SlotsMatch' /\ Numbered' /\ PlayersAreThePeers'
      /\ \A j \in Slot : InUse(j)' => InUse(j) /\ socket'[j] = socket[j]
  <2>1. StaysOpen /\ UNCHANGED <<serial, m_serial, key>>
    BY <1>2 DEF StaysOpen, netVars
  <2> QED
    BY <2>1, SlotsKept
<1>5. TypeOK'
  BY <1>2, <1>3, <1>4 DEF IInv, TypeOK, PeerTypeOK, Turns, netVars
<1>6. BuffersInOrder'
  BY <1>0, <1>2, <1>3 DEF BuffersInOrder
<1>7. SendsUnderWay'
  <2> SUFFICES ASSUME NEW j \in Slot, InUse(j)'
               PROVE  /\ HasBytes(j)' => wsa_send'[j] = TRUE
                      /\ wsa_send'[j] = TRUE => WriteOutstanding(j)'
    BY DEF SendsUnderWay
  <2>1. InUse(j) /\ socket'[j] = socket[j] /\ sends' = sends /\ write_buf'[j] = write_buf[j]
    BY <1>2, <1>4 DEF netVars
  <2>2. WriteOutstanding(j)' <=> (sends'[socket'[j]] # << >> \/ HasWrite(cq', j))
    BY DEF WriteOutstanding, HasWrite
  <2>3. WriteOutstanding(j) => WriteOutstanding(j)'
    BY <1>3, <2>1, <2>2, OutstandingIs
  <2>4. /\ HasBytes(j) => wsa_send[j] = TRUE
        /\ wsa_send[j] = TRUE => WriteOutstanding(j)
    BY <1>0, <2>1 DEF SendsUnderWay
  <2>5. CASE write_buf_backup'[j] = write_buf_backup[j] /\ wsa_send'[j] = wsa_send[j]
    <3>1. HasBytes(j)' <=> HasBytes(j)
      BY <2>1, <2>5 DEF HasBytes
    <3> QED
      BY <2>3, <2>4, <2>5, <3>1
  <2>6. CASE wsa_send'[j] = TRUE /\ (wsa_send[j] = TRUE \/ HasWrite(cq', j))
    BY <2>2, <2>3, <2>4, <2>6
  <2> QED
    BY <1>3, <2>5, <2>6
<1> QED
  BY <1>4, <1>5, <1>6, <1>7 DEF IInv

(* Every step keeps the invariant.                                         *)
LEMMA StepInv == IInv /\ [Next]_vars => IInv'
<1> SUFFICES ASSUME IInv, [Next]_vars
             PROVE  IInv'
  OBVIOUS
<1>0. cq \in Seq(Completion) /\ leaked \in Nat /\ down \in Exception
      /\ pc \in {"accept", "event", "frame"} /\ "full" \in Exception
  BY DEF IInv, TypeOK, Exception
<1>1. CASE UNCHANGED vars
  BY <1>0, <1>1, IdleKeeps DEF vars, Turns
<1>2. ASSUME Turns, Register
      PROVE  IInv'
  <2>1. ASSUME NEW c \in Conn, RegisterOverflow(c)
        PROVE  IInv'
    BY <1>0, <1>2, <2>1, IdleKeeps DEF RegisterOverflow
  <2>2. ASSUME NEW c \in Conn, NEW i \in Slot, RegisterSocket(c, i)
        PROVE  IInv'
    BY <1>2, <2>2, RegisterKeeps
  <2> QED
    BY <1>2, <2>1, <2>2 DEF Register
<1>3. CASE OnAcceptTick
  <2>1. Turns /\ (Register \/ NoRequest)
    BY <1>3 DEF OnAcceptTick, Turns
  <2>2. CASE NoRequest
    BY <1>0, <2>1, <2>2, IdleKeeps DEF NoRequest
  <2> QED
    BY <1>2, <2>1, <2>2
<1>4. CASE ConnectPeer
  BY <1>2, <1>4 DEF ConnectPeer, Frame, Turns
<1>5. CASE FrameClose
  <2>1. PICK h \in Handle : Valid(h[1], h[2]) /\ ClosePeer(h[1])
    BY <1>5 DEF FrameClose
  <2>2. h[1] \in Slot /\ InUse(h[1])
    BY <2>1 DEF Handle, Valid, IInv, TypeOK
  <2>3. Turns /\ cq' = cq
    BY <1>5 DEF FrameClose, Frame, Turns
  <2>4. UNCHANGED <<serial, bufVars, m_serial, key, recvs, sends, rest, down,
                    accepted, eaten, wired, leaked>>
    BY <1>5 DEF FrameClose
  <2> QED
    BY <1>0, <2>1, <2>2, <2>3, <2>4, CloseKeeps
<1>6. ASSUME NEW c \in Conn, Kernel(c) \/ RemoteCloses(c) \/ RemoteResets(c)
      PROVE  IInv'
  BY <1>6, KernelKeeps, RemoteKeeps
<1>7. CASE Ended
  BY <1>1, <1>7 DEF Ended
<1> QED
  BY <1>1, <1>3, <1>4, <1>5, <1>6, <1>7, EventKeeps, FrameSendKeeps
     DEF Next, IoThread

-----------------------------------------------------------------------------
(* The invariant holds in every state, whatever the system does with old   *)
(* completions.                                                            *)
THEOREM Invariance == Spec => []IInv
BY InitInv, StepInv, PTL DEF Spec

(* The variables have their types.                                         *)
THEOREM TypeCorrect == Spec => []TypeOK
<1>1. IInv => TypeOK
  BY DEF IInv
<1> QED
  BY <1>1, Invariance, PTL

(* onCon and onDisCon tell the application exactly which connections there *)
(* are: through failing posts, closes inside callbacks, and cancellations  *)
(* that arrive late.                                                       *)
THEOREM TableIsExact == Spec => []PlayersAreThePeers
<1>1. IInv => PlayersAreThePeers
  BY DEF IInv
<1> QED
  BY <1>1, Invariance, PTL

(* A handle never reaches a connection it was not given for.               *)
THEOREM HandlesAreUnique == Spec => []HandlesReachOne
<1>1. IInv => HandlesReachOne
  <2> SUFFICES ASSUME IInv, NEW c \in Conn, net[c] # "none", Valid(key[c], c - 1)
               PROVE  socket[key[c]] = c
    BY DEF HandlesReachOne
  <2>1. key[c] \in Slot /\ InUse(key[c]) /\ serial[key[c]] = c - 1
    BY DEF IInv, TypeOK, Valid
  <2>2. socket[key[c]] \in Conn /\ serial[key[c]] = socket[key[c]] - 1
    BY <2>1 DEF IInv, SlotsMatch
  <2>3. socket[key[c]] \in Nat /\ c \in Nat /\ socket[key[c]] - 1 = c - 1
    BY <2>1, <2>2, Numbers
  <2> QED
    BY <2>3
<1> QED
  BY <1>1, Invariance, PTL

(* Bytes that send() has accepted are never forgotten: a completion that   *)
(* makes the I/O thread send them is always on its way.                    *)
THEOREM NothingIsStranded == Spec => []NoStrandedBytes
<1>1. IInv => NoStrandedBytes
  BY DEF IInv, SendsUnderWay, HasBytes, NoStrandedBytes
<1> QED
  BY <1>1, Invariance, PTL

-----------------------------------------------------------------------------
(* The exact accounting.                                                   *)

(* The completions in a queue; those of a connection and a direction: no   *)
(* one, or one alone, which reports n bytes.                               *)
In(q) == {q[k] : k \in 1..Len(q)}
Belongs(e, c, io) == e.sock = c /\ e.io = io
NoneOf(q, c, io) == \A k \in 1..Len(q) : ~Belongs(q[k], c, io)
Only(q, c, io, n) ==
  \E k \in 1..Len(q) :
    /\ Belongs(q[k], c, io) /\ q[k].bytes = n
    /\ \A j \in 1..Len(q) : Belongs(q[j], c, io) => j = k

(* The receive of the connection c is pending for the whole room of its    *)
(* buffer, or it is in the queue and its bytes fit; rcv are the pending    *)
(* receives, eat the bytes consumed, left those still to come.             *)
ReadOK(rcv, q, c, eat, left, buf) ==
  \/ /\ rcv = <<WritableBytes(buf)>> /\ NoneOf(q, c, "read")
     /\ eat + ReadableBytes(buf) = MaxIn - left
  \/ /\ rcv = << >>
     /\ \E n \in 0..WritableBytes(buf) :
          Only(q, c, "read", n) /\ eat + ReadableBytes(buf) + n = MaxIn - left

(* Nothing is being sent; or the whole of the first buffer is; or the send *)
(* is in the queue with the bytes it has sent.                             *)
WriteOK(snd, q, c, flag, acc, wir, buf, behind) ==
  \/ /\ flag = FALSE /\ snd = << >> /\ NoneOf(q, c, "write")
     /\ acc = wir + ReadableBytes(buf) + ReadableBytes(behind)
  \/ /\ flag = TRUE /\ snd = <<ReadableBytes(buf)>> /\ NoneOf(q, c, "write")
     /\ acc = wir + ReadableBytes(buf) + ReadableBytes(behind)
  \/ /\ flag = TRUE /\ snd = << >>
     /\ \E n \in 0..ReadableBytes(buf) :
          /\ Only(q, c, "write", n)
          /\ acc + n = wir + ReadableBytes(buf) + ReadableBytes(behind)

Reads(i) == ReadOK(recvs[socket[i]], cq, socket[i], eaten[socket[i]],
                   rest[socket[i]], read_buf[i])
Writes(i) == WriteOK(sends[socket[i]], cq, socket[i], wsa_send[i],
                     accepted[socket[i]], wired[socket[i]], write_buf[i],
                     write_buf_backup[i])

-----------------------------------------------------------------------------
(* A completion carries the slot of the connection that posted it. *)
Addressed == \A e \in In(cq) : e.key = key[e.sock] /\ net[e.sock] # "none"

(* A connection that is still to come has no history. *)
Fresh ==
  \A c \in Conn : net[c] = "none" =>
    /\ recvs[c] = << >> /\ sends[c] = << >>
    /\ rest[c] = MaxIn /\ accepted[c] = 0 /\ wired[c] = 0 /\ eaten[c] = 0

(* Nothing of the earlier users of a slot in use is under way. *)
PastIsOver ==
  \A i \in Slot : InUse(i) =>
    /\ \A c \in Conn : key[c] = i /\ c # socket[i] => recvs[c] = << >> /\ sends[c] = << >>
    /\ \A e \in In(cq) : e.key = i => e.sock = socket[i]

Exact == \A i \in Slot : InUse(i) => Reads(i) /\ Writes(i)

NoThrow == down \notin {"read_move", "write_move"}

XPart == Addressed /\ Fresh /\ PastIsOver /\ Exact /\ NoThrow
XInv == IInv /\ XPart

-----------------------------------------------------------------------------
(* What an appended completion changes, *)
LEMMA AppendFacts ==
  ASSUME NEW q \in Seq(Completion), NEW e \in Completion, NEW c, NEW io
  PROVE  /\ In(Append(q, e)) = In(q) \cup {e}
         /\ ~Belongs(e, c, io) =>
              /\ NoneOf(q, c, io) => NoneOf(Append(q, e), c, io)
              /\ \A n : Only(q, c, io, n) => Only(Append(q, e), c, io, n)
         /\ Belongs(e, c, io) /\ NoneOf(q, c, io) => Only(Append(q, e), c, io, e.bytes)
<1> DEFINE r == Append(q, e)
<1>1. /\ Len(q) \in Nat /\ Len(r) = Len(q) + 1
      /\ \A k \in 1..Len(q) : r[k] = q[k]
      /\ r[Len(q) + 1] = e
  BY AppendProperties, LenProperties
<1> HIDE DEF r
<1>2. 1..Len(r) = 1..Len(q) \cup {Len(q) + 1} /\ Len(q) + 1 \notin 1..Len(q)
  BY <1>1
<1>3. In(r) = In(q) \cup {e}
  BY <1>1, <1>2 DEF In
<1>4. ASSUME ~Belongs(e, c, io), NoneOf(q, c, io)
      PROVE  NoneOf(r, c, io)
  BY <1>1, <1>2, <1>4 DEF NoneOf
<1>5. ASSUME ~Belongs(e, c, io), NEW n, Only(q, c, io, n)
      PROVE  Only(r, c, io, n)
  <2>1. PICK k \in 1..Len(q) :
          /\ Belongs(q[k], c, io) /\ q[k].bytes = n
          /\ \A j \in 1..Len(q) : Belongs(q[j], c, io) => j = k
    BY <1>5 DEF Only
  <2>2. k \in 1..Len(r) /\ Belongs(r[k], c, io) /\ r[k].bytes = n
    BY <1>1, <1>2, <2>1
  <2>3. \A j \in 1..Len(r) : Belongs(r[j], c, io) => j = k
    BY <1>1, <1>2, <1>5, <2>1
  <2> QED
    BY <2>2, <2>3 DEF Only
<1>6. ASSUME Belongs(e, c, io), NoneOf(q, c, io)
      PROVE  Only(r, c, io, e.bytes)
  <2>1. Len(q) + 1 \in 1..Len(r) /\ Belongs(r[Len(q) + 1], c, io)
        /\ r[Len(q) + 1].bytes = e.bytes
    BY <1>1, <1>2, <1>6
  <2>2. \A j \in 1..Len(r) : Belongs(r[j], c, io) => j = Len(q) + 1
    BY <1>1, <1>2, <1>6 DEF NoneOf
  <2> QED
    BY <2>1, <2>2 DEF Only
<1> QED
  BY <1>3, <1>4, <1>5, <1>6 DEF r

(* and one that is taken from the front.                                   *)
LEMMA TailFacts ==
  ASSUME NEW q \in Seq(Completion), q # << >>, NEW c, NEW io
  PROVE  /\ Head(q) \in In(q) /\ In(Tail(q)) \subseteq In(q)
         /\ ~Belongs(Head(q), c, io) =>
              /\ NoneOf(q, c, io) => NoneOf(Tail(q), c, io)
              /\ \A n : Only(q, c, io, n) => Only(Tail(q), c, io, n)
         /\ Belongs(Head(q), c, io) =>
              /\ ~NoneOf(q, c, io)
              /\ \A n : Only(q, c, io, n) =>
                   n = Head(q).bytes /\ NoneOf(Tail(q), c, io)
<1> DEFINE r == Tail(q)
<1>1. /\ Len(q) \in Nat /\ Len(q) # 0 /\ Len(r) = Len(q) - 1
      /\ \A k \in 1..Len(r) : r[k] = q[k + 1]
      /\ Head(q) = q[1]
  BY HeadTailProperties, LenProperties, EmptySeq
<1> HIDE DEF r
<1>2. 1 \in 1..Len(q) /\ \A k \in 1..Len(r) : k + 1 \in 1..Len(q) /\ k + 1 # 1
  BY <1>1
<1>3. Head(q) \in In(q) /\ In(r) \subseteq In(q)
  BY <1>1, <1>2 DEF In
<1>4. NoneOf(q, c, io) => NoneOf(r, c, io)
  BY <1>1, <1>2 DEF NoneOf
<1>5. ASSUME ~Belongs(Head(q), c, io), NEW n, Only(q, c, io, n)
      PROVE  Only(r, c, io, n)
  <2>1. PICK k \in 1..Len(q) :
          /\ Belongs(q[k], c, io) /\ q[k].bytes = n
          /\ \A j \in 1..Len(q) : Belongs(q[j], c, io) => j = k
    BY <1>5 DEF Only
  <2>2. k # 1
    BY <1>1, <1>5, <2>1
  <2>3. k - 1 \in 1..Len(r) /\ r[k - 1] = q[k]
    BY <1>1, <2>2
  <2>4. \A j \in 1..Len(r) : Belongs(r[j], c, io) => j = k - 1
    <3> SUFFICES ASSUME NEW j \in 1..Len(r), Belongs(r[j], c, io)
                 PROVE  j = k - 1
      OBVIOUS
    <3>1. j + 1 = k
      BY <1>1, <1>2, <2>1
    <3> QED
      BY <3>1
  <2> QED
    BY <2>1, <2>3, <2>4 DEF Only
<1>6. ASSUME Belongs(Head(q), c, io)
      PROVE  ~NoneOf(q, c, io)
  BY <1>1, <1>2, <1>6 DEF NoneOf
<1>7. ASSUME Belongs(Head(q), c, io), NEW n, Only(q, c, io, n)
      PROVE  n = Head(q).bytes /\ NoneOf(r, c, io)
  <2>1. PICK k \in 1..Len(q) :
          /\ Belongs(q[k], c, io) /\ q[k].bytes = n
          /\ \A j \in 1..Len(q) : Belongs(q[j], c, io) => j = k
    BY <1>7 DEF Only
  <2>2. k = 1
    BY <1>1, <1>2, <1>7, <2>1
  <2>3. \A j \in 1..Len(r) : ~Belongs(r[j], c, io)
    BY <1>1, <1>2, <2>1, <2>2
  <2> QED
    BY <1>1, <2>1, <2>2, <2>3 DEF NoneOf
<1> QED
  BY <1>3, <1>4, <1>5, <1>6, <1>7 DEF r

(* Completions of others leave a connection's accounts as they are.        *)
LEMMA OthersAppend ==
  ASSUME NEW q \in Seq(Completion), NEW e \in Completion, NEW c
  PROVE  /\ ~Belongs(e, c, "read") =>
              \A rcv, eat, left, buf :
                ReadOK(rcv, q, c, eat, left, buf) =>
                  ReadOK(rcv, Append(q, e), c, eat, left, buf)
         /\ ~Belongs(e, c, "write") =>
              \A snd, flag, acc, wir, buf, behind :
                WriteOK(snd, q, c, flag, acc, wir, buf, behind) =>
                  WriteOK(snd, Append(q, e), c, flag, acc, wir, buf, behind)
<1>1. ASSUME NEW rcv, NEW eat, NEW left, NEW buf, ~Belongs(e, c, "read"),
             ReadOK(rcv, q, c, eat, left, buf)
      PROVE  ReadOK(rcv, Append(q, e), c, eat, left, buf)
  <2>1. /\ NoneOf(q, c, "read") => NoneOf(Append(q, e), c, "read")
        /\ \A n : Only(q, c, "read", n) => Only(Append(q, e), c, "read", n)
    BY <1>1, AppendFacts
  <2> QED
    BY <1>1, <2>1 DEF ReadOK
<1>2. ASSUME NEW snd, NEW flag, NEW acc, NEW wir, NEW buf, NEW behind,
             ~Belongs(e, c, "write"),
             WriteOK(snd, q, c, flag, acc, wir, buf, behind)
      PROVE  WriteOK(snd, Append(q, e), c, flag, acc, wir, buf, behind)
  <2>1. /\ NoneOf(q, c, "write") => NoneOf(Append(q, e), c, "write")
        /\ \A n : Only(q, c, "write", n) => Only(Append(q, e), c, "write", n)
    BY <1>2, AppendFacts
  <2> QED
    BY <1>2, <2>1 DEF WriteOK
<1> QED
  BY <1>1, <1>2

LEMMA OthersTail ==
  ASSUME NEW q \in Seq(Completion), q # << >>, NEW c
  PROVE  /\ ~Belongs(Head(q), c, "read") =>
              \A rcv, eat, left, buf :
                ReadOK(rcv, q, c, eat, left, buf) =>
                  ReadOK(rcv, Tail(q), c, eat, left, buf)
         /\ ~Belongs(Head(q), c, "write") =>
              \A snd, flag, acc, wir, buf, behind :
                WriteOK(snd, q, c, flag, acc, wir, buf, behind) =>
                  WriteOK(snd, Tail(q), c, flag, acc, wir, buf, behind)
<1>1. ASSUME NEW rcv, NEW eat, NEW left, NEW buf, ~Belongs(Head(q), c, "read"),
             ReadOK(rcv, q, c, eat, left, buf)
      PROVE  ReadOK(rcv, Tail(q), c, eat, left, buf)
  <2>1. /\ NoneOf(q, c, "read") => NoneOf(Tail(q), c, "read")
        /\ \A n : Only(q, c, "read", n) => Only(Tail(q), c, "read", n)
    BY <1>1, TailFacts
  <2> QED
    BY <1>1, <2>1 DEF ReadOK
<1>2. ASSUME NEW snd, NEW flag, NEW acc, NEW wir, NEW buf, NEW behind,
             ~Belongs(Head(q), c, "write"),
             WriteOK(snd, q, c, flag, acc, wir, buf, behind)
      PROVE  WriteOK(snd, Tail(q), c, flag, acc, wir, buf, behind)
  <2>1. /\ NoneOf(q, c, "write") => NoneOf(Tail(q), c, "write")
        /\ \A n : Only(q, c, "write", n) => Only(Tail(q), c, "write", n)
    BY <1>2, TailFacts
  <2> QED
    BY <1>2, <2>1 DEF WriteOK
<1> QED
  BY <1>1, <1>2

-----------------------------------------------------------------------------
(* The accounts of one connection.  A pending receive completes; *)
LEMMA ReceiveCompletes ==
  ASSUME NEW rcv \in Seq(Nat), rcv # << >>, NEW q \in Seq(Completion),
         NEW e \in Completion, NEW c, NEW eat \in Nat, NEW left \in Nat, NEW buf,
         WellFormed(buf), e.bytes <= left,
         ReadOK(rcv, q, c, eat, left, buf), Belongs(e, c, "read"), e.bytes <= Head(rcv)
  PROVE  ReadOK(Tail(rcv), Append(q, e), c, eat, left - e.bytes, buf)
<1>1. /\ rcv = <<WritableBytes(buf)>> /\ NoneOf(q, c, "read")
      /\ eat + ReadableBytes(buf) = MaxIn - left
  BY DEF ReadOK
<1>2. Tail(rcv) = << >> /\ Head(rcv) = WritableBytes(buf)
  BY <1>1
<1>3. Only(Append(q, e), c, "read", e.bytes)
  BY <1>1, AppendFacts
<1>4. e.bytes \in Nat /\ ReadableBytes(buf) \in Nat /\ WritableBytes(buf) \in Nat
  BY RoomIsNat DEF Completion
<1>5. e.bytes \in 0..WritableBytes(buf)
  BY <1>2, <1>4
<1>6. eat + ReadableBytes(buf) + e.bytes = MaxIn - (left - e.bytes)
  BY <1>1, <1>4, Numbers
<1> QED
  BY <1>2, <1>3, <1>5, <1>6 DEF ReadOK

(* a pending send completes, perhaps with a part. *)
LEMMA SendCompletes ==
  ASSUME NEW snd \in Seq(Nat), snd # << >>, NEW q \in Seq(Completion),
         NEW e \in Completion, NEW c, NEW flag, NEW acc \in Nat, NEW wir \in Nat,
         NEW buf, NEW behind, WellFormed(buf), WellFormed(behind),
         WriteOK(snd, q, c, flag, acc, wir, buf, behind),
         Belongs(e, c, "write"), e.bytes <= Head(snd)
  PROVE  WriteOK(Tail(snd), Append(q, e), c, flag, acc, wir + e.bytes, buf, behind)
<1>1. /\ flag = TRUE /\ snd = <<ReadableBytes(buf)>> /\ NoneOf(q, c, "write")
      /\ acc = wir + ReadableBytes(buf) + ReadableBytes(behind)
  BY DEF WriteOK
<1>2. Tail(snd) = << >> /\ Head(snd) = ReadableBytes(buf)
  BY <1>1
<1>3. Only(Append(q, e), c, "write", e.bytes)
  BY <1>1, AppendFacts
<1>4. e.bytes \in Nat /\ ReadableBytes(buf) \in Nat /\ ReadableBytes(behind) \in Nat
  BY RoomIsNat DEF Completion
<1>5. e.bytes \in 0..ReadableBytes(buf)
  BY <1>2, <1>4
<1>6. acc + e.bytes = (wir + e.bytes) + ReadableBytes(buf) + ReadableBytes(behind)
  BY <1>1, <1>4
<1> QED
  BY <1>1, <1>2, <1>3, <1>5, <1>6 DEF WriteOK

(* send() puts len bytes behind, while something is under way or with a    *)
(* signal of its own.                                                      *)
LEMMA SendAccounted ==
  ASSUME NEW q \in Seq(Completion), NEW c, NEW snd, NEW flag \in BOOLEAN,
         NEW acc \in Nat, NEW wir \in Nat, NEW buf, NEW behind,
         WellFormed(buf), WellFormed(behind), NEW len \in Nat,
         WriteOK(snd, q, c, flag, acc, wir, buf, behind),
         NEW e \in Completion, Belongs(e, c, "write"), e.bytes = 0
  PROVE  /\ flag => WriteOK(snd, q, c, TRUE, acc + len, wir, buf, ApendBuf(behind, len))
         /\ ~flag => WriteOK(snd, Append(q, e), c, TRUE, acc + len, wir, buf,
                             ApendBuf(behind, len))
<1> DEFINE more == ApendBuf(behind, len)
<1>1. /\ ReadableBytes(buf) \in Nat /\ ReadableBytes(behind) \in Nat
      /\ ReadableBytes(more) = ReadableBytes(behind) + len
  BY RoomIsNat, ApendBufWellFormed
<1> HIDE DEF more
<1>2. ASSUME flag
      PROVE  WriteOK(snd, q, c, TRUE, acc + len, wir, buf, more)
  <2>1. CASE snd = <<ReadableBytes(buf)>> /\ NoneOf(q, c, "write")
             /\ acc = wir + ReadableBytes(buf) + ReadableBytes(behind)
    <3>1. acc + len = wir + ReadableBytes(buf) + ReadableBytes(more)
      BY <1>1, <2>1
    <3> QED
      BY <2>1, <3>1 DEF WriteOK
  <2>2. ASSUME snd = << >>, NEW n \in 0..ReadableBytes(buf), Only(q, c, "write", n),
               acc + n = wir + ReadableBytes(buf) + ReadableBytes(behind)
        PROVE  WriteOK(snd, q, c, TRUE, acc + len, wir, buf, more)
    <3>1. (acc + len) + n = wir + ReadableBytes(buf) + ReadableBytes(more)
      BY <1>1, <2>2
    <3> QED
      BY <2>2, <3>1 DEF WriteOK
  <2> QED
    BY <1>2, <2>1, <2>2 DEF WriteOK
<1>3. ASSUME ~flag
      PROVE  WriteOK(snd, Append(q, e), c, TRUE, acc + len, wir, buf, more)
  <2>1. /\ snd = << >> /\ NoneOf(q, c, "write")
        /\ acc = wir + ReadableBytes(buf) + ReadableBytes(behind)
    BY <1>3 DEF WriteOK
  <2>2. Only(Append(q, e), c, "write", 0)
    BY <1>3, <2>1, AppendFacts
  <2>3. 0 \in 0..ReadableBytes(buf)
        /\ (acc + len) + 0 = wir + ReadableBytes(buf) + ReadableBytes(more)
    BY <1>1, <2>1
  <2> QED
    BY <2>1, <2>2, <2>3 DEF WriteOK
<1> QED
  BY <1>2, <1>3 DEF more

-----------------------------------------------------------------------------
(* The slot of a connection in use, and what the types say of it. *)
LEMMA SlotFacts ==
  ASSUME IInv, NEW i \in Slot, InUse(i)
  PROVE  /\ socket[i] \in Conn /\ key[socket[i]] = i /\ net[socket[i]] # "none"
         /\ \A j \in Slot : InUse(j) /\ socket[j] = socket[i] => j = i
         /\ WellFormed(read_buf[i]) /\ WellFormed(write_buf[i])
         /\ WellFormed(write_buf_backup[i])
         /\ recvs[socket[i]] \in Seq(Nat) /\ sends[socket[i]] \in Seq(Nat)
         /\ rest[socket[i]] \in Nat /\ eaten[socket[i]] \in Nat
         /\ accepted[socket[i]] \in Nat /\ wired[socket[i]] \in Nat
         /\ wsa_send[i] \in BOOLEAN
<1>1. socket[i] \in Conn /\ key[socket[i]] = i /\ net[socket[i]] # "none"
  BY DEF IInv, SlotsMatch
<1>2. \A j \in Slot : InUse(j) /\ socket[j] = socket[i] => j = i
  BY <1>1 DEF IInv, SlotsMatch
<1> QED
  BY <1>1, <1>2 DEF IInv, BuffersInOrder, TypeOK, PeerTypeOK

LEMMA InTypes ==
  ASSUME XInv, NEW e \in In(cq)
  PROVE  e.sock \in Conn /\ e.key \in Slot /\ e.io \in Io
<1>1. cq \in Seq(Completion)
  BY DEF XInv, IInv, TypeOK
<1>2. PICK k \in 1..Len(cq) : e = cq[k]
  BY DEF In
<1>3. cq[k] \in Completion
  BY <1>1, ElementOfSeq
<1> QED
  BY <1>2, <1>3 DEF Completion

(* A completion in the queue that names the connection of a slot in use    *)
(* carries the slot, and the other way round.                              *)
LEMMA QueueNames ==
  ASSUME XInv, NEW i \in Slot, InUse(i), NEW e \in In(cq)
  PROVE  e.key = i <=> e.sock = socket[i]
<1>1. e.key = key[e.sock] /\ (e.key = i => e.sock = socket[i])
  BY DEF XInv, XPart, Addressed, PastIsOver
<1> QED
  BY <1>1, SlotFacts DEF XInv

LEMMA InitExact == Init => XInv
<1> SUFFICES ASSUME Init PROVE XInv
  OBVIOUS
<1>1. IInv
  BY InitInv
<1>2. \A i \in Slot : ~InUse(i)
  BY DEF Init, PeerInit, InUse
<1>3. In(cq) = {}
  <2>1. Len(cq) = 0
    BY EmptySeq DEF Init
  <2> QED
    BY <2>1 DEF In
<1>4. Addressed /\ PastIsOver /\ Exact
  BY <1>2, <1>3 DEF Addressed, PastIsOver, Exact
<1>5. Fresh /\ NoThrow
  BY DEF Init, Fresh, NoThrow
<1> QED
  BY <1>1, <1>4, <1>5 DEF XInv, XPart

-----------------------------------------------------------------------------
(* The system completes a receive of the connection c, with n bytes.       *)
LEMMA ReceiveSideExact ==
  ASSUME XInv, NEW c \in Conn, NEW n \in Nat, NEW res \in Outcome,
         recvs[c] # << >>, n <= Head(recvs[c]), n <= rest[c],
         recvs' = [recvs EXCEPT ![c] = Tail(@)],
         rest' = [rest EXCEPT ![c] = @ - n],
         cq' = Completed(c, "read", n, res),
         UNCHANGED <<peerVars, net, key, sends, down, appVars, wired>>
  PROVE  XPart'
<1> DEFINE e == [key |-> key[c], sock |-> c, io |-> "read", bytes |-> n, res |-> res]
<1>1. /\ e \in Completion /\ e.key = key[c] /\ e.sock = c /\ e.io = "read" /\ e.bytes = n
      /\ cq \in Seq(Completion)
  BY DEF Completion, XInv, IInv, TypeOK, Io
<1>2. cq' = Append(cq, e)
  BY DEF Completed
<1> HIDE DEF e
<1>3. In(cq') = In(cq) \cup {e}
  BY <1>1, <1>2, AppendFacts
<1>4. net[c] # "none"
  BY DEF XInv, XPart, Fresh
<1>5. /\ recvs \in [Conn -> Seq(Nat)] /\ rest \in [Conn -> Nat]
  BY DEF XInv, IInv, TypeOK
<1>6. /\ recvs'[c] = Tail(recvs[c]) /\ rest'[c] = rest[c] - n
      /\ \A d \in Conn : d # c => recvs'[d] = recvs[d] /\ rest'[d] = rest[d]
  BY <1>5
<1>7. \A j \in Slot : (InUse(j)' <=> InUse(j)) /\ socket'[j] = socket[j]
  BY DEF peerVars, InUse
<1>8. Addressed'
  BY <1>1, <1>3, <1>4 DEF XInv, XPart, Addressed
<1>9. Fresh'
  BY <1>4, <1>6 DEF XInv, XPart, Fresh, appVars
<1>10. \A j \in Slot : InUse(j) /\ key[c] = j => socket[j] = c
  BY DEF XInv, XPart, PastIsOver
<1>11. PastIsOver'
  <2> SUFFICES ASSUME NEW j \in Slot, InUse(j)
               PROVE  /\ \A d \in Conn : key[d] = j /\ d # socket[j] =>
                           recvs'[d] = << >> /\ sends[d] = << >>
                      /\ \A x \in In(cq') : x.key = j => x.sock = socket[j]
    BY <1>7 DEF PastIsOver
  <2>1. /\ \A d \in Conn : key[d] = j /\ d # socket[j] => recvs[d] = << >> /\ sends[d] = << >>
        /\ \A x \in In(cq) : x.key = j => x.sock = socket[j]
    BY DEF XInv, XPart, PastIsOver
  <2> QED
    BY <1>1, <1>3, <1>6, <1>10, <2>1
<1>12. Exact'
  <2> SUFFICES ASSUME NEW j \in Slot, InUse(j)
               PROVE  Reads(j)' /\ Writes(j)'
    BY <1>7 DEF Exact
  <2>1. Reads(j) /\ Writes(j) /\ socket[j] \in Conn /\ socket'[j] = socket[j]
    BY <1>7, SlotFacts DEF XInv, XPart, Exact
  <2>2. Writes(j)'
    <3>1. ~Belongs(e, socket[j], "write")
      BY <1>1 DEF Belongs
    <3> QED
      BY <1>1, <1>2, <2>1, <3>1, OthersAppend DEF Writes, peerVars, bufVars, appVars
  <2>3. Reads(j)'
    <3>1. CASE socket[j] = c
      <4>1. Belongs(e, c, "read")
        BY <1>1 DEF Belongs
      <4>2. /\ recvs[c] \in Seq(Nat) /\ rest[c] \in Nat /\ eaten[c] \in Nat
            /\ WellFormed(read_buf[j])
        BY <3>1, SlotFacts DEF XInv
      <4>3. ReadOK(recvs[c], cq, c, eaten[c], rest[c], read_buf[j])
        BY <2>1, <3>1 DEF Reads
      <4>4. ReadOK(Tail(recvs[c]), Append(cq, e), c, eaten[c], rest[c] - e.bytes, read_buf[j])
        BY <1>1, <4>1, <4>2, <4>3, ReceiveCompletes
      <4> QED
        BY <1>1, <1>2, <1>6, <2>1, <3>1, <4>4 DEF Reads, peerVars, bufVars, appVars
    <3>2. CASE socket[j] # c
      <4>1. ~Belongs(e, socket[j], "read")
        BY <1>1, <3>2 DEF Belongs
      <4>2. ReadOK(recvs[socket[j]], cq', socket[j], eaten[socket[j]],
                   rest[socket[j]], read_buf[j])
        BY <1>1, <1>2, <2>1, <4>1, OthersAppend DEF Reads
      <4>3. recvs'[socket[j]] = recvs[socket[j]] /\ rest'[socket[j]] = rest[socket[j]]
        BY <1>6, <2>1, <3>2
      <4> QED
        BY <2>1, <4>2, <4>3 DEF Reads, peerVars, bufVars, appVars
    <3> QED
      BY <3>1, <3>2
  <2> QED
    BY <2>2, <2>3
<1>13. NoThrow'
  BY DEF XInv, XPart, NoThrow
<1> QED
  BY <1>8, <1>9, <1>11, <1>12, <1>13 DEF XPart

(* The system completes a send of the connection c, of n bytes.            *)
LEMMA SendSideExact ==
  ASSUME XInv, NEW c \in Conn, NEW n \in Nat, NEW res \in Outcome,
         sends[c] # << >>, n <= Head(sends[c]),
         sends' = [sends EXCEPT ![c] = Tail(@)],
         wired' = [wired EXCEPT ![c] = @ + n],
         cq' = Completed(c, "write", n, res),
         UNCHANGED <<peerVars, net, key, recvs, rest, down, appVars>>
  PROVE  XPart'
<1> DEFINE e == [key |-> key[c], sock |-> c, io |-> "write", bytes |-> n, res |-> res]
<1>1. /\ e \in Completion /\ e.key = key[c] /\ e.sock = c /\ e.io = "write" /\ e.bytes = n
      /\ cq \in Seq(Completion)
  BY DEF Completion, XInv, IInv, TypeOK, Io
<1>2. cq' = Append(cq, e)
  BY DEF Completed
<1> HIDE DEF e
<1>3. In(cq') = In(cq) \cup {e}
  BY <1>1, <1>2, AppendFacts
<1>4. net[c] # "none"
  BY DEF XInv, XPart, Fresh
<1>5. sends \in [Conn -> Seq(Nat)] /\ wired \in [Conn -> Nat]
  BY DEF XInv, IInv, TypeOK
<1>6. /\ sends'[c] = Tail(sends[c]) /\ wired'[c] = wired[c] + n
      /\ \A d \in Conn : d # c => sends'[d] = sends[d] /\ wired'[d] = wired[d]
  BY <1>5
<1>7. \A j \in Slot : (InUse(j)' <=> InUse(j)) /\ socket'[j] = socket[j]
  BY DEF peerVars, InUse
<1>8. Addressed'
  BY <1>1, <1>3, <1>4 DEF XInv, XPart, Addressed
<1>9. Fresh'
  BY <1>4, <1>6 DEF XInv, XPart, Fresh, appVars
<1>10. \A j \in Slot : InUse(j) /\ key[c] = j => socket[j] = c
  BY DEF XInv, XPart, PastIsOver
<1>11. PastIsOver'
  <2> SUFFICES ASSUME NEW j \in Slot, InUse(j)
               PROVE  /\ \A d \in Conn : key[d] = j /\ d # socket[j] =>
                           recvs[d] = << >> /\ sends'[d] = << >>
                      /\ \A x \in In(cq') : x.key = j => x.sock = socket[j]
    BY <1>7 DEF PastIsOver
  <2>1. /\ \A d \in Conn : key[d] = j /\ d # socket[j] => recvs[d] = << >> /\ sends[d] = << >>
        /\ \A x \in In(cq) : x.key = j => x.sock = socket[j]
    BY DEF XInv, XPart, PastIsOver
  <2> QED
    BY <1>1, <1>3, <1>6, <1>10, <2>1
<1>12. Exact'
  <2> SUFFICES ASSUME NEW j \in Slot, InUse(j)
               PROVE  Reads(j)' /\ Writes(j)'
    BY <1>7 DEF Exact
  <2>1. Reads(j) /\ Writes(j) /\ socket[j] \in Conn /\ socket'[j] = socket[j]
    BY <1>7, SlotFacts DEF XInv, XPart, Exact
  <2>2. Reads(j)'
    <3>1. ~Belongs(e, socket[j], "read")
      BY <1>1 DEF Belongs
    <3> QED
      BY <1>1, <1>2, <2>1, <3>1, OthersAppend DEF Reads, peerVars, bufVars, appVars
  <2>3. Writes(j)'
    <3>1. CASE socket[j] = c
      <4>1. Belongs(e, c, "write")
        BY <1>1 DEF Belongs
      <4>2. /\ sends[c] \in Seq(Nat) /\ accepted[c] \in Nat /\ wired[c] \in Nat
            /\ WellFormed(write_buf[j]) /\ WellFormed(write_buf_backup[j])
        BY <3>1, SlotFacts DEF XInv
      <4>3. WriteOK(sends[c], cq, c, wsa_send[j], accepted[c], wired[c], write_buf[j],
                    write_buf_backup[j])
        BY <2>1, <3>1 DEF Writes
      <4>4. WriteOK(Tail(sends[c]), Append(cq, e), c, wsa_send[j], accepted[c],
                    wired[c] + e.bytes, write_buf[j], write_buf_backup[j])
        BY <1>1, <4>1, <4>2, <4>3, SendCompletes
      <4> QED
        BY <1>1, <1>2, <1>6, <2>1, <3>1, <4>4 DEF Writes, peerVars, bufVars, appVars
    <3>2. CASE socket[j] # c
      <4>1. ~Belongs(e, socket[j], "write")
        BY <1>1, <3>2 DEF Belongs
      <4>2. WriteOK(sends[socket[j]], cq', socket[j], wsa_send[j],
                    accepted[socket[j]], wired[socket[j]], write_buf[j],
                    write_buf_backup[j])
        BY <1>1, <1>2, <2>1, <4>1, OthersAppend DEF Writes
      <4>3. sends'[socket[j]] = sends[socket[j]] /\ wired'[socket[j]] = wired[socket[j]]
        BY <1>6, <2>1, <3>2
      <4> QED
        BY <2>1, <4>2, <4>3 DEF Writes, peerVars, bufVars, appVars
    <3> QED
      BY <3>1, <3>2
  <2> QED
    BY <2>2, <2>3
<1>13. NoThrow'
  BY DEF XInv, XPart, NoThrow
<1> QED
  BY <1>8, <1>9, <1>11, <1>12, <1>13 DEF XPart

LEMMA KernelExact ==
  ASSUME XInv, NEW c \in Conn, Kernel(c)
  PROVE  XPart'
<1>0. /\ {"ok", "netname", "other"} = Outcome /\ Failure \subseteq Outcome
      /\ recvs \in [Conn -> Seq(Nat)] /\ sends \in [Conn -> Seq(Nat)]
      /\ rest \in [Conn -> Nat] /\ wired \in [Conn -> Nat] /\ 0 \in Nat
  BY DEF Outcome, Failure, XInv, IInv, TypeOK
<1>1. /\ rest = [rest EXCEPT ![c] = @ - 0] /\ wired = [wired EXCEPT ![c] = @ + 0]
      /\ 0 <= rest[c]
      /\ recvs[c] # << >> => 0 <= Head(recvs[c])
      /\ sends[c] # << >> => 0 <= Head(sends[c])
  <2>1. /\ recvs[c] # << >> => Head(recvs[c]) \in Nat
        /\ sends[c] # << >> => Head(sends[c]) \in Nat
    BY <1>0, HeadTailProperties
  <2>2. rest[c] \in Nat /\ wired[c] \in Nat
    BY <1>0
  <2> QED
    BY <1>0, <2>1, <2>2
<1>2. ASSUME NEW n \in 1..MaxIn, KernelReceives(c, n)
      PROVE  XPart'
  <2>1. n \in Nat
    BY <1>2, Numbers
  <2> QED
    BY <1>0, <1>2, <2>1, ReceiveSideExact DEF KernelReceives
<1>3. CASE KernelEndOfStream(c)
  BY <1>0, <1>1, <1>3, ReceiveSideExact DEF KernelEndOfStream
<1>4. ASSUME NEW n \in 1..MaxOut, KernelSends(c, n)
      PROVE  XPart'
  <2>1. n \in Nat
    BY <1>4, Numbers
  <2> QED
    BY <1>0, <1>4, <2>1, SendSideExact DEF KernelSends
<1>5. ASSUME NEW res \in Failure, KernelCancelsRecv(c, res)
      PROVE  XPart'
  BY <1>0, <1>1, <1>5, ReceiveSideExact DEF KernelCancelsRecv
<1>6. ASSUME NEW res \in Failure, KernelCancelsSend(c, res)
      PROVE  XPart'
  BY <1>0, <1>1, <1>6, SendSideExact DEF KernelCancelsSend
<1> QED
  BY <1>2, <1>3, <1>4, <1>5, <1>6 DEF Kernel

-----------------------------------------------------------------------------
(* Steps that touch neither the slots nor the accounts. *)
LEMMA IdleExact ==
  ASSUME XInv, NoThrow',
         UNCHANGED <<peerVars, key, recvs, sends, rest, cq, accepted, eaten, wired>>,
         \A c \in Conn : net'[c] # "none" <=> net[c] # "none"
  PROVE  XPart'
<1>1. \A j \in Slot : InUse(j)' <=> InUse(j)
  BY DEF peerVars, InUse
<1>2. \A e \in In(cq) : e.sock \in Conn
  BY InTypes
<1>3. In(cq') = In(cq)
  OBVIOUS
<1>4. Addressed' /\ Fresh'
  BY <1>2, <1>3 DEF XInv, XPart, Addressed, Fresh
<1>5. PastIsOver'
  BY <1>1, <1>3 DEF XInv, XPart, PastIsOver, peerVars
<1>6. Exact'
  BY <1>1 DEF XInv, XPart, Exact, Reads, Writes, peerVars, bufVars
<1> QED
  BY <1>4, <1>5, <1>6 DEF XPart

(* closePeer() of a slot, or nothing: what is left of the history of the   *)
(* other connections is the same.                                          *)
LEMMA NetAfter ==
  ASSUME XInv, StaysOpen \/ \E i \in Slot : InUse(i) /\ ClosePeer(i)
  PROVE  \A c \in Conn : net'[c] # "none" <=> net[c] # "none"
<1>1. net \in [Conn -> NetState]
  BY DEF XInv, IInv, TypeOK
<1>2. CASE StaysOpen
  BY <1>2 DEF StaysOpen
<1>3. ASSUME NEW i \in Slot, InUse(i), ClosePeer(i)
      PROVE  \A c \in Conn : net'[c] # "none" <=> net[c] # "none"
  <2>1. net' = [net EXCEPT ![socket[i]] = "closed"]
    BY <1>3 DEF ClosePeer
  <2>2. socket[i] \in Conn /\ net[socket[i]] # "none"
    BY <1>3, SlotFacts DEF XInv
  <2> QED
    BY <1>1, <2>1, <2>2
<1> QED
  BY <1>2, <1>3

(* Steps that close a peer, or find it closed, and perhaps take a          *)
(* completion whose slot is free now.                                      *)
LEMMA CloseExact ==
  ASSUME XInv,
         UNCHANGED <<serial, bufVars, m_serial, key, recvs, sends, rest, down,
                     accepted, eaten, wired>>,
         StaysOpen \/ \E i \in Slot : InUse(i) /\ ClosePeer(i),
         \/ cq' = cq
         \/ cq # << >> /\ cq' = Tail(cq) /\ socket'[Head(cq).key] = INVALID_SOCKET
  PROVE  XPart'
<1>1. \A j \in Slot : InUse(j)' => InUse(j) /\ socket'[j] = socket[j]
  BY SlotsKept DEF XInv
<1>2. \A c \in Conn : net'[c] # "none" <=> net[c] # "none"
  BY NetAfter
<1>3. cq \in Seq(Completion)
  BY DEF XInv, IInv, TypeOK
<1>4. In(cq') \subseteq In(cq)
  BY <1>3, TailFacts
<1>5. \A e \in In(cq) : e.sock \in Conn
  BY InTypes
<1>6. Addressed' /\ Fresh'
  BY <1>2, <1>4, <1>5 DEF XInv, XPart, Addressed, Fresh
<1>7. PastIsOver'
  BY <1>1, <1>4 DEF XInv, XPart, PastIsOver
<1>8. Exact'
  <2> SUFFICES ASSUME NEW j \in Slot, InUse(j)'
               PROVE  Reads(j)' /\ Writes(j)'
    BY DEF Exact
  <2>1. /\ InUse(j) /\ socket'[j] = socket[j] /\ Reads(j) /\ Writes(j)
    BY <1>1 DEF XInv, XPart, Exact
  <2>2. CASE cq' = cq
    BY <2>1, <2>2 DEF Reads, Writes, bufVars
  <2>3. CASE cq # << >> /\ cq' = Tail(cq) /\ socket'[Head(cq).key] = INVALID_SOCKET
    <3>1. Head(cq) \in In(cq) /\ Head(cq).key # j
      <4>1. Head(cq) \in In(cq)
        BY <1>3, <2>3, TailFacts
      <4>2. socket'[j] # INVALID_SOCKET
        BY DEF InUse
      <4> QED
        BY <2>3, <4>1, <4>2
    <3>2. Head(cq).sock # socket[j]
      BY <2>1, <3>1, QueueNames
    <3>3. ~Belongs(Head(cq), socket[j], "read") /\ ~Belongs(Head(cq), socket[j], "write")
      BY <3>2 DEF Belongs
    <3>4. ReadOK(recvs[socket[j]], cq', socket[j], eaten[socket[j]],
                 rest[socket[j]], read_buf[j])
      BY <1>3, <2>1, <2>3, <3>3, OthersTail DEF Reads
    <3>5. WriteOK(sends[socket[j]], cq', socket[j], wsa_send[j],
                  accepted[socket[j]], wired[socket[j]], write_buf[j],
                  write_buf_backup[j])
      BY <1>3, <2>1, <2>3, <3>3, OthersTail DEF Writes
    <3> QED
      BY <2>1, <3>4, <3>5 DEF Reads, Writes, bufVars
  <2> QED
    BY <2>2, <2>3
<1>9. NoThrow'
  BY DEF XInv, XPart, NoThrow
<1> QED
  BY <1>6, <1>7, <1>8, <1>9 DEF XPart

-----------------------------------------------------------------------------
(* send() with the queue q: the accounts of every slot in use stay exact,  *)
(* and what is new in the queue is the signal of a slot in use.            *)
LEMMA SendMessageExact ==
  ASSUME XInv, NEW m \in Outbox, NEW q \in Seq(Completion), SendMessage(m, q),
         NEW W,  \* the slots whose accounts are exact before
         W \subseteq {j \in Slot : InUse(j)},
         \A j \in W :
           WriteOK(sends[socket[j]], q, socket[j], wsa_send[j], accepted[socket[j]],
                   wired[socket[j]], write_buf[j], write_buf_backup[j])
  PROVE  /\ \A j \in W :
              WriteOK(sends[socket[j]], cq', socket[j], wsa_send'[j],
                      accepted'[socket[j]], wired[socket[j]], write_buf[j],
                      write_buf_backup'[j])
         /\ \A c, rcv, eat, left, buf :
              ReadOK(rcv, q, c, eat, left, buf) => ReadOK(rcv, cq', c, eat, left, buf)
         /\ \A e \in In(cq') :
              e \in In(q) \/ \E i \in Slot : InUse(i) /\ e.key = i /\ e.sock = socket[i]
         /\ \A c \in Conn : net[c] = "none" => accepted'[c] = accepted[c]
<1>1. CASE ~(m.on /\ Valid(m.to[1], m.to[2]))
  <2>1. cq' = q /\ UNCHANGED <<write_buf_backup, wsa_send, accepted>>
    BY <1>1 DEF SendMessage
  <2> QED
    BY <2>1
<1>2. CASE m.on /\ Valid(m.to[1], m.to[2])
  <2> DEFINE i == m.to[1]
             e == [key |-> i, sock |-> socket[i], io |-> "write", bytes |-> 0,
                   res |-> "ok"]
  <2>1. i \in Slot /\ m.len \in Nat
    <3>1. m \in Message
      BY <1>2 DEF Outbox, NoMessage
    <3>2. m.to \in Handle /\ m.len \in 1..MaxOut
      BY <3>1 DEF Message
    <3>3. PICK c \in Conn : m.to = <<key[c], c - 1>>
      BY <3>2 DEF Handle
    <3> QED
      BY <3>2, <3>3, Numbers DEF XInv, IInv, TypeOK
  <2>2. /\ write_buf_backup' = [write_buf_backup EXCEPT ![i] = ApendBuf(@, m.len)]
        /\ wsa_send' = [wsa_send EXCEPT ![i] = TRUE]
        /\ cq' = Notify(i, q)
        /\ accepted' = [accepted EXCEPT ![socket[i]] = @ + m.len]
        /\ InUse(i)
    BY <1>2 DEF SendMessage, Valid
  <2>3. /\ wsa_send[i] => cq' = q
        /\ ~wsa_send[i] => cq' = Append(q, e)
    BY <2>2 DEF Notify, Signal
  <2> HIDE DEF i
  <2>4. /\ socket[i] \in Conn /\ net[socket[i]] # "none" /\ wsa_send[i] \in BOOLEAN
        /\ WellFormed(write_buf[i]) /\ WellFormed(write_buf_backup[i])
        /\ accepted[socket[i]] \in Nat /\ wired[socket[i]] \in Nat
        /\ \A j \in Slot : InUse(j) /\ socket[j] = socket[i] => j = i
    BY <2>1, <2>2, SlotFacts DEF XInv
  <2>5. /\ e \in Completion /\ e.io = "write" /\ e.key = i /\ e.sock = socket[i]
        /\ e.bytes = 0
    BY <2>1, <2>4 DEF Completion, Io, Outcome
  <2> HIDE DEF e
  <2>6. /\ write_buf_backup \in [Slot -> SockBufType] /\ wsa_send \in [Slot -> BOOLEAN]
        /\ accepted \in [Conn -> Nat]
    BY DEF XInv, IInv, TypeOK, PeerTypeOK
  <2>7. ASSUME NEW j \in W
        PROVE  WriteOK(sends[socket[j]], cq', socket[j], wsa_send'[j],
                       accepted'[socket[j]], wired[socket[j]], write_buf[j],
                       write_buf_backup'[j])
    <3>1. /\ j \in Slot /\ InUse(j) /\ socket[j] \in Conn
          /\ WriteOK(sends[socket[j]], q, socket[j], wsa_send[j], accepted[socket[j]],
                     wired[socket[j]], write_buf[j], write_buf_backup[j])
      BY <2>7, SlotFacts DEF XInv
    <3>2. CASE j = i
      <4>1. /\ write_buf_backup'[i] = ApendBuf(write_buf_backup[i], m.len)
            /\ wsa_send'[i] = TRUE
            /\ accepted'[socket[i]] = accepted[socket[i]] + m.len
        BY <2>1, <2>2, <2>4, <2>6
      <4>2. Belongs(e, socket[i], "write")
        BY <2>5 DEF Belongs
      <4>3. WriteOK(sends[socket[i]], q, socket[i], wsa_send[i], accepted[socket[i]],
                    wired[socket[i]], write_buf[i], write_buf_backup[i])
        BY <3>1, <3>2
      <4>4. WriteOK(sends[socket[i]], cq', socket[i], TRUE, accepted[socket[i]] + m.len,
                    wired[socket[i]], write_buf[i], ApendBuf(write_buf_backup[i], m.len))
        <5>1. /\ wsa_send[i] =>
                   WriteOK(sends[socket[i]], q, socket[i], TRUE,
                           accepted[socket[i]] + m.len, wired[socket[i]],
                           write_buf[i], ApendBuf(write_buf_backup[i], m.len))
              /\ ~wsa_send[i] =>
                   WriteOK(sends[socket[i]], Append(q, e), socket[i], TRUE,
                           accepted[socket[i]] + m.len, wired[socket[i]],
                           write_buf[i], ApendBuf(write_buf_backup[i], m.len))
          BY <2>1, <2>4, <2>5, <4>2, <4>3, SendAccounted, ZenonT(60)
        <5>2. CASE wsa_send[i]
          BY <2>3, <5>1, <5>2
        <5>3. CASE ~wsa_send[i]
          BY <2>3, <5>1, <5>3
        <5> QED
          BY <5>2, <5>3
      <4> QED
        BY <3>2, <4>1, <4>4
    <3>3. CASE j # i
      <4>1. /\ write_buf_backup'[j] = write_buf_backup[j]
            /\ wsa_send'[j] = wsa_send[j]
        BY <2>1, <2>2, <2>6, <3>1, <3>3
      <4>2. socket[j] # socket[i]
        BY <2>4, <3>1, <3>3
      <4>3. accepted'[socket[j]] = accepted[socket[j]]
        BY <2>2, <2>6, <3>1, <4>2
      <4>4. ~Belongs(e, socket[j], "write")
        BY <2>5, <4>2 DEF Belongs
      <4>5. WriteOK(sends[socket[j]], cq', socket[j], wsa_send[j], accepted[socket[j]],
                    wired[socket[j]], write_buf[j], write_buf_backup[j])
        <5>1. WriteOK(sends[socket[j]], Append(q, e), socket[j], wsa_send[j],
                      accepted[socket[j]], wired[socket[j]], write_buf[j],
                      write_buf_backup[j])
          BY <2>5, <3>1, <4>4, OthersAppend
        <5> QED
          BY <2>3, <3>1, <5>1
      <4> QED
        BY <4>1, <4>3, <4>5
    <3> QED
      BY <3>2, <3>3
  <2>8. ASSUME NEW c, NEW rcv, NEW eat, NEW left, NEW buf,
               ReadOK(rcv, q, c, eat, left, buf)
        PROVE  ReadOK(rcv, cq', c, eat, left, buf)
    <3>1. ~Belongs(e, c, "read")
      BY <2>5 DEF Belongs
    <3>2. ReadOK(rcv, Append(q, e), c, eat, left, buf)
      BY <2>5, <2>8, <3>1, OthersAppend
    <3> QED
      BY <2>3, <2>8, <3>2
  <2>9. In(cq') \subseteq In(q) \cup {e}
    <3>1. In(Append(q, e)) = In(q) \cup {e}
      BY <2>5, AppendFacts
    <3> QED
      BY <2>3, <3>1
  <2>10. \A c \in Conn : net[c] = "none" => accepted'[c] = accepted[c]
    BY <2>2, <2>4, <2>6
  <2> QED
    BY <2>1, <2>2, <2>5, <2>7, <2>8, <2>9, <2>10
<1> QED
  BY <1>1, <1>2

(* registerSocket(): the slot is quiet, and the connection is new. *)
LEMMA RegisterExact ==
  ASSUME XInv, ReuseRace = FALSE, NEW c \in Conn, NEW i \in Slot, RegisterSocket(c, i)
  PROVE  XPart'
<1> DEFINE buf == EnsureWritableBytes(Reset(read_buf[i]), RecvRoom)
           room == WritableBytes(buf)
<1>0. /\ socket \in [Slot -> Nat] /\ net \in [Conn -> NetState]
      /\ key \in [Conn -> Slot] /\ recvs \in [Conn -> Seq(Nat)]
      /\ read_buf \in [Slot -> SockBufType] /\ write_buf \in [Slot -> SockBufType]
      /\ write_buf_backup \in [Slot -> SockBufType] /\ wsa_send \in [Slot -> BOOLEAN]
      /\ \A j \in Slot : /\ WellFormed(read_buf[j]) /\ WellFormed(write_buf[j])
                         /\ WellFormed(write_buf_backup[j])
  BY DEF XInv, IInv, TypeOK, PeerTypeOK, BuffersInOrder
<1>1. /\ net[c] = "none" /\ Quiet(i) /\ ~InUse(i)
      /\ key' = [key EXCEPT ![c] = i]
      /\ read_buf' = [read_buf EXCEPT ![i] = buf]
      /\ write_buf' = [write_buf EXCEPT ![i] = Reset(@)]
      /\ write_buf_backup' = [write_buf_backup EXCEPT ![i] = Reset(@)]
      /\ wsa_send' = [wsa_send EXCEPT ![i] = FALSE]
      /\ UNCHANGED <<sends, rest, cq, down, accepted, eaten, wired>>
  BY DEF RegisterSocket, NewPeer, FirstFree, NextConn
<1>2. \/ /\ socket' = [socket EXCEPT ![i] = c]
         /\ net' = [net EXCEPT ![c] = "up"]
         /\ recvs' = [recvs EXCEPT ![c] = Append(@, room)]
      \/ /\ net' = [net EXCEPT ![c] = "closed"]
         /\ UNCHANGED <<socket, recvs>>
  BY DEF RegisterSocket, PostRecv
<1>3. /\ ReadableBytes(buf) = 0
      /\ ReadableBytes(Reset(write_buf[i])) = 0
      /\ ReadableBytes(Reset(write_buf_backup[i])) = 0
  <2>1. WellFormed(Reset(read_buf[i])) /\ ReadableBytes(Reset(read_buf[i])) = 0
    BY <1>0, ResetWellFormed
  <2>2. ReadableBytes(buf) = ReadableBytes(Reset(read_buf[i]))
    BY <2>1, Numbers, EnsureWellFormed
  <2> QED
    BY <1>0, <2>1, <2>2, ResetWellFormed
<1> HIDE DEF buf
<1>4. room = WritableBytes(buf)
  OBVIOUS
<1> HIDE DEF room
<1>5. /\ net'[c] # "none" /\ \A d \in Conn : d # c => net'[d] = net[d]
      /\ key'[c] = i /\ \A d \in Conn : d # c => key'[d] = key[d]
      /\ \A d \in Conn : d # c => recvs'[d] = recvs[d]
  BY <1>0, <1>1, <1>2
<1>6. /\ \A j \in Slot : j # i => socket'[j] = socket[j] /\ (InUse(j)' <=> InUse(j))
      /\ InUse(i)' => /\ socket'[i] = c
                      /\ recvs'[c] = Append(recvs[c], room)
  BY <1>0, <1>1, <1>2 DEF InUse
<1>7. /\ recvs[c] = << >> /\ sends[c] = << >>
      /\ rest[c] = MaxIn /\ accepted[c] = 0 /\ wired[c] = 0 /\ eaten[c] = 0
  BY <1>1 DEF XInv, XPart, Fresh
<1>8. \A e \in In(cq) : e.sock \in Conn /\ e.sock # c /\ e.key # i
  <2> SUFFICES ASSUME NEW e \in In(cq)
               PROVE  e.sock \in Conn /\ e.sock # c /\ e.key # i
    OBVIOUS
  <2>1. PICK k \in 1..Len(cq) : e = cq[k]
    BY DEF In
  <2>2. e.key # i
    BY <1>1, <2>1 DEF Quiet
  <2>3. net[e.sock] # "none"
    BY DEF XInv, XPart, Addressed
  <2> QED
    BY <1>1, <2>2, <2>3, InTypes
<1>9. \A d \in Conn : key[d] = i => recvs[d] = << >> /\ sends[d] = << >>
  BY <1>1 DEF Quiet
<1>10. cq' = cq /\ In(cq') = In(cq)
  BY <1>1
<1>11. Addressed'
  BY <1>5, <1>8, <1>10 DEF XInv, XPart, Addressed
<1>12. Fresh'
  BY <1>1, <1>5 DEF XInv, XPart, Fresh
<1>13. PastIsOver'
  <2> SUFFICES ASSUME NEW j \in Slot, InUse(j)'
               PROVE  /\ \A d \in Conn : key'[d] = j /\ d # socket'[j] =>
                           recvs'[d] = << >> /\ sends'[d] = << >>
                      /\ \A e \in In(cq') : e.key = j => e.sock = socket'[j]
    BY DEF PastIsOver
  <2>1. CASE j = i
    BY <1>1, <1>5, <1>6, <1>8, <1>9, <1>10, <2>1
  <2>2. CASE j # i
    <3>1. InUse(j) /\ socket'[j] = socket[j]
      BY <1>6, <2>2
    <3>2. /\ \A d \in Conn : key[d] = j /\ d # socket[j] => recvs[d] = << >> /\ sends[d] = << >>
          /\ \A e \in In(cq) : e.key = j => e.sock = socket[j]
      BY <3>1 DEF XInv, XPart, PastIsOver
    <3> QED
      BY <1>1, <1>5, <1>10, <2>2, <3>1, <3>2
  <2> QED
    BY <2>1, <2>2
<1>14. Exact'
  <2> SUFFICES ASSUME NEW j \in Slot, InUse(j)'
               PROVE  Reads(j)' /\ Writes(j)'
    BY DEF Exact
  <2>1. CASE j = i
    <3>1. /\ socket'[i] = c /\ recvs'[c] = <<room>>
      BY <1>6, <1>7, <2>1
    <3>2. NoneOf(cq, c, "read") /\ NoneOf(cq, c, "write")
      BY <1>8 DEF NoneOf, Belongs, In
    <3>3. /\ read_buf'[i] = buf /\ write_buf'[i] = Reset(write_buf[i])
          /\ write_buf_backup'[i] = Reset(write_buf_backup[i])
          /\ wsa_send'[i] = FALSE
      BY <1>0, <1>1
    <3>4. ReadOK(<<room>>, cq, c, 0, MaxIn, buf)
      BY <1>3, <1>4, <3>2, Numbers DEF ReadOK
    <3>5. WriteOK(<< >>, cq, c, FALSE, 0, 0, write_buf'[i], write_buf_backup'[i])
      BY <1>3, <3>2, <3>3 DEF WriteOK
    <3> QED
      BY <1>1, <1>7, <2>1, <3>1, <3>3, <3>4, <3>5 DEF Reads, Writes
  <2>2. CASE j # i
    <3>1. InUse(j) /\ socket'[j] = socket[j] /\ Reads(j) /\ Writes(j)
      BY <1>6, <2>2 DEF XInv, XPart, Exact
    <3>2. socket[j] \in Conn /\ socket[j] # c
      BY <1>1, <3>1, SlotFacts DEF XInv
    <3>3. recvs'[socket[j]] = recvs[socket[j]]
      BY <1>5, <3>2
    <3>4. /\ read_buf'[j] = read_buf[j] /\ write_buf'[j] = write_buf[j]
          /\ write_buf_backup'[j] = write_buf_backup[j] /\ wsa_send'[j] = wsa_send[j]
      BY <1>0, <1>1, <2>2
    <3> QED
      BY <1>1, <3>1, <3>3, <3>4 DEF Reads, Writes
  <2> QED
    BY <2>1, <2>2
<1>15. NoThrow'
  BY <1>1 DEF XInv, XPart, NoThrow
<1> QED
  BY <1>11, <1>12, <1>13, <1>14, <1>15 DEF XPart

(* A completion in front of the queue for a slot in use: what it says of   *)
(* its receive,                                                            *)
LEMMA HeadReads ==
  ASSUME XInv, NEW i \in Slot, InUse(i), cq # << >>, Head(cq).key = i, Head(cq).io = "read"
  PROVE  /\ Head(cq).sock = socket[i] /\ Head(cq) \in In(cq)
         /\ recvs[socket[i]] = << >> /\ NoneOf(Tail(cq), socket[i], "read")
         /\ Head(cq).bytes \in 0..WritableBytes(read_buf[i])
         /\ eaten[socket[i]] + ReadableBytes(read_buf[i]) + Head(cq).bytes =
              MaxIn - rest[socket[i]]
         /\ ~WriteMoveThrows(read_buf[i], Head(cq).bytes)
<1>1. cq \in Seq(Completion)
  BY DEF XInv, IInv, TypeOK
<1>2. Head(cq) \in In(cq)
  BY <1>1, TailFacts
<1>3. Head(cq).sock = socket[i]
  BY <1>2, QueueNames
<1>4. Belongs(Head(cq), socket[i], "read")
  BY <1>3 DEF Belongs
<1>5. ReadOK(recvs[socket[i]], cq, socket[i], eaten[socket[i]], rest[socket[i]], read_buf[i])
  BY DEF XInv, XPart, Exact, Reads
<1>6. /\ recvs[socket[i]] = << >> /\ NoneOf(Tail(cq), socket[i], "read")
      /\ Head(cq).bytes \in 0..WritableBytes(read_buf[i])
      /\ eaten[socket[i]] + ReadableBytes(read_buf[i]) + Head(cq).bytes =
           MaxIn - rest[socket[i]]
  <2>1. /\ ~NoneOf(cq, socket[i], "read")
        /\ \A n : Only(cq, socket[i], "read", n) =>
                  n = Head(cq).bytes /\ NoneOf(Tail(cq), socket[i], "read")
    BY <1>1, <1>4, TailFacts
  <2>2. /\ recvs[socket[i]] = << >>
        /\ \E n \in 0..WritableBytes(read_buf[i]) :
             /\ Only(cq, socket[i], "read", n)
             /\ eaten[socket[i]] + ReadableBytes(read_buf[i]) + n = MaxIn - rest[socket[i]]
    BY <1>5, <2>1 DEF ReadOK
  <2> QED
    BY <2>1, <2>2
<1>7. ~WriteMoveThrows(read_buf[i], Head(cq).bytes)
  <2>1. WellFormed(read_buf[i])
    BY SlotFacts DEF XInv
  <2> QED
    BY <1>6, <2>1 DEF WriteMoveThrows, WritableBytes, WellFormed, SockBufType
<1> QED
  BY <1>2, <1>3, <1>6, <1>7

(* and what it says of its send.                                           *)
LEMMA HeadWrites ==
  ASSUME XInv, NEW i \in Slot, InUse(i), cq # << >>, Head(cq).key = i, Head(cq).io = "write"
  PROVE  /\ Head(cq).sock = socket[i] /\ Head(cq) \in In(cq)
         /\ sends[socket[i]] = << >> /\ NoneOf(Tail(cq), socket[i], "write")
         /\ Head(cq).bytes \in 0..ReadableBytes(write_buf[i])
         /\ accepted[socket[i]] + Head(cq).bytes =
              wired[socket[i]] + ReadableBytes(write_buf[i])
                               + ReadableBytes(write_buf_backup[i])
         /\ ~ReadMoveThrows(write_buf[i], Head(cq).bytes)
<1>1. cq \in Seq(Completion)
  BY DEF XInv, IInv, TypeOK
<1>2. Head(cq) \in In(cq)
  BY <1>1, TailFacts
<1>3. Head(cq).sock = socket[i]
  BY <1>2, QueueNames
<1>4. Belongs(Head(cq), socket[i], "write")
  BY <1>3 DEF Belongs
<1>5. WriteOK(sends[socket[i]], cq, socket[i], wsa_send[i], accepted[socket[i]],
              wired[socket[i]], write_buf[i], write_buf_backup[i])
  BY DEF XInv, XPart, Exact, Writes
<1>6. /\ sends[socket[i]] = << >> /\ NoneOf(Tail(cq), socket[i], "write")
      /\ Head(cq).bytes \in 0..ReadableBytes(write_buf[i])
      /\ accepted[socket[i]] + Head(cq).bytes =
           wired[socket[i]] + ReadableBytes(write_buf[i])
                            + ReadableBytes(write_buf_backup[i])
  <2>1. /\ ~NoneOf(cq, socket[i], "write")
        /\ \A n : Only(cq, socket[i], "write", n) =>
                  n = Head(cq).bytes /\ NoneOf(Tail(cq), socket[i], "write")
    BY <1>1, <1>4, TailFacts
  <2>2. /\ sends[socket[i]] = << >>
        /\ \E n \in 0..ReadableBytes(write_buf[i]) :
             /\ Only(cq, socket[i], "write", n)
             /\ accepted[socket[i]] + n =
                  wired[socket[i]] + ReadableBytes(write_buf[i])
                                   + ReadableBytes(write_buf_backup[i])
    BY <1>5, <2>1 DEF WriteOK
  <2> QED
    BY <2>1, <2>2
<1>7. ~ReadMoveThrows(write_buf[i], Head(cq).bytes)
  <2>1. WellFormed(write_buf[i])
    BY SlotFacts DEF XInv
  <2> QED
    BY <1>6, <2>1 DEF ReadMoveThrows, ReadableBytes, WellFormed, SockBufType
<1> QED
  BY <1>2, <1>3, <1>6, <1>7

(* The read buffer after n bytes came and take of its bytes were consumed. *)
LEMMA ReadAndMadeRoom ==
  ASSUME NEW b, WellFormed(b), NEW n \in Nat, ~WriteMoveThrows(b, n),
         NEW take \in 0..(ReadableBytes(b) + n)
  PROVE  ReadableBytes(EnsureWritableBytes(ReadMove(WriteMove(b, n), take), RecvRoom)) =
           (ReadableBytes(b) + n) - take
<1>1. PICK full : full = WriteMove(b, n)
  OBVIOUS
<1>2. WellFormed(full) /\ ReadableBytes(full) = ReadableBytes(b) + n
  BY <1>1, WriteMoveWellFormed
<1>3. take \in Nat /\ take <= ReadableBytes(full)
  BY <1>2, RoomIsNat
<1>4. ~ReadMoveThrows(full, take)
  BY <1>2, <1>3 DEF WellFormed, SockBufType, ReadableBytes, ReadMoveThrows
<1>5. PICK left : left = ReadMove(full, take)
  OBVIOUS
<1>6. WellFormed(left) /\ ReadableBytes(left) = ReadableBytes(full) - take
  BY <1>2, <1>3, <1>4, <1>5, ReadMoveWellFormed
<1>7. ReadableBytes(EnsureWritableBytes(left, RecvRoom)) = ReadableBytes(left)
  BY <1>6, Numbers, EnsureWellFormed
<1> QED
  BY <1>1, <1>2, <1>5, <1>6, <1>7

(* processRead(): the application takes some of the bytes, may send, and   *)
(* the next receive is posted for the whole room, or the peer is closed.   *)
LEMMA ReadExact ==
  ASSUME XInv, NEW i \in Slot, InUse(i), cq # << >>, Head(cq).key = i, Head(cq).io = "read",
         NEW take \in 0..(ReadableBytes(read_buf[i]) + Head(cq).bytes),
         NEW m \in Outbox, NEW keep \in BOOLEAN, NEW posted \in BOOLEAN,
         ProcessRead(i, Head(cq).bytes, take, m, keep, posted)
  PROVE  XPart'
<1> DEFINE n    == Head(cq).bytes
           full == WriteMove(read_buf[i], n)
           left == ReadMove(full, take)
           room == EnsureWritableBytes(left, RecvRoom)
           q    == Tail(cq)
           W    == {j \in Slot : InUse(j)}
<1> SUFFICES ASSUME NEW c \in Conn, c = socket[i]
             PROVE  XPart'
  BY SlotFacts DEF XInv
<1>0. /\ recvs \in [Conn -> Seq(Nat)] /\ eaten \in [Conn -> Nat]
      /\ read_buf \in [Slot -> SockBufType] /\ WellFormed(read_buf[i])
      /\ cq \in Seq(Completion) /\ rest[c] \in Nat /\ net[c] # "none" /\ key[c] = i
      /\ \A j \in Slot : InUse(j) /\ socket[j] = c => j = i
  BY SlotFacts DEF XInv, IInv, TypeOK, PeerTypeOK
<1>1. /\ eaten' = [eaten EXCEPT ![c] = @ + take]
      /\ SendMessage(m, q)
      /\ read_buf' = [read_buf EXCEPT ![i] = IF keep THEN room ELSE left]
      /\ recvs' = IF keep /\ posted THEN PostRecv(c, room) ELSE recvs
      /\ IF keep /\ posted THEN StaysOpen ELSE ClosePeer(i)
      /\ UNCHANGED <<serial, write_buf, m_serial, key, sends, rest, down, wired>>
  BY DEF ProcessRead
<1>2. /\ Head(cq).sock = c /\ Head(cq) \in In(cq)
      /\ recvs[c] = << >> /\ NoneOf(q, c, "read")
      /\ n \in Nat
      /\ eaten[c] + ReadableBytes(read_buf[i]) + n = MaxIn - rest[c]
      /\ ~WriteMoveThrows(read_buf[i], n)
  BY HeadReads
<1>3. /\ ReadableBytes(read_buf[i]) \in Nat /\ take \in Nat
      /\ take <= ReadableBytes(read_buf[i]) + n
  BY <1>0, <1>2, RoomIsNat
<1>4. ReadableBytes(room) = (ReadableBytes(read_buf[i]) + n) - take
  BY <1>0, <1>2, ReadAndMadeRoom
<1> HIDE DEF room, left, full, n
<1>5. StaysOpen \/ \E j \in Slot : InUse(j) /\ ClosePeer(j)
  BY <1>1
<1>6. \A j \in Slot : InUse(j)' => InUse(j) /\ socket'[j] = socket[j]
  BY <1>1, <1>5, SlotsKept DEF XInv
<1>7. \A d \in Conn : net'[d] # "none" <=> net[d] # "none"
  BY <1>5, NetAfter
<1>8. InUse(i)' => keep /\ posted
  BY <1>1, ClosedIsFree DEF XInv
<1>9. /\ q \in Seq(Completion) /\ In(q) \subseteq In(cq)
  BY <1>0, TailKeepsWrite, TailFacts
<1>10. \A j \in W :
         WriteOK(sends[socket[j]], q, socket[j], wsa_send[j], accepted[socket[j]],
                 wired[socket[j]], write_buf[j], write_buf_backup[j])
  <2> SUFFICES ASSUME NEW j \in Slot, InUse(j)
               PROVE  WriteOK(sends[socket[j]], q, socket[j], wsa_send[j],
                              accepted[socket[j]], wired[socket[j]], write_buf[j],
                              write_buf_backup[j])
    OBVIOUS
  <2>1. ~Belongs(Head(cq), socket[j], "write")
    BY DEF Belongs
  <2>2. WriteOK(sends[socket[j]], cq, socket[j], wsa_send[j], accepted[socket[j]],
                wired[socket[j]], write_buf[j], write_buf_backup[j])
    BY DEF XInv, XPart, Exact, Writes
  <2> QED
    BY <1>0, <2>1, <2>2, OthersTail
<1>11. W \subseteq {j \in Slot : InUse(j)}
  OBVIOUS
<1> HIDE DEF W, q
<1>12. /\ \A j \in W :
            WriteOK(sends[socket[j]], cq', socket[j], wsa_send'[j],
                    accepted'[socket[j]], wired[socket[j]], write_buf[j],
                    write_buf_backup'[j])
       /\ \A d, rcv, eat, more, buf :
            ReadOK(rcv, q, d, eat, more, buf) => ReadOK(rcv, cq', d, eat, more, buf)
       /\ \A e \in In(cq') :
            e \in In(q) \/ \E j \in Slot : InUse(j) /\ e.key = j /\ e.sock = socket[j]
       /\ \A d \in Conn : net[d] = "none" => accepted'[d] = accepted[d]
  BY <1>1, <1>9, <1>10, <1>11, SendMessageExact
<1>13. /\ eaten'[c] = eaten[c] + take
       /\ \A d \in Conn : d # c => eaten'[d] = eaten[d] /\ recvs'[d] = recvs[d]
       /\ keep /\ posted => recvs'[c] = <<WritableBytes(room)>>
       /\ keep => read_buf'[i] = room
       /\ \A j \in Slot : j # i => read_buf'[j] = read_buf[j]
  BY <1>0, <1>1, <1>2 DEF PostRecv
<1>14. \A e \in In(cq') :
         e \in In(cq) \/ \E j \in Slot : InUse(j) /\ e.key = j /\ e.sock = socket[j]
  BY <1>9, <1>12
<1>15. Addressed'
  <2> SUFFICES ASSUME NEW e \in In(cq')
               PROVE  e.key = key[e.sock] /\ net'[e.sock] # "none"
    BY <1>1 DEF Addressed
  <2>1. CASE e \in In(cq)
    BY <1>7, <2>1, InTypes DEF XInv, XPart, Addressed
  <2>2. ASSUME NEW j \in Slot, InUse(j), e.key = j, e.sock = socket[j]
        PROVE  e.key = key[e.sock] /\ net'[e.sock] # "none"
    BY <1>7, <2>2, SlotFacts DEF XInv
  <2> QED
    BY <1>14, <2>1, <2>2
<1>16. Fresh'
  <2> SUFFICES ASSUME NEW d \in Conn, net'[d] = "none"
               PROVE  /\ recvs'[d] = << >> /\ sends[d] = << >> /\ rest[d] = MaxIn
                      /\ accepted'[d] = 0 /\ wired[d] = 0 /\ eaten'[d] = 0
    BY <1>1 DEF Fresh
  <2>1. net[d] = "none" /\ d # c
    BY <1>0, <1>7
  <2>2. /\ recvs[d] = << >> /\ sends[d] = << >> /\ rest[d] = MaxIn
        /\ accepted[d] = 0 /\ wired[d] = 0 /\ eaten[d] = 0
    BY <2>1 DEF XInv, XPart, Fresh
  <2> QED
    BY <1>12, <1>13, <2>1, <2>2
<1>17. PastIsOver'
  <2> SUFFICES ASSUME NEW j \in Slot, InUse(j)'
               PROVE  /\ \A d \in Conn : key[d] = j /\ d # socket'[j] =>
                           recvs'[d] = << >> /\ sends[d] = << >>
                      /\ \A e \in In(cq') : e.key = j => e.sock = socket'[j]
    BY <1>1 DEF PastIsOver
  <2>1. InUse(j) /\ socket'[j] = socket[j]
    BY <1>6
  <2>2. /\ \A d \in Conn : key[d] = j /\ d # socket[j] => recvs[d] = << >> /\ sends[d] = << >>
        /\ \A e \in In(cq) : e.key = j => e.sock = socket[j]
    BY <2>1 DEF XInv, XPart, PastIsOver
  <2>3. \A d \in Conn : key[d] = j /\ d # socket[j] => d # c
    BY <1>0
  <2> QED
    BY <1>13, <1>14, <2>1, <2>2, <2>3
<1>18. Exact'
  <2> SUFFICES ASSUME NEW j \in Slot, InUse(j)'
               PROVE  Reads(j)' /\ Writes(j)'
    BY DEF Exact
  <2>1. /\ InUse(j) /\ socket'[j] = socket[j] /\ Reads(j) /\ socket[j] \in Conn
    BY <1>6, SlotFacts DEF XInv, XPart, Exact
  <2>2. Writes(j)'
    BY <1>1, <1>12, <2>1 DEF Writes, W
  <2>3. CASE j = i
    <3>1. keep /\ posted
      BY <1>8, <2>3
    <3>2. (eaten[c] + take) + ReadableBytes(room) = MaxIn - rest[c]
      BY <1>0, <1>2, <1>3, <1>4
    <3>3. ReadOK(<<WritableBytes(room)>>, q, c, eaten[c] + take, rest[c], room)
      BY <1>2, <3>2 DEF ReadOK, q
    <3>4. ReadOK(<<WritableBytes(room)>>, cq', c, eaten[c] + take, rest[c], room)
      BY <1>12, <3>3
    <3> QED
      BY <1>1, <1>13, <2>1, <2>2, <2>3, <3>1, <3>4 DEF Reads
  <2>4. CASE j # i
    <3>1. socket[j] # c
      BY <1>0, <2>1, <2>4
    <3>2. ~Belongs(Head(cq), socket[j], "read")
      BY <1>2, <3>1 DEF Belongs
    <3>3. ReadOK(recvs[socket[j]], q, socket[j], eaten[socket[j]], rest[socket[j]], read_buf[j])
      BY <1>0, <2>1, <3>2, OthersTail DEF Reads, q
    <3>4. ReadOK(recvs[socket[j]], cq', socket[j], eaten[socket[j]], rest[socket[j]], read_buf[j])
      BY <1>12, <3>3
    <3>5. /\ recvs'[socket[j]] = recvs[socket[j]] /\ eaten'[socket[j]] = eaten[socket[j]]
          /\ read_buf'[j] = read_buf[j]
      BY <1>13, <2>1, <2>4, <3>1
    <3> QED
      BY <1>1, <2>1, <2>2, <3>4, <3>5 DEF Reads
  <2> QED
    BY <2>3, <2>4
<1>19. NoThrow'
  BY <1>1 DEF XInv, XPart, NoThrow
<1> QED
  BY <1>15, <1>16, <1>17, <1>18, <1>19 DEF XPart

(* The write buffer after n of its bytes were sent and those that waited   *)
(* behind moved in, and the backup after they left.                        *)
LEMMA SentAndMovedOn ==
  ASSUME NEW b, WellFormed(b), NEW behind, WellFormed(behind),
         NEW n \in 0..ReadableBytes(b)
  PROVE  LET waiting == ReadableBytes(behind)
             kept    == ReadMove(b, n)
             now     == IF waiting > 0 THEN ApendBuf(kept, waiting) ELSE kept
         IN  /\ ReadableBytes(now) \in Nat
             /\ ReadableBytes(now) + n = ReadableBytes(b) + waiting
             /\ ReadableBytes(Emptied(behind)) = 0
<1>1. PICK kept : kept = ReadMove(b, n)
  OBVIOUS
<1>2. PICK waiting : waiting = ReadableBytes(behind)
  OBVIOUS
<1>3. /\ ReadableBytes(b) \in Nat /\ n \in Nat /\ n <= ReadableBytes(b)
      /\ waiting \in Nat /\ behind.rd + waiting = behind.wr
  BY <1>2, RoomIsNat
<1>4. WellFormed(kept) /\ ReadableBytes(kept) = ReadableBytes(b) - n
  <2>1. ~ReadMoveThrows(b, n)
    BY <1>3 DEF WellFormed, SockBufType, ReadableBytes, ReadMoveThrows
  <2> QED
    BY <1>1, <1>3, <2>1, ReadMoveWellFormed
<1>5. ReadableBytes(ApendBuf(kept, waiting)) = ReadableBytes(kept) + waiting
  BY <1>3, <1>4, ApendBufWellFormed
<1>6. PICK now : now = IF waiting > 0 THEN ApendBuf(kept, waiting) ELSE kept
  OBVIOUS
<1>7. ReadableBytes(now) = ReadableBytes(kept) + waiting
  BY <1>3, <1>4, <1>5, <1>6
<1>8. ReadableBytes(Emptied(behind)) = 0
  <2>1. ~ReadMoveThrows(behind, waiting)
    BY <1>3 DEF WellFormed, SockBufType, ReadMoveThrows
  <2>2. ReadableBytes(ReadMove(behind, waiting)) = waiting - waiting
    BY <1>2, <1>3, <2>1, ReadMoveWellFormed
  <2> QED
    BY <1>2, <1>3, <2>2 DEF Emptied
<1>9. ReadableBytes(now) \in Nat /\ ReadableBytes(now) + n = ReadableBytes(b) + waiting
  BY <1>3, <1>4, <1>7
<1> QED
  BY <1>1, <1>2, <1>6, <1>8, <1>9

(* processWrite(): the bytes sent leave, those behind move in, and if      *)
(* there are any they are posted whole.                                    *)
LEMMA WriteExact ==
  ASSUME XInv, NEW i \in Slot, InUse(i), cq # << >>, Head(cq).key = i, Head(cq).io = "write",
         NEW posted \in BOOLEAN, ProcessWrite(i, Head(cq).bytes, posted)
  PROVE  XPart'
<1> DEFINE n       == Head(cq).bytes
           kept    == ReadMove(write_buf[i], n)
           waiting == ReadableBytes(write_buf_backup[i])
           now     == IF waiting > 0 THEN ApendBuf(kept, waiting) ELSE kept
           more    == ReadableBytes(now) > 0
           empty   == Emptied(write_buf_backup[i])
<1> SUFFICES ASSUME NEW c \in Conn, c = socket[i]
             PROVE  XPart'
  BY SlotFacts DEF XInv
<1>0. /\ sends \in [Conn -> Seq(Nat)]
      /\ write_buf \in [Slot -> SockBufType] /\ WellFormed(write_buf[i])
      /\ write_buf_backup \in [Slot -> SockBufType] /\ WellFormed(write_buf_backup[i])
      /\ wsa_send \in [Slot -> BOOLEAN]
      /\ cq \in Seq(Completion) /\ net[c] # "none" /\ key[c] = i
      /\ accepted[c] \in Nat /\ wired[c] \in Nat
      /\ \A j \in Slot : InUse(j) /\ socket[j] = c => j = i
  BY SlotFacts DEF XInv, IInv, TypeOK, PeerTypeOK
<1>1. /\ write_buf' = [write_buf EXCEPT ![i] = now]
      /\ write_buf_backup' = [write_buf_backup EXCEPT ![i] = empty]
      /\ wsa_send' = [wsa_send EXCEPT ![i] = more]
      /\ sends' = IF more /\ posted THEN PostSend(c, now) ELSE sends
      /\ IF more /\ ~posted THEN ClosePeer(i) ELSE StaysOpen
      /\ cq' = Tail(cq)
      /\ UNCHANGED <<serial, read_buf, m_serial, key, recvs, rest, down,
                     accepted, eaten, wired>>
  BY <1>0 DEF ProcessWrite
<1>2. /\ Head(cq).sock = c /\ Head(cq) \in In(cq)
      /\ sends[c] = << >> /\ NoneOf(Tail(cq), c, "write")
      /\ n \in 0..ReadableBytes(write_buf[i])
      /\ accepted[c] + n = wired[c] + ReadableBytes(write_buf[i]) + waiting
  BY HeadWrites
<1>3. /\ ReadableBytes(now) \in Nat
      /\ ReadableBytes(now) + n = ReadableBytes(write_buf[i]) + waiting
      /\ ReadableBytes(empty) = 0
  BY <1>0, <1>2, SentAndMovedOn
<1>4. /\ waiting \in Nat /\ n \in Nat /\ ReadableBytes(write_buf[i]) \in Nat
  BY <1>0, <1>2, RoomIsNat
<1>5. more <=> ReadableBytes(now) > 0
  OBVIOUS
<1>6. more \in BOOLEAN
  OBVIOUS
<1> HIDE DEF more, now, empty, kept, waiting, n
<1>7. accepted[c] = wired[c] + ReadableBytes(now) + ReadableBytes(empty)
  <2>1. /\ accepted[c] \in Nat /\ wired[c] \in Nat
        /\ accepted[c] + n = wired[c] + ReadableBytes(write_buf[i]) + waiting
        /\ ReadableBytes(now) + n = ReadableBytes(write_buf[i]) + waiting
    BY <1>0, <1>2, <1>3
  <2>2. accepted[c] + n = wired[c] + (ReadableBytes(write_buf[i]) + waiting)
    BY <1>4, <2>1
  <2>3. accepted[c] + n = wired[c] + (ReadableBytes(now) + n)
    BY <2>1, <2>2
  <2>4. PICK a \in Nat, w \in Nat, r \in Nat, s \in Nat :
          a = accepted[c] /\ w = wired[c] /\ r = ReadableBytes(now) /\ s = n
    BY <1>3, <1>4, <2>1
  <2>5. a + s = w + (r + s)
    BY <2>3, <2>4
  <2>6. a = (w + r) + 0
    BY <2>5
  <2> QED
    BY <1>3, <2>4, <2>6
<1>8. StaysOpen \/ \E j \in Slot : InUse(j) /\ ClosePeer(j)
  BY <1>1
<1>9. \A j \in Slot : InUse(j)' => InUse(j) /\ socket'[j] = socket[j]
  BY <1>1, <1>8, SlotsKept DEF XInv
<1>10. \A d \in Conn : net'[d] # "none" <=> net[d] # "none"
  BY <1>8, NetAfter
<1>11. InUse(i)' /\ more => posted
  BY <1>1, ClosedIsFree DEF XInv
<1>12. In(cq') \subseteq In(cq)
  BY <1>0, <1>1, TailFacts
<1>13. /\ write_buf'[i] = now /\ write_buf_backup'[i] = empty /\ wsa_send'[i] = more
       /\ \A j \in Slot : j # i => /\ write_buf'[j] = write_buf[j]
                                   /\ write_buf_backup'[j] = write_buf_backup[j]
                                   /\ wsa_send'[j] = wsa_send[j]
       /\ more /\ posted => sends'[c] = <<ReadableBytes(now)>>
       /\ ~more => sends'[c] = << >>
       /\ \A d \in Conn : d # c => sends'[d] = sends[d]
  BY <1>0, <1>1, <1>2 DEF PostSend
<1>14. Addressed'
  BY <1>1, <1>10, <1>12, InTypes DEF XInv, XPart, Addressed
<1>15. Fresh'
  <2> SUFFICES ASSUME NEW d \in Conn, net'[d] = "none"
               PROVE  /\ recvs[d] = << >> /\ sends'[d] = << >> /\ rest[d] = MaxIn
                      /\ accepted[d] = 0 /\ wired[d] = 0 /\ eaten[d] = 0
    BY <1>1 DEF Fresh
  <2>1. net[d] = "none" /\ d # c
    BY <1>0, <1>10
  <2>2. /\ recvs[d] = << >> /\ sends[d] = << >> /\ rest[d] = MaxIn
        /\ accepted[d] = 0 /\ wired[d] = 0 /\ eaten[d] = 0
    BY <2>1 DEF XInv, XPart, Fresh
  <2> QED
    BY <1>13, <2>1, <2>2
<1>16. PastIsOver'
  <2> SUFFICES ASSUME NEW j \in Slot, InUse(j)'
               PROVE  /\ \A d \in Conn : key[d] = j /\ d # socket'[j] =>
                           recvs[d] = << >> /\ sends'[d] = << >>
                      /\ \A e \in In(cq') : e.key = j => e.sock = socket'[j]
    BY <1>1 DEF PastIsOver
  <2>1. InUse(j) /\ socket'[j] = socket[j]
    BY <1>9
  <2>2. /\ \A d \in Conn : key[d] = j /\ d # socket[j] => recvs[d] = << >> /\ sends[d] = << >>
        /\ \A e \in In(cq) : e.key = j => e.sock = socket[j]
    BY <2>1 DEF XInv, XPart, PastIsOver
  <2>3. \A d \in Conn : key[d] = j /\ d # socket[j] => d # c
    BY <1>0
  <2> QED
    BY <1>12, <1>13, <2>1, <2>2, <2>3
<1>17. Exact'
  <2> SUFFICES ASSUME NEW j \in Slot, InUse(j)'
               PROVE  Reads(j)' /\ Writes(j)'
    BY DEF Exact
  <2>1. /\ InUse(j) /\ socket'[j] = socket[j] /\ socket[j] \in Conn
        /\ Reads(j) /\ Writes(j)
    BY <1>9, SlotFacts DEF XInv, XPart, Exact
  <2>2. Reads(j)'
    <3>1. ~Belongs(Head(cq), socket[j], "read")
      BY DEF Belongs
    <3>2. ReadOK(recvs[socket[j]], Tail(cq), socket[j], eaten[socket[j]],
                 rest[socket[j]], read_buf[j])
      BY <1>0, <2>1, <3>1, OthersTail DEF Reads
    <3> QED
      BY <1>1, <2>1, <3>2 DEF Reads
  <2>3. CASE j = i
    <3>1. CASE more
      <4>1. WriteOK(<<ReadableBytes(now)>>, cq', c, TRUE, accepted[c], wired[c], now, empty)
        BY <1>1, <1>2, <1>7 DEF WriteOK
      <4>2. wsa_send'[i] = TRUE /\ sends'[c] = <<ReadableBytes(now)>>
        BY <1>6, <1>11, <1>13, <2>3, <3>1
      <4> QED
        <5>1. WriteOK(sends'[c], cq', c, wsa_send'[i], accepted[c], wired[c],
                      write_buf'[i], write_buf_backup'[i])
          BY <1>13, <4>1, <4>2
        <5> QED
          BY <1>1, <2>1, <2>2, <2>3, <5>1 DEF Writes
    <3>2. CASE ~more
      <4>1. WriteOK(<< >>, cq', c, FALSE, accepted[c], wired[c], now, empty)
        BY <1>1, <1>2, <1>7 DEF WriteOK
      <4>2. wsa_send'[i] = FALSE /\ sends'[c] = << >>
        BY <1>6, <1>13, <3>2
      <4> QED
        <5>1. WriteOK(sends'[c], cq', c, wsa_send'[i], accepted[c], wired[c],
                      write_buf'[i], write_buf_backup'[i])
          BY <1>13, <4>1, <4>2
        <5> QED
          BY <1>1, <2>1, <2>2, <2>3, <5>1 DEF Writes
    <3> QED
      BY <3>1, <3>2
  <2>4. CASE j # i
    <3>1. socket[j] # c
      BY <1>0, <2>1, <2>4
    <3>2. ~Belongs(Head(cq), socket[j], "write")
      BY <1>2, <3>1 DEF Belongs
    <3>3. WriteOK(sends[socket[j]], Tail(cq), socket[j], wsa_send[j], accepted[socket[j]],
                  wired[socket[j]], write_buf[j], write_buf_backup[j])
      BY <1>0, <2>1, <3>2, OthersTail DEF Writes
    <3>4. /\ sends'[socket[j]] = sends[socket[j]] /\ wsa_send'[j] = wsa_send[j]
          /\ write_buf'[j] = write_buf[j] /\ write_buf_backup'[j] = write_buf_backup[j]
      BY <1>13, <2>1, <2>4, <3>1
    <3> QED
      BY <1>1, <2>1, <2>2, <3>3, <3>4 DEF Writes
  <2> QED
    BY <2>3, <2>4
<1>18. NoThrow'
  BY <1>1 DEF XInv, XPart, NoThrow
<1> QED
  BY <1>14, <1>15, <1>16, <1>17, <1>18 DEF XPart

(* A frame in which the application sends. *)
LEMMA FrameSendExact ==
  ASSUME XInv, FrameSend
  PROVE  XPart'
<1> DEFINE W == {j \in Slot : InUse(j)}
<1>0. cq \in Seq(Completion) /\ W \subseteq {j \in Slot : InUse(j)}
  BY DEF XInv, IInv, TypeOK
<1>1. PICK m \in Outbox : SendMessage(m, cq)
  BY DEF FrameSend
<1>2. UNCHANGED <<socket, read_buf, write_buf, net, key, recvs, sends, rest, down,
                  eaten, wired>>
  BY DEF FrameSend, netVars
<1>3. \A j \in Slot : InUse(j)' <=> InUse(j)
  BY <1>2 DEF InUse
<1>4. \A j \in W :
        WriteOK(sends[socket[j]], cq, socket[j], wsa_send[j], accepted[socket[j]],
                wired[socket[j]], write_buf[j], write_buf_backup[j])
  BY DEF XInv, XPart, Exact, Writes
<1> HIDE DEF W
<1>5. /\ \A j \in W :
           WriteOK(sends[socket[j]], cq', socket[j], wsa_send'[j],
                   accepted'[socket[j]], wired[socket[j]], write_buf[j],
                   write_buf_backup'[j])
      /\ \A d, rcv, eat, more, buf :
           ReadOK(rcv, cq, d, eat, more, buf) => ReadOK(rcv, cq', d, eat, more, buf)
      /\ \A e \in In(cq') :
           e \in In(cq) \/ \E j \in Slot : InUse(j) /\ e.key = j /\ e.sock = socket[j]
      /\ \A d \in Conn : net[d] = "none" => accepted'[d] = accepted[d]
  BY <1>0, <1>1, <1>4, SendMessageExact
<1>6. Addressed'
  <2> SUFFICES ASSUME NEW e \in In(cq')
               PROVE  e.key = key[e.sock] /\ net[e.sock] # "none"
    BY <1>2 DEF Addressed
  <2>1. CASE e \in In(cq)
    BY <2>1 DEF XInv, XPart, Addressed
  <2>2. ASSUME NEW j \in Slot, InUse(j), e.key = j, e.sock = socket[j]
        PROVE  e.key = key[e.sock] /\ net[e.sock] # "none"
    BY <2>2, SlotFacts DEF XInv
  <2> QED
    BY <1>5, <2>1, <2>2
<1>7. Fresh'
  BY <1>2, <1>5 DEF XInv, XPart, Fresh
<1>8. PastIsOver'
  BY <1>2, <1>3, <1>5 DEF XInv, XPart, PastIsOver
<1>9. Exact'
  <2> SUFFICES ASSUME NEW j \in Slot, InUse(j)
               PROVE  Reads(j)' /\ Writes(j)'
    BY <1>3 DEF Exact
  <2>1. Reads(j)
    BY DEF XInv, XPart, Exact
  <2>2. ReadOK(recvs[socket[j]], cq', socket[j], eaten[socket[j]], rest[socket[j]],
               read_buf[j])
    BY <1>5, <2>1 DEF Reads
  <2>3. WriteOK(sends[socket[j]], cq', socket[j], wsa_send'[j], accepted'[socket[j]],
                wired[socket[j]], write_buf[j], write_buf_backup'[j])
    BY <1>5 DEF W
  <2> QED
    BY <1>2, <2>2, <2>3 DEF Reads, Writes
<1>10. NoThrow'
  BY <1>2 DEF XInv, XPart, NoThrow
<1> QED
  BY <1>6, <1>7, <1>8, <1>9, <1>10 DEF XPart

-----------------------------------------------------------------------------
(* The paths of onEventTick(); those on which a buffer throws are closed,  *)
(* as a completion never reports more than its buffer holds.               *)
LEMMA EventExact ==
  ASSUME XInv, OnEventTick
  PROVE  XPart'
<1>0. cq \in Seq(Completion)
  BY DEF XInv, IInv, TypeOK
<1>1. CASE EventTimeout
  BY <1>1, IdleExact DEF EventTimeout, netVars, appVars, XInv, XPart, NoThrow
<1>2. ASSUME cq # << >>
      PROVE  Head(cq).key \in Slot /\ Head(cq).bytes \in Nat
  BY <1>0, <1>2, TailKeepsWrite DEF Completion
<1>3. CASE EventNetnameDeleted
  <2>1. /\ cq # << >> /\ cq' = Tail(cq)
        /\ IF InUse(Head(cq).key) THEN ClosePeer(Head(cq).key) ELSE StaysOpen
        /\ UNCHANGED <<serial, bufVars, m_serial, key, recvs, sends, rest, down,
                       accepted, eaten, wired>>
    BY <1>3 DEF EventNetnameDeleted, Dequeue
  <2>2. PICK i \in Slot : i = Head(cq).key
    BY <1>2, <2>1
  <2>3. socket'[i] = INVALID_SOCKET
    BY <2>1, <2>2 DEF XInv, IInv, TypeOK, PeerTypeOK, ClosePeer, DeletePeer, StaysOpen, InUse
  <2>4. StaysOpen \/ \E j \in Slot : InUse(j) /\ ClosePeer(j)
    BY <2>1, <2>2
  <2> QED
    BY <2>1, <2>2, <2>3, <2>4, CloseExact
<1>4. CASE EventOtherError
  BY <1>4, IdleExact DEF EventOtherError, Dequeue, netVars, appVars, NoThrow
<1>5. CASE EventSlotFree
  <2>1. /\ cq # << >> /\ cq' = Tail(cq) /\ ~InUse(Head(cq).key)
        /\ UNCHANGED <<peerVars, netVars, down, appVars, wired>>
    BY <1>5 DEF EventSlotFree, Dequeue
  <2>2. PICK i \in Slot : i = Head(cq).key
    BY <1>2, <2>1
  <2>3. socket'[i] = INVALID_SOCKET /\ StaysOpen
    BY <2>1, <2>2 DEF InUse, StaysOpen, peerVars, netVars, appVars
  <2>4. UNCHANGED <<serial, bufVars, m_serial, key, recvs, sends, rest, down,
                    accepted, eaten, wired>>
    BY <2>1 DEF peerVars, netVars, appVars
  <2> QED
    BY <2>1, <2>2, <2>3, <2>4, CloseExact
<1>6. CASE EventShutdown
  <2>1. /\ cq # << >> /\ cq' = Tail(cq)
        /\ InUse(Head(cq).key) /\ ClosePeer(Head(cq).key)
        /\ UNCHANGED <<serial, bufVars, m_serial, key, recvs, sends, rest, down,
                       accepted, eaten, wired>>
    BY <1>6 DEF EventShutdown, Dequeue
  <2>2. PICK i \in Slot : i = Head(cq).key
    BY <1>2, <2>1
  <2>3. socket'[i] = INVALID_SOCKET
    BY <2>1, <2>2 DEF XInv, IInv, TypeOK, PeerTypeOK, ClosePeer, DeletePeer
  <2>4. \E j \in Slot : InUse(j) /\ ClosePeer(j)
    BY <2>1, <2>2
  <2> QED
    BY <2>1, <2>2, <2>3, <2>4, CloseExact
<1>7. CASE EventRead
  <2>1. /\ cq # << >> /\ Head(cq).io = "read" /\ InUse(Head(cq).key)
    BY <1>7 DEF EventRead, Dequeue
  <2>2. PICK i \in Slot : i = Head(cq).key
    BY <1>2, <2>1
  <2>3. ~WriteMoveThrows(read_buf[i], Head(cq).bytes)
    BY <2>1, <2>2, HeadReads
  <2>4. PICK take \in 0..(ReadableBytes(read_buf[i]) + Head(cq).bytes),
             m \in Outbox, keep \in BOOLEAN, posted \in BOOLEAN :
               ProcessRead(i, Head(cq).bytes, take, m, keep, posted)
    BY <1>7, <2>2, <2>3 DEF EventRead
  <2> QED
    BY <2>1, <2>2, <2>4, ReadExact
<1>8. CASE EventWrite
  <2>1. cq # << >> /\ Head(cq).io = "write" /\ InUse(Head(cq).key)
    BY <1>8 DEF EventWrite, Dequeue
  <2>2. PICK i \in Slot : i = Head(cq).key
    BY <1>2, <2>1
  <2>3. ~ReadMoveThrows(write_buf[i], Head(cq).bytes)
    BY <2>1, <2>2, HeadWrites
  <2>4. PICK posted \in BOOLEAN : ProcessWrite(i, Head(cq).bytes, posted)
    BY <1>8, <2>2, <2>3 DEF EventWrite
  <2> QED
    BY <2>1, <2>2, <2>4, WriteExact
<1> QED
  BY <1>1, <1>3, <1>4, <1>5, <1>6, <1>7, <1>8 DEF OnEventTick

(* Every step keeps the invariant. *)
LEMMA StepExact == ReuseRace = FALSE /\ XInv /\ [Next]_vars => XInv'
<1> SUFFICES ASSUME ReuseRace = FALSE, XInv, [Next]_vars
             PROVE  XPart'
  BY StepInv DEF XInv
<1>0. NoThrow
  BY DEF XInv, XPart
<1>1. CASE UNCHANGED vars
  BY <1>0, <1>1, IdleExact DEF vars, netVars, appVars, NoThrow
<1>2. ASSUME Register
      PROVE  XPart'
  <2>1. ASSUME NEW c \in Conn, RegisterOverflow(c)
        PROVE  XPart'
    BY <2>1, IdleExact DEF RegisterOverflow, netVars, appVars, NoThrow
  <2> QED
    BY <1>2, <2>1, RegisterExact DEF Register
<1>3. CASE OnAcceptTick
  <2>1. CASE NoRequest
    BY <1>0, <2>1, IdleExact DEF NoRequest, netVars, appVars, NoThrow
  <2> QED
    BY <1>2, <1>3, <2>1 DEF OnAcceptTick
<1>4. CASE ConnectPeer
  BY <1>2, <1>4 DEF ConnectPeer
<1>5. CASE FrameClose
  <2>1. PICK h \in Handle : Valid(h[1], h[2]) /\ ClosePeer(h[1])
    BY <1>5 DEF FrameClose
  <2>2. h[1] \in Slot /\ InUse(h[1])
    BY <2>1 DEF Handle, Valid, XInv, IInv, TypeOK
  <2>3. UNCHANGED <<serial, bufVars, m_serial, key, recvs, sends, rest, cq, down,
                    accepted, eaten, wired>>
    BY <1>5 DEF FrameClose
  <2> QED
    BY <2>1, <2>2, <2>3, CloseExact
<1>6. ASSUME NEW c \in Conn, RemoteCloses(c) \/ RemoteResets(c)
      PROVE  XPart'
  <2>1. \A d \in Conn : net'[d] # "none" <=> net[d] # "none"
    BY <1>6 DEF RemoteCloses, RemoteResets, XInv, IInv, TypeOK
  <2>2. UNCHANGED <<peerVars, key, recvs, sends, rest, cq, down, accepted, eaten, wired>>
    BY <1>6 DEF RemoteCloses, RemoteResets, appVars
  <2> QED
    BY <1>0, <2>1, <2>2, IdleExact DEF NoThrow
<1>7. CASE Ended
  BY <1>1, <1>7 DEF Ended
<1> QED
  BY <1>1, <1>3, <1>4, <1>5, <1>6, <1>7, EventExact, FrameSendExact, KernelExact
     DEF Next, IoThread

THEOREM ExactInvariance == ReuseRace = FALSE => (Spec => []XInv)
<1> SUFFICES ASSUME ReuseRace = FALSE
             PROVE  Spec => []XInv
  OBVIOUS
<1>1. XInv /\ [Next]_vars => XInv'
  BY StepExact
<1> QED
  BY <1>1, InitExact, PTL DEF Spec

-----------------------------------------------------------------------------
(* The bytes of no completion, and of one. *)
LEMMA BytesOfNone == Bytes({}) = 0
BY DEF Bytes, MapThenSumSet, MapThenFoldSet

LEMMA BytesOfOne ==
  ASSUME NEW k, cq[k].bytes \in Nat
  PROVE  Bytes({k}) = cq[k].bytes
<1> DEFINE Sum(h) ==
      [s \in SUBSET {k} |->
         IF s = {} THEN 0
         ELSE cq[CHOOSE x \in s : TRUE].bytes + h[s \ {CHOOSE x \in s : TRUE}]]
           it == CHOOSE h : h = Sum(h)
           g  == [s \in SUBSET {k} |-> IF s = {} THEN 0 ELSE cq[k].bytes]
<1>1. Bytes({k}) = it[{k}]
  BY DEF Bytes, MapThenSumSet, MapThenFoldSet
<1>2. \A s \in SUBSET {k} : s # {} => s = {k} /\ (CHOOSE x \in s : TRUE) = k
  OBVIOUS
<1>3. g = Sum(g)
  OBVIOUS
<1>4. it = Sum(it)
  <2> HIDE DEF g, Sum
  <2> QED
    BY <1>3
<1> HIDE DEF it
<1>5. it[{}] = 0
  BY <1>4
<1>6. it[{k}] = cq[k].bytes + it[{}]
  BY <1>2, <1>4
<1> QED
  BY <1>1, <1>5, <1>6

(* The places of a connection's completions in the queue. *)
LEMMA PlacesInQueue ==
  ASSUME NEW c, NEW io
  PROVE  /\ NoneOf(cq, c, io) => Cardinality(Queued(c, io)) = 0 /\ Bytes(Queued(c, io)) = 0
         /\ \A n \in Nat : Only(cq, c, io, n) =>
              Cardinality(Queued(c, io)) = 1 /\ Bytes(Queued(c, io)) = n
<1>1. ASSUME NoneOf(cq, c, io)
      PROVE  Cardinality(Queued(c, io)) = 0 /\ Bytes(Queued(c, io)) = 0
  <2>1. Queued(c, io) = {}
    BY <1>1 DEF Queued, NoneOf, Belongs
  <2> QED
    BY <2>1, FS_EmptySet, BytesOfNone
<1>2. ASSUME NEW n \in Nat, Only(cq, c, io, n)
      PROVE  Cardinality(Queued(c, io)) = 1 /\ Bytes(Queued(c, io)) = n
  <2>1. PICK k \in 1..Len(cq) :
          /\ Belongs(cq[k], c, io) /\ cq[k].bytes = n
          /\ \A j \in 1..Len(cq) : Belongs(cq[j], c, io) => j = k
    BY <1>2 DEF Only
  <2>2. Queued(c, io) = {k}
    BY <2>1 DEF Queued, Belongs
  <2>3. Cardinality({k}) = 1 /\ Bytes({k}) = n
    BY <2>1, FS_Singleton, BytesOfOne
  <2> QED
    BY <2>2, <2>3
<1> QED
  BY <1>1, <1>2

(* "A socket has only one send posted, and only one receive": exactly one  *)
(* receive, and one send exactly while wsa_send is set, of all those a     *)
(* connection has at the system and in the queue.                          *)
THEOREM OneOfEach == ReuseRace = FALSE => (Spec => []OneRecvOneSend)
<1> SUFFICES ASSUME ReuseRace = FALSE
             PROVE  Spec => []OneRecvOneSend
  OBVIOUS
<1>1. XInv => OneRecvOneSend
  <2> SUFFICES ASSUME XInv, NEW i \in Slot, InUse(i), NEW c, c = socket[i]
               PROVE  /\ Len(recvs[c]) + Cardinality(Queued(c, "read")) = 1
                      /\ Len(sends[c]) + Cardinality(Queued(c, "write")) =
                           IF wsa_send[i] THEN 1 ELSE 0
    BY DEF OneRecvOneSend
  <2>0. /\ WellFormed(read_buf[i]) /\ WellFormed(write_buf[i])
        /\ Reads(i) /\ Writes(i)
    BY SlotFacts DEF XInv, XPart, Exact
  <2>1. WritableBytes(read_buf[i]) \in Nat /\ ReadableBytes(write_buf[i]) \in Nat
    BY <2>0, RoomIsNat
  <2>2. Len(<< >>) = 0 /\ \A x : Len(<<x>>) = 1
    BY EmptySeq
  <2>3. 0..WritableBytes(read_buf[i]) \subseteq Nat /\ 0..ReadableBytes(write_buf[i]) \subseteq Nat
    BY <2>1
  <2>4. Len(recvs[c]) + Cardinality(Queued(c, "read")) = 1
    <3>1. CASE recvs[c] = <<WritableBytes(read_buf[i])>> /\ NoneOf(cq, c, "read")
      <4>1. Len(recvs[c]) = 1 /\ Cardinality(Queued(c, "read")) = 0
        BY <2>2, <3>1, PlacesInQueue
      <4> QED
        BY <4>1
    <3>2. CASE recvs[c] = << >> /\ \E n \in Nat : Only(cq, c, "read", n)
      <4>1. Len(recvs[c]) = 0 /\ Cardinality(Queued(c, "read")) = 1
        BY <2>2, <3>2, PlacesInQueue
      <4> QED
        BY <4>1
    <3> QED
      BY <2>0, <2>3, <3>1, <3>2 DEF Reads, ReadOK
  <2>5. Len(sends[c]) + Cardinality(Queued(c, "write")) = IF wsa_send[i] THEN 1 ELSE 0
    <3>1. CASE wsa_send[i] = FALSE /\ sends[c] = << >> /\ NoneOf(cq, c, "write")
      <4>1. Len(sends[c]) = 0 /\ Cardinality(Queued(c, "write")) = 0
        BY <2>2, <3>1, PlacesInQueue
      <4> QED
        BY <3>1, <4>1
    <3>2. CASE /\ wsa_send[i] = TRUE /\ sends[c] = <<ReadableBytes(write_buf[i])>>
               /\ NoneOf(cq, c, "write")
      <4>1. Len(sends[c]) = 1 /\ Cardinality(Queued(c, "write")) = 0
        BY <2>2, <3>2, PlacesInQueue
      <4> QED
        BY <3>2, <4>1
    <3>3. CASE /\ wsa_send[i] = TRUE /\ sends[c] = << >>
               /\ \E n \in Nat : Only(cq, c, "write", n)
      <4>1. Len(sends[c]) = 0 /\ Cardinality(Queued(c, "write")) = 1
        BY <2>2, <3>3, PlacesInQueue
      <4> QED
        BY <3>3, <4>1
    <3> QED
      BY <2>0, <2>3, <3>1, <3>2, <3>3 DEF Writes, WriteOK
  <2> QED
    BY <2>4, <2>5
<1> QED
  BY <1>1, ExactInvariance, PTL

(* No byte is lost or counted twice in either direction, and no buffer of  *)
(* the service ever throws.                                                *)
THEOREM NothingLost == ReuseRace = FALSE => (Spec => []BytesConserved)
<1> SUFFICES ASSUME ReuseRace = FALSE
             PROVE  Spec => []BytesConserved
  OBVIOUS
<1>1. XInv => BytesConserved
  <2> SUFFICES ASSUME XInv, NEW i \in Slot, InUse(i), NEW c, c = socket[i]
               PROVE  /\ accepted[c] + Bytes(Queued(c, "write")) =
                           wired[c] + ReadableBytes(write_buf[i])
                                    + ReadableBytes(write_buf_backup[i])
                      /\ eaten[c] + ReadableBytes(read_buf[i]) + Bytes(Queued(c, "read")) =
                           MaxIn - rest[c]
    BY DEF BytesConserved, XInv, XPart, NoThrow
  <2>0. /\ WellFormed(read_buf[i]) /\ WellFormed(write_buf[i])
        /\ eaten[c] \in Nat /\ accepted[c] \in Nat
        /\ Reads(i) /\ Writes(i)
    BY SlotFacts DEF XInv, XPart, Exact
  <2>1. /\ WritableBytes(read_buf[i]) \in Nat /\ ReadableBytes(read_buf[i]) \in Nat
        /\ ReadableBytes(write_buf[i]) \in Nat
    BY <2>0, RoomIsNat
  <2>2. \E n \in Nat :
          /\ Bytes(Queued(c, "read")) = n
          /\ eaten[c] + ReadableBytes(read_buf[i]) + n = MaxIn - rest[c]
    <3>1. CASE NoneOf(cq, c, "read") /\ eaten[c] + ReadableBytes(read_buf[i]) = MaxIn - rest[c]
      <4>1. eaten[c] + ReadableBytes(read_buf[i]) + 0 = MaxIn - rest[c]
        BY <2>0, <2>1, <3>1
      <4> QED
        BY <3>1, <4>1, PlacesInQueue
    <3>2. CASE \E n \in Nat : /\ Only(cq, c, "read", n)
                              /\ eaten[c] + ReadableBytes(read_buf[i]) + n = MaxIn - rest[c]
      BY <3>2, PlacesInQueue
    <3> QED
      BY <2>0, <2>1, <3>1, <3>2 DEF Reads, ReadOK
  <2>3. \E n \in Nat :
          /\ Bytes(Queued(c, "write")) = n
          /\ accepted[c] + n = wired[c] + ReadableBytes(write_buf[i])
                                        + ReadableBytes(write_buf_backup[i])
    <3>1. CASE /\ NoneOf(cq, c, "write")
               /\ accepted[c] = wired[c] + ReadableBytes(write_buf[i])
                                         + ReadableBytes(write_buf_backup[i])
      <4>1. accepted[c] + 0 = wired[c] + ReadableBytes(write_buf[i])
                                       + ReadableBytes(write_buf_backup[i])
        BY <2>0, <3>1
      <4> QED
        BY <3>1, <4>1, PlacesInQueue
    <3>2. CASE \E n \in Nat :
                 /\ Only(cq, c, "write", n)
                 /\ accepted[c] + n = wired[c] + ReadableBytes(write_buf[i])
                                               + ReadableBytes(write_buf_backup[i])
      BY <3>2, PlacesInQueue
    <3> QED
      BY <2>0, <2>1, <3>1, <3>2 DEF Writes, WriteOK
  <2> QED
    BY <2>2, <2>3
<1> QED
  BY <1>1, ExactInvariance, PTL

(* "It locks the memory, the content must not be changed": no step touches *)
(* a buffer the system holds a pointer into.                               *)
LEMMA StepKeepsPosted ==
  ASSUME XInv, [Next]_vars, NEW i \in Slot, InUse(i)
  PROVE  /\ sends[socket[i]] # << >> => write_buf'[i] = write_buf[i]
         /\ recvs[socket[i]] # << >> => read_buf'[i] = read_buf[i]
<1>0. read_buf \in [Slot -> SockBufType] /\ write_buf \in [Slot -> SockBufType]
      /\ cq \in Seq(Completion)
  BY DEF XInv, IInv, TypeOK, PeerTypeOK
<1>1. ASSUME NEW c \in Conn, NEW j \in Slot, RegisterSocket(c, j)
      PROVE  write_buf'[i] = write_buf[i] /\ read_buf'[i] = read_buf[i]
  BY <1>0, <1>1 DEF RegisterSocket, NewPeer, FirstFree
<1>2. CASE Register
  BY <1>1, <1>2 DEF Register, RegisterOverflow, peerVars, bufVars
<1>3. CASE EventRead
  <2>1. /\ cq # << >> /\ Head(cq).io = "read" /\ InUse(Head(cq).key)
    BY <1>3 DEF EventRead, Dequeue
  <2>2. PICK j \in Slot : j = Head(cq).key
    BY <1>0, <2>1, TailKeepsWrite DEF Completion
  <2>3. recvs[socket[j]] = << >> /\ ~WriteMoveThrows(read_buf[j], Head(cq).bytes)
    BY <2>1, <2>2, HeadReads
  <2>4. PICK take \in 0..(ReadableBytes(read_buf[j]) + Head(cq).bytes),
             m \in Outbox, keep \in BOOLEAN, posted \in BOOLEAN :
               ProcessRead(j, Head(cq).bytes, take, m, keep, posted)
    BY <1>3, <2>2, <2>3 DEF EventRead
  <2>5. write_buf' = write_buf /\ \E new : read_buf' = [read_buf EXCEPT ![j] = new]
    BY <2>4 DEF ProcessRead
  <2> QED
    BY <1>0, <2>3, <2>5
<1>4. CASE EventWrite
  <2>1. cq # << >> /\ Head(cq).io = "write" /\ InUse(Head(cq).key)
    BY <1>4 DEF EventWrite, Dequeue
  <2>2. PICK j \in Slot : j = Head(cq).key
    BY <1>0, <2>1, TailKeepsWrite DEF Completion
  <2>3. sends[socket[j]] = << >> /\ ~ReadMoveThrows(write_buf[j], Head(cq).bytes)
    BY <2>1, <2>2, HeadWrites
  <2>4. PICK posted \in BOOLEAN : ProcessWrite(j, Head(cq).bytes, posted)
    BY <1>4, <2>2, <2>3 DEF EventWrite
  <2>5. read_buf' = read_buf /\ \E new : write_buf' = [write_buf EXCEPT ![j] = new]
    BY <2>4 DEF ProcessWrite
  <2> QED
    BY <1>0, <2>3, <2>5
<1>5. CASE ~Register /\ ~EventRead /\ ~EventWrite
  <2>1. UNCHANGED <<read_buf, write_buf>>
    <3>1. ASSUME NEW c \in Conn, Kernel(c) \/ RemoteCloses(c) \/ RemoteResets(c)
          PROVE  UNCHANGED <<read_buf, write_buf>>
      BY <3>1 DEF Kernel, KernelReceives, KernelEndOfStream, KernelSends,
                  KernelCancelsRecv, KernelCancelsSend, RemoteCloses, RemoteResets,
                  peerVars, bufVars
    <3>2. CASE OnEventTick
      BY <1>5, <3>2 DEF OnEventTick, EventTimeout, EventNetnameDeleted, EventOtherError,
                        EventSlotFree, EventShutdown, peerVars, bufVars
    <3>3. CASE OnAcceptTick \/ FrameSend \/ FrameClose \/ ConnectPeer
      BY <1>5, <3>3 DEF OnAcceptTick, NoRequest, FrameSend, FrameClose, ConnectPeer,
                        peerVars, bufVars
    <3>4. CASE UNCHANGED vars \/ Ended
      BY <3>4 DEF Ended, vars, peerVars, bufVars
    <3> QED
      BY <3>1, <3>2, <3>3, <3>4 DEF Next, IoThread
  <2> QED
    BY <2>1
<1> QED
  BY <1>2, <1>3, <1>4, <1>5

THEOREM PostedIsFixed == ReuseRace = FALSE => (Spec => PostedMemoryFixed)
<1> SUFFICES ASSUME ReuseRace = FALSE
             PROVE  Spec => PostedMemoryFixed
  OBVIOUS
<1>1. XInv /\ [Next]_vars =>
        [\A i \in Slot :
           InUse(i) /\ socket'[i] = socket[i] =>
             /\ sends[socket[i]] # << >> /\ sends'[socket[i]] # << >>
                  => write_buf'[i] = write_buf[i]
             /\ recvs[socket[i]] # << >> /\ recvs'[socket[i]] # << >>
                  => read_buf'[i] = read_buf[i]]_vars
  BY StepKeepsPosted
<1> QED
  BY <1>1, ExactInvariance, PTL DEF Spec, PostedMemoryFixed

-----------------------------------------------------------------------------
(* The I/O contexts that are lost.  A connection that is over still has    *)
(* operations at the system and completions in the queue; each may cost    *)
(* the context it belongs to.  The invariant adds to what was lost what    *)
(* may still be, and allows two for each connection that is over: at most  *)
(* one operation of each direction is ever left.                           *)

(* The operations of a connection that are pending at the system, those    *)
(* that are still owed a completion the program will take, and the         *)
(* connections that are over.                                              *)
Pend(c, io) == IF io = "read" THEN recvs[c] ELSE sends[c]
Owes(c, io) == Pend(c, io) # << >> \/ ~NoneOf(cq, c, io)
Gone == {c \in Conn : net[c] = "closed"}
Owed == {w \in Gone \X Io : Owes(w[1], w[2])}

(* At most one operation, posted (p) or completed (in the queue q).        *)
Single(p, q, c, io) ==
  \/ p = << >> /\ (NoneOf(q, c, io) \/ \E n : Only(q, c, io, n))
  \/ Len(p) = 1 /\ NoneOf(q, c, io)
Alone(c, io) == Single(Pend(c, io), cq, c, io)
GoneAlone == \A c \in Gone, io \in Io : Alone(c, io)

(* A connection is open exactly while a slot holds it. *)
Holds(c) == InUse(key[c]) /\ socket[key[c]] = c
OpenIsHeld == \A c \in Conn : net[c] \in {"up", "fin", "rst"} <=> Holds(c)

(* What was lost and what may still be lost. *)
Account == leaked + Cardinality(Owed) <= 2 * Cardinality(Gone)

LPart == OpenIsHeld /\ GoneAlone /\ Account
LInv == XInv /\ LPart

-----------------------------------------------------------------------------
(* At most one operation stays at most one when a completion of another    *)
(* direction or connection is added, when the operation itself completes,  *)
(* when a notice is added and there was none, and when one is taken.       *)
LEMMA AloneAppend ==
  ASSUME NEW q \in Seq(Completion), NEW e \in Completion, NEW p \in Seq(Nat),
         NEW c, NEW io, Single(p, q, c, io)
  PROVE  /\ ~Belongs(e, c, io) => Single(p, Append(q, e), c, io)
         /\ Belongs(e, c, io) /\ p # << >> => Single(Tail(p), Append(q, e), c, io)
         /\ Belongs(e, c, io) /\ p = << >> /\ NoneOf(q, c, io)
              => Single(p, Append(q, e), c, io)
<1>1. CASE ~Belongs(e, c, io)
  <2>1. /\ NoneOf(q, c, io) => NoneOf(Append(q, e), c, io)
        /\ \A n : Only(q, c, io, n) => Only(Append(q, e), c, io, n)
    BY <1>1, AppendFacts
  <2> QED
    BY <1>1, <2>1 DEF Single
<1>2. ASSUME Belongs(e, c, io), NoneOf(q, c, io)
      PROVE  Only(Append(q, e), c, io, e.bytes)
  BY <1>2, AppendFacts
<1>3. ASSUME Belongs(e, c, io), p # << >>
      PROVE  Single(Tail(p), Append(q, e), c, io)
  <2>1. Len(p) = 1 /\ NoneOf(q, c, io)
    BY <1>3 DEF Single
  <2>2. Tail(p) = << >>
    <3>1. Tail(p) \in Seq(Nat) /\ Len(Tail(p)) = 0
      BY <1>3, <2>1, HeadTailProperties
    <3> QED
      BY <3>1, EmptySeq
  <2> QED
    BY <1>2, <1>3, <2>1, <2>2 DEF Single
<1>4. ASSUME Belongs(e, c, io), p = << >>, NoneOf(q, c, io)
      PROVE  Single(p, Append(q, e), c, io)
  BY <1>2, <1>4 DEF Single
<1> QED
  BY <1>1, <1>3, <1>4

LEMMA AloneTail ==
  ASSUME NEW q \in Seq(Completion), q # << >>, NEW p \in Seq(Nat),
         NEW c, NEW io, Single(p, q, c, io)
  PROVE  /\ Single(p, Tail(q), c, io)
         /\ NoneOf(q, c, io) => NoneOf(Tail(q), c, io)
         /\ Belongs(Head(q), c, io) =>
              p = << >> /\ NoneOf(Tail(q), c, io) /\ ~NoneOf(q, c, io)
<1>1. CASE ~Belongs(Head(q), c, io)
  <2>1. /\ NoneOf(q, c, io) => NoneOf(Tail(q), c, io)
        /\ \A n : Only(q, c, io, n) => Only(Tail(q), c, io, n)
    BY <1>1, TailFacts
  <2> QED
    BY <1>1, <2>1 DEF Single
<1>2. CASE Belongs(Head(q), c, io)
  <2>1. /\ ~NoneOf(q, c, io)
        /\ \A n : Only(q, c, io, n) => NoneOf(Tail(q), c, io)
    BY <1>2, TailFacts
  <2>2. p = << >> /\ NoneOf(Tail(q), c, io)
    BY <2>1 DEF Single
  <2> QED
    BY <2>1, <2>2 DEF Single
<1> QED
  BY <1>1, <1>2

(* The types of what is used here. *)
LEMMA LeakTypes ==
  ASSUME XInv
  PROVE  /\ cq \in Seq(Completion) /\ leaked \in Nat
         /\ net \in [Conn -> NetState] /\ key \in [Conn -> Slot]
         /\ socket \in [Slot -> Nat]
         /\ recvs \in [Conn -> Seq(Nat)] /\ sends \in [Conn -> Seq(Nat)]
         /\ \A c \in Conn, io \in Io : Pend(c, io) \in Seq(Nat)
         /\ cq # << >> => /\ Head(cq) \in Completion /\ Tail(cq) \in Seq(Completion)
                          /\ Head(cq).key \in Slot /\ Head(cq).sock \in Conn
                          /\ Head(cq).io \in Io /\ Head(cq) \in In(cq)
                          /\ Head(cq).key = key[Head(cq).sock]
                          /\ net[Head(cq).sock] # "none"
<1>1. /\ cq \in Seq(Completion) /\ leaked \in Nat
      /\ net \in [Conn -> NetState] /\ key \in [Conn -> Slot]
      /\ socket \in [Slot -> Nat]
      /\ recvs \in [Conn -> Seq(Nat)] /\ sends \in [Conn -> Seq(Nat)]
  BY DEF XInv, IInv, TypeOK, PeerTypeOK
<1>2. \A c \in Conn, io \in Io : Pend(c, io) \in Seq(Nat)
  BY <1>1 DEF Pend
<1>3. ASSUME cq # << >>
      PROVE  /\ Head(cq) \in Completion /\ Tail(cq) \in Seq(Completion)
             /\ Head(cq) \in In(cq)
  BY <1>1, <1>3, TailKeepsWrite, TailFacts
<1>4. ASSUME cq # << >>
      PROVE  /\ Head(cq).key \in Slot /\ Head(cq).sock \in Conn /\ Head(cq).io \in Io
  BY <1>3, <1>4 DEF Completion
<1>5. ASSUME cq # << >>
      PROVE  Head(cq).key = key[Head(cq).sock] /\ net[Head(cq).sock] # "none"
  BY <1>3, <1>5 DEF XInv, XPart, Addressed
<1> QED
  BY <1>1, <1>2, <1>3, <1>4, <1>5

(* In a slot in use the receive, and the send, are alone too.              *)
LEMMA InUseAlone ==
  ASSUME XInv, NEW i \in Slot, InUse(i)
  PROVE  Alone(socket[i], "read") /\ Alone(socket[i], "write")
<1>1. Reads(i) /\ Writes(i)
  BY DEF XInv, XPart, Exact
<1>2. ReadOK(recvs[socket[i]], cq, socket[i], eaten[socket[i]], rest[socket[i]], read_buf[i])
  BY <1>1 DEF Reads
<1>3. WriteOK(sends[socket[i]], cq, socket[i], wsa_send[i], accepted[socket[i]],
              wired[socket[i]], write_buf[i], write_buf_backup[i])
  BY <1>1 DEF Writes
<1>4. \A x : Len(<<x>>) = 1
  OBVIOUS
<1>5. Single(recvs[socket[i]], cq, socket[i], "read")
  BY <1>2, <1>4 DEF ReadOK, Single
<1>6. Single(sends[socket[i]], cq, socket[i], "write")
  BY <1>3, <1>4 DEF WriteOK, Single
<1> QED
  BY <1>5, <1>6 DEF Alone, Pend

LEMMA EveryAlone ==
  ASSUME LInv, NEW c \in Conn, NEW io \in Io
  PROVE  Alone(c, io)
<1>1. CASE net[c] = "closed"
  BY <1>1 DEF LInv, LPart, GoneAlone, Gone
<1>2. CASE net[c] = "none"
  <2>1. Pend(c, io) = << >>
    BY <1>2 DEF LInv, XInv, XPart, Fresh, Pend
  <2>2. NoneOf(cq, c, io)
    BY <1>2 DEF LInv, XInv, XPart, Addressed, In, NoneOf, Belongs
  <2> QED
    BY <2>1, <2>2 DEF Alone, Single
<1>3. CASE net[c] \in {"up", "fin", "rst"}
  <2>1. InUse(key[c]) /\ socket[key[c]] = c /\ key[c] \in Slot
    BY <1>3, LeakTypes DEF LInv, LPart, OpenIsHeld, Holds
  <2> QED
    BY <2>1, InUseAlone DEF LInv, Io
<1> QED
  BY <1>1, <1>2, <1>3, LeakTypes DEF LInv, NetState

-----------------------------------------------------------------------------
(* The arithmetic of the account: o owed, l lost, g connections over.      *)
LEMMA Shares ==
  ASSUME NEW G \in SUBSET Conn, NEW O \in SUBSET (G \X Io), NEW l \in Nat,
         l + Cardinality(O) <= 2 * Cardinality(G)
  PROVE  /\ \A P \in SUBSET O : l + Cardinality(P) <= 2 * Cardinality(G)
         /\ \A w \in O : \A P \in SUBSET (O \ {w}) :
              l + 1 + Cardinality(P) <= 2 * Cardinality(G)
         /\ \A d \in Conn \ G : \A P :
              P \subseteq O \cup {<<d, "read">>, <<d, "write">>} =>
                l + Cardinality(P) <= 2 * Cardinality(G \cup {d})
         /\ \A d \in Conn \ G : \A v, P :
              P \subseteq O \cup {v} =>
                l + 1 + Cardinality(P) <= 2 * Cardinality(G \cup {d})
<1>1. IsFiniteSet(Conn)
  BY FS_Interval, ServiceAssumption DEF Conn
<1>2. IsFiniteSet(Io)
  <2>1. IsFiniteSet({"read"}) /\ {"read"} \cup {"write"} = Io
    BY FS_Singleton DEF Io
  <2> QED
    BY <2>1, FS_AddElement
<1>3. IsFiniteSet(G) /\ Cardinality(G) \in Nat
  BY <1>1, FS_Subset, FS_CardinalityType
<1>4. IsFiniteSet(O) /\ Cardinality(O) \in Nat
  <2>1. IsFiniteSet(G \X Io)
    BY <1>2, <1>3, FS_Product
  <2> QED
    BY <2>1, FS_Subset, FS_CardinalityType
<1>5. ASSUME NEW S, IsFiniteSet(S), NEW P, P \subseteq S
      PROVE  Cardinality(P) \in Nat /\ Cardinality(P) <= Cardinality(S)
  BY <1>5, FS_Subset, FS_CardinalityType
<1>6. ASSUME NEW S, IsFiniteSet(S), NEW x
      PROVE  /\ IsFiniteSet(S \cup {x}) /\ Cardinality(S \cup {x}) \in Nat
             /\ Cardinality(S) \in Nat
             /\ Cardinality(S \cup {x}) <= Cardinality(S) + 1
             /\ x \notin S => Cardinality(S \cup {x}) = Cardinality(S) + 1
  <2>1. Cardinality(S) \in Nat
    BY <1>6, FS_CardinalityType
  <2>2. IsFiniteSet(S \cup {x})
        /\ Cardinality(S \cup {x}) = IF x \in S THEN Cardinality(S) ELSE Cardinality(S) + 1
    BY <1>6, FS_AddElement
  <2> QED
    BY <2>1, <2>2
<1>7. ASSUME NEW P \in SUBSET O
      PROVE  l + Cardinality(P) <= 2 * Cardinality(G)
  <2>1. Cardinality(P) \in Nat /\ Cardinality(P) <= Cardinality(O)
    BY <1>4, <1>5
  <2> QED
    BY <1>3, <1>4, <2>1
<1>8. ASSUME NEW w \in O, NEW P \in SUBSET (O \ {w})
      PROVE  l + 1 + Cardinality(P) <= 2 * Cardinality(G)
  <2>1. IsFiniteSet(O \ {w}) /\ Cardinality(O \ {w}) = Cardinality(O) - 1
    BY <1>4, FS_RemoveElement
  <2>2. Cardinality(P) \in Nat /\ Cardinality(P) <= Cardinality(O) - 1
    BY <1>5, <2>1
  <2> QED
    BY <1>3, <1>4, <2>2
<1>9. ASSUME NEW d \in Conn \ G
      PROVE  Cardinality(G \cup {d}) = Cardinality(G) + 1
  BY <1>3, <1>6
<1>10. ASSUME NEW d \in Conn \ G, NEW P, P \subseteq O \cup {<<d, "read">>, <<d, "write">>}
       PROVE  l + Cardinality(P) <= 2 * Cardinality(G \cup {d})
  <2> DEFINE r == <<d, "read">>
             w == <<d, "write">>
  <2>1. P \subseteq (O \cup {r}) \cup {w}
    BY <1>10
  <2> HIDE DEF r, w
  <2>2. /\ IsFiniteSet(O \cup {r}) /\ Cardinality(O \cup {r}) \in Nat
        /\ Cardinality(O \cup {r}) <= Cardinality(O) + 1
    BY <1>4, <1>6
  <2>3. /\ IsFiniteSet((O \cup {r}) \cup {w}) /\ Cardinality((O \cup {r}) \cup {w}) \in Nat
        /\ Cardinality((O \cup {r}) \cup {w}) <= Cardinality(O \cup {r}) + 1
    BY <1>6, <2>2
  <2>4. Cardinality(P) \in Nat /\ Cardinality(P) <= Cardinality((O \cup {r}) \cup {w})
    BY <1>5, <2>1, <2>3
  <2>5. Cardinality(P) <= Cardinality(O) + 2
    BY <1>4, <2>2, <2>3, <2>4
  <2> QED
    BY <1>3, <1>4, <1>9, <2>4, <2>5
<1>11. ASSUME NEW d \in Conn \ G, NEW v, NEW P, P \subseteq O \cup {v}
       PROVE  l + 1 + Cardinality(P) <= 2 * Cardinality(G \cup {d})
  <2>1. /\ IsFiniteSet(O \cup {v}) /\ Cardinality(O \cup {v}) \in Nat
        /\ Cardinality(O \cup {v}) <= Cardinality(O) + 1
    BY <1>4, <1>6
  <2>2. Cardinality(P) \in Nat /\ Cardinality(P) <= Cardinality(O \cup {v})
    BY <1>5, <1>11, <2>1
  <2> QED
    BY <1>3, <1>4, <1>9, <2>1, <2>2
<1> QED
  BY <1>7, <1>8, <1>10, <1>11

-----------------------------------------------------------------------------
(* A step leaves an operation alone and owes nothing new for it. *)
Eased(c, io) == Alone(c, io)' /\ (Owes(c, io)' => Owes(c, io))

(* The three kinds of steps: none that was open is closed; *)
LEMMA NothingClosed ==
  ASSUME LInv, Gone' = Gone, leaked' = leaked,
         \A c \in Gone, io \in Io : Eased(c, io)
  PROVE  GoneAlone' /\ Account'
<1>1. GoneAlone'
  BY DEF GoneAlone, Eased
<1>2. Owed' \subseteq Owed
  BY DEF Owed, Eased
<1>3. Gone \in SUBSET Conn /\ Owed \in SUBSET (Gone \X Io) /\ leaked \in Nat
  BY LeakTypes DEF Gone, Owed, LInv
<1>4. leaked + Cardinality(Owed') <= 2 * Cardinality(Gone)
  BY <1>2, <1>3, Shares DEF LInv, LPart, Account
<1> QED
  BY <1>1, <1>4 DEF Account

(* the connection d is closed, and perhaps a context of its own is lost    *)
(* with it, for a direction that owes nothing;                             *)
LEMMA OneClosed ==
  ASSUME LInv, NEW d \in Conn \ Gone, Gone' = Gone \cup {d},
         \A c \in Gone, io \in Io : Eased(c, io),
         \A io \in Io : Alone(d, io)',
         \/ leaked' = leaked
         \/ leaked' = leaked + 1 /\ \E io \in Io : ~Owes(d, io)'
  PROVE  GoneAlone' /\ Account'
<1>1. GoneAlone'
  BY DEF GoneAlone, Eased
<1>2. Owed' \subseteq Owed \cup {<<d, "read">>, <<d, "write">>}
  BY DEF Owed, Eased, Io
<1>3. Gone \in SUBSET Conn /\ Owed \in SUBSET (Gone \X Io) /\ leaked \in Nat
  BY LeakTypes DEF Gone, Owed, LInv
<1>4. CASE leaked' = leaked
  <2>1. leaked + Cardinality(Owed') <= 2 * Cardinality(Gone \cup {d})
    BY <1>2, <1>3, Shares DEF LInv, LPart, Account
  <2> QED
    BY <1>1, <1>4, <2>1 DEF Account
<1>5. ASSUME leaked' = leaked + 1, NEW x \in Io, ~Owes(d, x)'
      PROVE  GoneAlone' /\ Account'
  <2>1. \E v : Owed' \subseteq Owed \cup {v}
    <3>1. CASE x = "read"
      <4>1. Owed' \subseteq Owed \cup {<<d, "write">>}
        BY <1>5, <3>1 DEF Owed, Eased, Io
      <4> QED
        BY <4>1
    <3>2. CASE x = "write"
      <4>1. Owed' \subseteq Owed \cup {<<d, "read">>}
        BY <1>5, <3>2 DEF Owed, Eased, Io
      <4> QED
        BY <4>1
    <3> QED
      BY <3>1, <3>2 DEF Io
  <2>2. leaked + 1 + Cardinality(Owed') <= 2 * Cardinality(Gone \cup {d})
    BY <1>3, <2>1, Shares DEF LInv, LPart, Account
  <2> QED
    BY <1>1, <1>5, <2>2 DEF Account
<1> QED
  BY <1>4, <1>5

(* a completion that was owed is dropped with its context. *)
LEMMA OneDropped ==
  ASSUME LInv, Gone' = Gone, leaked' = leaked + 1,
         NEW d \in Gone, NEW x \in Io, Owes(d, x), ~Owes(d, x)',
         \A c \in Gone, io \in Io : Eased(c, io)
  PROVE  GoneAlone' /\ Account'
<1>1. GoneAlone'
  BY DEF GoneAlone, Eased
<1> DEFINE w == <<d, x>>
<1>2. w \in Owed /\ Owed' \subseteq Owed \ {w}
  BY DEF Owed, Eased
<1> HIDE DEF w
<1>3. Gone \in SUBSET Conn /\ Owed \in SUBSET (Gone \X Io) /\ leaked \in Nat
  BY LeakTypes DEF Gone, Owed, LInv
<1>4. leaked + 1 + Cardinality(Owed') <= 2 * Cardinality(Gone)
  BY <1>2, <1>3, Shares DEF LInv, LPart, Account
<1> QED
  BY <1>1, <1>4 DEF Account

-----------------------------------------------------------------------------
(* What happens to an operation that is not posted in the step, when the   *)
(* queue loses its head, or gains a completion of others, or both.         *)
LEMMA QueueEases ==
  ASSUME LInv, NEW c \in Conn, NEW io \in Io,
         Pend(c, io)' = Pend(c, io),
         NEW q \in Seq(Completion), q = cq \/ (cq # << >> /\ q = Tail(cq)),
         cq' = q \/ \E e \in Completion : cq' = Append(q, e) /\ ~Belongs(e, c, io)
  PROVE  Eased(c, io)
<1> DEFINE p == Pend(c, io)
<1>1. Pend(c, io)' = p
  OBVIOUS
<1>2. p \in Seq(Nat) /\ cq \in Seq(Completion) /\ Single(p, cq, c, io)
  BY LeakTypes, EveryAlone DEF LInv, Alone
<1> HIDE DEF p
<1>3. Single(p, q, c, io) /\ (NoneOf(cq, c, io) => NoneOf(q, c, io))
  <2>1. CASE q = cq
    BY <1>2, <2>1
  <2>2. CASE cq # << >> /\ q = Tail(cq)
    BY <1>2, <2>2, AloneTail
  <2> QED
    BY <2>1, <2>2
<1>4. Single(p, cq', c, io) /\ (NoneOf(cq, c, io) => NoneOf(cq', c, io))
  <2>1. CASE cq' = q
    BY <1>3, <2>1
  <2>2. ASSUME NEW e \in Completion, cq' = Append(q, e), ~Belongs(e, c, io)
        PROVE  Single(p, cq', c, io) /\ (NoneOf(cq, c, io) => NoneOf(cq', c, io))
    BY <1>2, <1>3, <2>2, AloneAppend, AppendFacts
  <2> QED
    BY <2>1, <2>2
<1>5. Alone(c, io)'
  BY <1>1, <1>4 DEF Alone
<1>6. Owes(c, io)' => Owes(c, io)
  BY <1>1, <1>4 DEF Owes, p
<1> QED
  BY <1>5, <1>6 DEF Eased

(* closePeer() of a slot in use.                                           *)
LEMMA CloseFrees ==
  ASSUME LInv, NEW i \in Slot, InUse(i), ClosePeer(i), UNCHANGED key
  PROVE  /\ OpenIsHeld'
         /\ socket[i] \in Conn \ Gone /\ Gone' = Gone \cup {socket[i]}
<1> DEFINE d == socket[i]
<1>1. /\ socket' = [socket EXCEPT ![i] = INVALID_SOCKET]
      /\ net' = [net EXCEPT ![d] = "closed"]
  BY DEF ClosePeer, DeletePeer
<1>2. d \in Conn /\ key[d] = i /\ InUse(key[d]) /\ socket[key[d]] = d
  BY SlotFacts DEF LInv, XInv
<1>3. /\ net \in [Conn -> NetState] /\ key \in [Conn -> Slot] /\ socket \in [Slot -> Nat]
  BY LeakTypes DEF LInv
<1>4. net[d] \in {"up", "fin", "rst"}
  BY <1>2 DEF LInv, LPart, OpenIsHeld, Holds
<1>5. d \in Conn \ Gone
  BY <1>2, <1>4 DEF Gone
<1>6. Gone' = Gone \cup {d}
  BY <1>1, <1>2, <1>3 DEF Gone
<1>7. OpenIsHeld'
  <2> SUFFICES ASSUME NEW c \in Conn
               PROVE  net'[c] \in {"up", "fin", "rst"} <=>
                        (socket'[key[c]] # INVALID_SOCKET /\ socket'[key[c]] = c)
    BY DEF OpenIsHeld, Holds, InUse
  <2>1. net[c] \in {"up", "fin", "rst"} <=>
          (socket[key[c]] # INVALID_SOCKET /\ socket[key[c]] = c)
    BY DEF LInv, LPart, OpenIsHeld, Holds, InUse
  <2>2. CASE c = d
    BY <1>1, <1>2, <1>3, <2>2
  <2>3. CASE c # d
    BY <1>1, <1>2, <1>3, <2>1, <2>3
  <2> QED
    BY <2>2, <2>3
<1> QED
  BY <1>5, <1>6, <1>7

(* What send() may put in the queue: a notice of a connection that has     *)
(* nothing under way.                                                      *)
LEMMA SendQueues ==
  ASSUME LInv, NEW m \in Outbox, NEW q \in Seq(Completion), SendMessage(m, q)
  PROVE  \/ cq' = q
         \/ \E j \in Slot, e \in Completion :
              /\ InUse(j) /\ wsa_send[j] = FALSE
              /\ e.sock = socket[j] /\ e.io = "write"
              /\ cq' = Append(q, e)
<1>1. CASE ~(m.on /\ Valid(m.to[1], m.to[2]))
  BY <1>1 DEF SendMessage
<1>2. CASE m.on /\ Valid(m.to[1], m.to[2])
  <2> DEFINE i == m.to[1]
             e == [key |-> i, sock |-> socket[i], io |-> "write", bytes |-> 0,
                   res |-> "ok"]
  <2>1. i \in Slot
    <3>1. m \in Message
      BY <1>2 DEF Outbox, NoMessage
    <3>2. m.to \in Handle
      BY <3>1 DEF Message
    <3>3. PICK c \in Conn : m.to = <<key[c], c - 1>>
      BY <3>2 DEF Handle
    <3> QED
      BY <3>3, LeakTypes DEF LInv
  <2>2. cq' = (IF wsa_send[i] THEN q ELSE Append(q, e)) /\ InUse(i)
    BY <1>2 DEF SendMessage, Notify, Signal, Valid
  <2>3. e \in Completion /\ e.sock = socket[i] /\ e.io = "write"
    BY <2>1, <2>2, SlotFacts DEF LInv, XInv, Completion, Io, Outcome
  <2>4. wsa_send[i] \in BOOLEAN
    BY <2>1, <2>2, SlotFacts DEF LInv, XInv
  <2> HIDE DEF e, i
  <2> QED
    BY <2>1, <2>2, <2>3, <2>4
<1> QED
  BY <1>1, <1>2

LEMMA NothingIsNone ==
  ASSUME LInv, NEW i \in Slot, InUse(i), wsa_send[i] = FALSE
  PROVE  sends[socket[i]] = << >> /\ NoneOf(cq, socket[i], "write")
BY DEF LInv, XInv, XPart, Exact, Writes, WriteOK

-----------------------------------------------------------------------------
(* The actions.  The system completes the oldest operation of a direction. *)
LEMMA CompletionAccounted ==
  ASSUME LInv, NEW c \in Conn, NEW x \in Io, NEW e \in Completion,
         Belongs(e, c, x), cq' = Append(cq, e),
         Pend(c, x) # << >>, Pend(c, x)' = Tail(Pend(c, x)),
         \A d \in Conn, io \in Io : d # c \/ io # x => Pend(d, io)' = Pend(d, io),
         UNCHANGED <<socket, key, net, leaked>>
  PROVE  LPart'
<1>1. OpenIsHeld' /\ Gone' = Gone /\ Gone \subseteq Conn
  BY DEF LInv, LPart, OpenIsHeld, Holds, InUse, Gone
<1>2. cq \in Seq(Completion)
  BY LeakTypes DEF LInv
<1>3. ASSUME NEW d \in Conn, NEW io \in Io, d # c \/ io # x
      PROVE  Eased(d, io)
  <2>1. ~Belongs(e, d, io)
    BY <1>3 DEF Belongs
  <2> QED
    BY <1>2, <1>3, <2>1, QueueEases
<1>4. Eased(c, x)
  <2> DEFINE p == Pend(c, x)
  <2>1. p \in Seq(Nat) /\ Single(p, cq, c, x) /\ p # << >>
    BY LeakTypes, EveryAlone DEF LInv, Alone
  <2> HIDE DEF p
  <2>2. Single(Tail(p), cq', c, x)
    BY <1>2, <2>1, AloneAppend
  <2>3. Alone(c, x)'
    BY <2>2 DEF Alone, p
  <2> QED
    BY <2>3 DEF Eased, Owes
<1>5. \A d \in Gone, io \in Io : Eased(d, io)
  BY <1>1, <1>3, <1>4
<1> QED
  BY <1>1, <1>5, NothingClosed DEF LPart

LEMMA KernelAccounted ==
  ASSUME LInv, NEW c \in Conn, Kernel(c)
  PROVE  LPart'
<1>0. /\ recvs \in [Conn -> Seq(Nat)] /\ sends \in [Conn -> Seq(Nat)]
      /\ key \in [Conn -> Slot] /\ 0 \in Nat
      /\ "ok" \in Outcome /\ Failure \subseteq Outcome
  BY LeakTypes DEF LInv, Outcome, Failure
<1>1. ASSUME NEW n \in Nat, NEW res \in Outcome, recvs[c] # << >>,
             recvs' = [recvs EXCEPT ![c] = Tail(@)],
             cq' = Completed(c, "read", n, res),
             UNCHANGED <<peerVars, net, key, sends, leaked>>
      PROVE  LPart'
  <2> DEFINE e == [key |-> key[c], sock |-> c, io |-> "read", bytes |-> n, res |-> res]
  <2>1. e \in Completion /\ Belongs(e, c, "read") /\ cq' = Append(cq, e)
    BY <1>0, <1>1 DEF Completion, Completed, Belongs, Io
  <2> HIDE DEF e
  <2>2. /\ Pend(c, "read") # << >> /\ Pend(c, "read")' = Tail(Pend(c, "read"))
        /\ \A d \in Conn, io \in Io : d # c \/ io # "read" => Pend(d, io)' = Pend(d, io)
    BY <1>0, <1>1 DEF Pend
  <2> QED
    BY <1>1, <2>1, <2>2, CompletionAccounted DEF Io, peerVars
<1>2. ASSUME NEW n \in Nat, NEW res \in Outcome, sends[c] # << >>,
             sends' = [sends EXCEPT ![c] = Tail(@)],
             cq' = Completed(c, "write", n, res),
             UNCHANGED <<peerVars, net, key, recvs, leaked>>
      PROVE  LPart'
  <2> DEFINE e == [key |-> key[c], sock |-> c, io |-> "write", bytes |-> n, res |-> res]
  <2>1. e \in Completion /\ Belongs(e, c, "write") /\ cq' = Append(cq, e)
    BY <1>0, <1>2 DEF Completion, Completed, Belongs, Io
  <2> HIDE DEF e
  <2>2. /\ Pend(c, "write") # << >> /\ Pend(c, "write")' = Tail(Pend(c, "write"))
        /\ \A d \in Conn, io \in Io : d # c \/ io # "write" => Pend(d, io)' = Pend(d, io)
    BY <1>0, <1>2 DEF Pend, Io
  <2> QED
    BY <1>2, <2>1, <2>2, CompletionAccounted DEF Io, peerVars
<1>3. ASSUME NEW n \in 1..MaxIn, KernelReceives(c, n)
      PROVE  LPart'
  <2>1. n \in Nat
    BY <1>3, Numbers
  <2> QED
    BY <1>0, <1>1, <1>3, <2>1 DEF KernelReceives
<1>4. CASE KernelEndOfStream(c)
  BY <1>0, <1>1, <1>4 DEF KernelEndOfStream
<1>5. ASSUME NEW n \in 1..MaxOut, KernelSends(c, n)
      PROVE  LPart'
  <2>1. n \in Nat
    BY <1>5, Numbers
  <2> QED
    BY <1>0, <1>2, <1>5, <2>1 DEF KernelSends
<1>6. ASSUME NEW res \in Failure, KernelCancelsRecv(c, res)
      PROVE  LPart'
  BY <1>0, <1>1, <1>6 DEF KernelCancelsRecv
<1>7. ASSUME NEW res \in Failure, KernelCancelsSend(c, res)
      PROVE  LPart'
  BY <1>0, <1>2, <1>7 DEF KernelCancelsSend
<1> QED
  BY <1>3, <1>4, <1>5, <1>6, <1>7 DEF Kernel

(* Steps that leave the operations and the queue as they are and close     *)
(* nothing.                                                                *)
LEMMA IdleAccounted ==
  ASSUME LInv, UNCHANGED <<socket, key, recvs, sends, cq, leaked>>,
         \A c \in Conn : /\ net'[c] = "closed" <=> net[c] = "closed"
                         /\ net'[c] \in {"up", "fin", "rst"} <=>
                              net[c] \in {"up", "fin", "rst"}
  PROVE  LPart'
<1>1. OpenIsHeld' /\ Gone' = Gone /\ Gone \subseteq Conn
  BY DEF LInv, LPart, OpenIsHeld, Holds, InUse, Gone
<1>2. cq \in Seq(Completion)
  BY LeakTypes DEF LInv
<1>3. ASSUME NEW c \in Gone, NEW io \in Io
      PROVE  Eased(c, io)
  <2>1. Pend(c, io)' = Pend(c, io)
    BY DEF Pend
  <2> QED
    BY <1>1, <1>2, <2>1, QueueEases
<1> QED
  BY <1>1, <1>3, NothingClosed DEF LPart

(* A connection is made, or closed at once because its receive cannot be   *)
(* posted: the context of that receive is lost.                            *)
LEMMA RegisterAccounted ==
  ASSUME LInv, NEW c \in Conn, NEW i \in Slot, RegisterSocket(c, i)
  PROVE  LPart'
<1>0. /\ net \in [Conn -> NetState] /\ key \in [Conn -> Slot]
      /\ socket \in [Slot -> Nat] /\ cq \in Seq(Completion)
      /\ recvs \in [Conn -> Seq(Nat)]
  BY LeakTypes DEF LInv
<1>1. /\ net[c] = "none" /\ ~InUse(i)
      /\ key' = [key EXCEPT ![c] = i]
      /\ UNCHANGED <<sends, cq>>
      /\ \/ /\ socket' = [socket EXCEPT ![i] = c]
            /\ net' = [net EXCEPT ![c] = "up"]
            /\ \A d \in Conn : d # c => recvs'[d] = recvs[d]
            /\ leaked' = leaked
         \/ /\ net' = [net EXCEPT ![c] = "closed"]
            /\ leaked' = leaked + 1
            /\ UNCHANGED <<socket, recvs>>
  BY <1>0 DEF RegisterSocket, NewPeer, FirstFree, NextConn, PostRecv
<1>2. OpenIsHeld'
  <2> SUFFICES ASSUME NEW d \in Conn
               PROVE  net'[d] \in {"up", "fin", "rst"} <=>
                        (socket'[key'[d]] # INVALID_SOCKET /\ socket'[key'[d]] = d)
    BY DEF OpenIsHeld, Holds, InUse
  <2>1. net[d] \in {"up", "fin", "rst"} <=>
          (socket[key[d]] # INVALID_SOCKET /\ socket[key[d]] = d)
    BY DEF LInv, LPart, OpenIsHeld, Holds, InUse
  <2>2. c # INVALID_SOCKET /\ socket[i] = INVALID_SOCKET
    BY <1>1, Numbers DEF InUse
  <2>3. CASE d = c
    BY <1>0, <1>1, <2>2, <2>3
  <2>4. CASE d # c
    BY <1>0, <1>1, <2>1, <2>2, <2>4
  <2> QED
    BY <2>3, <2>4
<1>3. c \in Conn \ Gone /\ Gone \subseteq Conn
  BY <1>1 DEF Gone
<1>4. ASSUME NEW d \in Gone, NEW io \in Io
      PROVE  Eased(d, io)
  <2>1. Pend(d, io)' = Pend(d, io)
    BY <1>1, <1>3 DEF Pend
  <2> QED
    BY <1>0, <1>1, <1>3, <2>1, QueueEases
<1>5. CASE net' = [net EXCEPT ![c] = "up"] /\ leaked' = leaked
  <2>1. Gone' = Gone
    BY <1>0, <1>1, <1>5 DEF Gone
  <2> QED
    BY <1>2, <1>4, <1>5, <2>1, NothingClosed DEF LPart
<1>6. CASE /\ net' = [net EXCEPT ![c] = "closed"] /\ leaked' = leaked + 1
           /\ UNCHANGED recvs
  <2>1. Gone' = Gone \cup {c}
    BY <1>0, <1>6 DEF Gone
  <2>2. \A io \in Io : Alone(c, io)'
    BY <1>1, <1>6, EveryAlone DEF Alone, Pend
  <2>3. ~Owes(c, "read")'
    <3>1. recvs[c] = << >>
      BY <1>1 DEF LInv, XInv, XPart, Fresh
    <3>2. NoneOf(cq, c, "read")
      BY <1>1 DEF LInv, XInv, XPart, Addressed, In, NoneOf, Belongs
    <3> QED
      BY <1>1, <1>6, <3>1, <3>2 DEF Owes, Pend
  <2> QED
    BY <1>2, <1>3, <1>4, <1>6, <2>1, <2>2, <2>3, OneClosed DEF LPart, Io
<1> QED
  BY <1>1, <1>5, <1>6

LEMMA HeldIsNotGone ==
  ASSUME LInv, NEW j \in Slot, InUse(j)
  PROVE  socket[j] \in Conn \ Gone
<1>1. socket[j] \in Conn /\ key[socket[j]] = j
  BY SlotFacts DEF LInv, XInv
<1>2. net[socket[j]] \in {"up", "fin", "rst"}
  BY <1>1 DEF LInv, LPart, OpenIsHeld, Holds
<1> QED
  BY <1>1, <1>2 DEF Gone

(* A message changes nothing for the connections that are over. *)
LEMMA SendEases ==
  ASSUME LInv, NEW m \in Outbox,
         NEW q \in Seq(Completion), q = cq \/ (cq # << >> /\ q = Tail(cq)),
         SendMessage(m, q),
         NEW d \in Gone, NEW io \in Io, Pend(d, io)' = Pend(d, io)
  PROVE  Eased(d, io)
<1>1. d \in Conn
  BY DEF Gone
<1>2. cq' = q \/ \E e \in Completion : cq' = Append(q, e) /\ ~Belongs(e, d, io)
  <2>1. ASSUME NEW j \in Slot, NEW e \in Completion, InUse(j), e.sock = socket[j]
        PROVE  ~Belongs(e, d, io)
    BY <2>1, HeldIsNotGone DEF Belongs
  <2> QED
    BY <2>1, SendQueues
<1> QED
  BY <1>1, <1>2, QueueEases

LEMMA FrameSendAccounted ==
  ASSUME LInv, FrameSend
  PROVE  LPart'
<1>1. PICK m \in Outbox : SendMessage(m, cq)
  BY DEF FrameSend
<1>2. UNCHANGED <<socket, net, key, recvs, sends, leaked>>
  BY DEF FrameSend, netVars
<1>3. cq \in Seq(Completion)
  BY LeakTypes DEF LInv
<1>4. OpenIsHeld' /\ Gone' = Gone
  BY <1>2 DEF LInv, LPart, OpenIsHeld, Holds, InUse, Gone
<1>5. ASSUME NEW d \in Gone, NEW io \in Io
      PROVE  Eased(d, io)
  <2>1. Pend(d, io)' = Pend(d, io)
    BY <1>2 DEF Pend
  <2> QED
    BY <1>1, <1>3, <2>1, SendEases
<1> QED
  BY <1>2, <1>4, <1>5, NothingClosed DEF LPart

(* closePeer(), after which the context of the completion is freed.        *)
LEMMA CloseAccounted ==
  ASSUME LInv, UNCHANGED <<key, recvs, sends, leaked>>,
         NEW i \in Slot, InUse(i), ClosePeer(i),
         cq' = cq \/ (cq # << >> /\ cq' = Tail(cq))
  PROVE  LPart'
<1>1. PICK d \in Conn \ Gone : OpenIsHeld' /\ Gone' = Gone \cup {d}
  BY CloseFrees
<1>2. ASSUME NEW c \in Conn, NEW io \in Io
      PROVE  Eased(c, io)
  <2>1. Pend(c, io)' = Pend(c, io)
    BY DEF Pend
  <2>2. cq' \in Seq(Completion)
    BY LeakTypes DEF LInv
  <2> QED
    BY <2>1, <2>2, QueueEases
<1>3. (\A c \in Gone, io \in Io : Eased(c, io)) /\ \A io \in Io : Alone(d, io)'
  BY <1>1, <1>2 DEF Gone, Eased
<1> QED
  BY <1>1, <1>3, OneClosed DEF LPart

(* A completion is taken, of an operation nothing is known of any more.    *)
LEMMA TakeAccounted ==
  ASSUME LInv, UNCHANGED <<socket, net, key, recvs, sends>>,
         cq # << >>, cq' = Tail(cq),
         \/ leaked' = leaked
         \/ leaked' = leaked + 1 /\ ~InUse(Head(cq).key)
  PROVE  LPart'
<1>1. OpenIsHeld' /\ Gone' = Gone /\ Gone \subseteq Conn
  BY DEF LInv, LPart, OpenIsHeld, Holds, InUse, Gone
<1>2. cq \in Seq(Completion) /\ Tail(cq) \in Seq(Completion)
  BY LeakTypes DEF LInv
<1>3. ASSUME NEW c \in Gone, NEW io \in Io
      PROVE  Eased(c, io)
  <2>1. Pend(c, io)' = Pend(c, io)
    BY DEF Pend
  <2> QED
    BY <1>1, <1>2, <2>1, QueueEases
<1>4. CASE leaked' = leaked
  BY <1>1, <1>3, <1>4, NothingClosed DEF LPart
<1>5. CASE leaked' = leaked + 1 /\ ~InUse(Head(cq).key)
  <2>1. PICK d \in Conn, x \in Io : d = Head(cq).sock /\ x = Head(cq).io
    BY LeakTypes DEF LInv
  <2>2. Head(cq).key = key[d] /\ net[d] # "none" /\ Belongs(Head(cq), d, x)
    BY <2>1, LeakTypes DEF LInv, Belongs
  <2>3. d \in Gone
    <3>1. net[d] \in NetState /\ ~(net[d] \in {"up", "fin", "rst"})
      BY <1>5, <2>2, LeakTypes DEF LInv, LPart, OpenIsHeld, Holds
    <3> QED
      BY <2>2, <3>1 DEF Gone, NetState
  <2> DEFINE p == Pend(d, x)
  <2>4. p \in Seq(Nat) /\ Single(p, cq, d, x)
    BY LeakTypes, EveryAlone DEF LInv, Alone
  <2>5. Pend(d, x)' = p
    BY DEF Pend
  <2> HIDE DEF p
  <2>6. p = << >> /\ NoneOf(Tail(cq), d, x) /\ ~NoneOf(cq, d, x)
    BY <1>2, <2>2, <2>4, AloneTail
  <2>7. Owes(d, x)
    BY <2>6 DEF Owes
  <2>8. ~Owes(d, x)'
    BY <2>5, <2>6 DEF Owes
  <2> QED
    BY <1>1, <1>3, <1>5, <2>3, <2>7, <2>8, OneDropped DEF LPart
<1> QED
  BY <1>4, <1>5

(* A receive is handled: the next is posted, or the peer is closed, by the *)
(* application or because the post failed.                                 *)
LEMMA ReadAccounted ==
  ASSUME LInv, NEW i \in Slot, InUse(i), cq # << >>, Head(cq).key = i, Head(cq).io = "read",
         NEW take, NEW m \in Outbox, NEW keep \in BOOLEAN, NEW posted \in BOOLEAN,
         ProcessRead(i, Head(cq).bytes, take, m, keep, posted)
  PROVE  LPart'
<1> DEFINE q == Tail(cq)
<1> SUFFICES ASSUME NEW c \in Conn \ Gone, c = socket[i]
             PROVE  LPart'
  BY HeldIsNotGone
<1>0. /\ recvs \in [Conn -> Seq(Nat)] /\ cq \in Seq(Completion) /\ q \in Seq(Completion)
      /\ Gone \subseteq Conn
  BY LeakTypes DEF LInv, Gone
<1>1. /\ SendMessage(m, q)
      /\ \A d \in Conn : d # c => recvs'[d] = recvs[d]
      /\ keep /\ posted => StaysOpen
      /\ ~(keep /\ posted) => ClosePeer(i) /\ recvs' = recvs
      /\ leaked' = Contexts(keep /\ ~posted)
      /\ UNCHANGED <<key, sends>>
  BY <1>0 DEF ProcessRead, PostRecv
<1>2. ASSUME NEW d \in Gone, NEW io \in Io
      PROVE  Eased(d, io)
  <2>1. Pend(d, io)' = Pend(d, io)
    BY <1>0, <1>1 DEF Pend
  <2> HIDE DEF q
  <2> QED
    BY <1>0, <1>1, <2>1, SendEases DEF q
<1>3. CASE keep /\ posted
  <2>1. OpenIsHeld' /\ Gone' = Gone /\ leaked' = leaked
    BY <1>1, <1>3 DEF StaysOpen, Contexts, LInv, LPart, OpenIsHeld, Holds, InUse, Gone
  <2> QED
    BY <1>2, <2>1, NothingClosed DEF LPart
<1>4. CASE ~(keep /\ posted)
  <2>1. OpenIsHeld' /\ Gone' = Gone \cup {c}
    BY <1>1, <1>4, CloseFrees
  <2>2. /\ recvs[c] = << >> /\ NoneOf(q, c, "read")
        /\ \A io \in Io : Pend(c, io)' = Pend(c, io)
    BY <1>1, <1>4, HeadReads DEF LInv, Pend
  <2> HIDE DEF q
  <2>3. /\ \A io \in Io : Alone(c, io)'
        /\ NoneOf(cq', c, "read")
    <3>1. CASE cq' = q
      <4>1. \A io \in Io : Eased(c, io)
        BY <1>0, <2>2, <3>1, QueueEases DEF q
      <4> QED
        BY <2>2, <3>1, <4>1 DEF Eased
    <3>2. ASSUME NEW j \in Slot, NEW e \in Completion, InUse(j), wsa_send[j] = FALSE,
                 e.sock = socket[j], e.io = "write", cq' = Append(q, e)
          PROVE  (\A io \in Io : Alone(c, io)') /\ NoneOf(cq', c, "read")
      <4>1. ~Belongs(e, c, "read")
        BY <3>2 DEF Belongs
      <4>2. NoneOf(cq', c, "read")
        BY <1>0, <2>2, <3>2, <4>1, AppendFacts
      <4>3. ASSUME NEW io \in Io, ~Belongs(e, c, io)
            PROVE  Alone(c, io)'
        <5>1. Eased(c, io)
          BY <1>0, <2>2, <3>2, <4>3, QueueEases DEF q
        <5> QED
          BY <5>1 DEF Eased
      <4>4. ASSUME Belongs(e, c, "write")
            PROVE  Alone(c, "write")'
        <5>1. socket[j] = c
          BY <3>2, <4>4 DEF Belongs
        <5>2. sends[c] = << >> /\ NoneOf(cq, c, "write")
          BY <3>2, <5>1, NothingIsNone
        <5>3. Alone(c, "write") /\ sends[c] \in Seq(Nat)
          BY EveryAlone, LeakTypes DEF LInv, Io
        <5>4. Single(sends[c], cq, c, "write")
          BY <5>3 DEF Alone, Pend
        <5>5. Single(sends[c], q, c, "write") /\ NoneOf(q, c, "write")
          BY <1>0, <5>2, <5>3, <5>4, AloneTail DEF q
        <5>6. Single(sends[c], cq', c, "write")
          BY <1>0, <3>2, <4>4, <5>2, <5>3, <5>5, AloneAppend
        <5> QED
          BY <1>1, <5>6 DEF Alone, Pend
      <4> QED
        BY <4>1, <4>2, <4>3, <4>4 DEF Io
    <3> QED
      BY <1>0, <1>1, <3>1, <3>2, SendQueues
  <2>4. ~Owes(c, "read")'
    BY <1>1, <1>4, <2>2, <2>3 DEF Owes, Pend
  <2>5. leaked' = leaked \/ (leaked' = leaked + 1 /\ \E io \in Io : ~Owes(c, io)')
    BY <1>1, <2>4 DEF Contexts, Io
  <2> QED
    BY <1>2, <2>1, <2>3, <2>5, OneClosed DEF LPart
<1> QED
  BY <1>3, <1>4

(* A send is handled. *)
LEMMA WriteAccounted ==
  ASSUME LInv, NEW i \in Slot, InUse(i), cq # << >>, Head(cq).key = i, Head(cq).io = "write",
         NEW posted \in BOOLEAN, ProcessWrite(i, Head(cq).bytes, posted)
  PROVE  LPart'
<1> SUFFICES ASSUME NEW c \in Conn \ Gone, c = socket[i]
             PROVE  LPart'
  BY HeldIsNotGone
<1>0. /\ sends \in [Conn -> Seq(Nat)] /\ cq \in Seq(Completion)
      /\ Tail(cq) \in Seq(Completion) /\ Gone \subseteq Conn
  BY LeakTypes DEF LInv, Gone
<1>1. PICK failed \in BOOLEAN :
        /\ \A d \in Conn : d # c => sends'[d] = sends[d]
        /\ ~failed => StaysOpen
        /\ failed => ClosePeer(i) /\ sends' = sends
        /\ leaked' = Contexts(failed)
        /\ cq' = Tail(cq)
        /\ UNCHANGED <<key, recvs>>
  <2> DEFINE now == IF ReadableBytes(write_buf_backup[i]) > 0
                    THEN ApendBuf(ReadMove(write_buf[i], Head(cq).bytes),
                                  ReadableBytes(write_buf_backup[i]))
                    ELSE ReadMove(write_buf[i], Head(cq).bytes)
             more == ReadableBytes(now) > 0
  <2>1. /\ sends' = IF more /\ posted THEN PostSend(c, now) ELSE sends
        /\ IF more /\ ~posted THEN ClosePeer(i) ELSE StaysOpen
        /\ leaked' = Contexts(more /\ ~posted)
        /\ cq' = Tail(cq)
        /\ UNCHANGED <<key, recvs>>
    BY DEF ProcessWrite
  <2> HIDE DEF now
  <2>2. \A d \in Conn : d # c => sends'[d] = sends[d]
    BY <1>0, <2>1 DEF PostSend
  <2>3. (more /\ ~posted) \in BOOLEAN
    OBVIOUS
  <2> HIDE DEF more
  <2> QED
    BY <2>1, <2>2, <2>3
<1>2. ASSUME NEW d \in Conn, NEW io \in Io, Pend(d, io)' = Pend(d, io)
      PROVE  Eased(d, io)
  BY <1>0, <1>1, <1>2, QueueEases
<1>3. ASSUME NEW d \in Gone, NEW io \in Io
      PROVE  Eased(d, io)
  <2>1. Pend(d, io)' = Pend(d, io)
    BY <1>0, <1>1 DEF Pend
  <2> QED
    BY <1>0, <1>2, <2>1
<1>4. CASE ~failed
  <2>1. OpenIsHeld' /\ Gone' = Gone /\ leaked' = leaked
    BY <1>1, <1>4 DEF StaysOpen, Contexts, LInv, LPart, OpenIsHeld, Holds, InUse, Gone
  <2> QED
    BY <1>3, <2>1, NothingClosed DEF LPart
<1>5. CASE failed
  <2>1. OpenIsHeld' /\ Gone' = Gone \cup {c}
    BY <1>1, <1>5, CloseFrees
  <2>2. \A io \in Io : Pend(c, io)' = Pend(c, io)
    BY <1>1, <1>5 DEF Pend
  <2>3. \A io \in Io : Alone(c, io)'
    BY <1>2, <2>2 DEF Eased
  <2>4. sends[c] = << >> /\ NoneOf(Tail(cq), c, "write")
    BY HeadWrites DEF LInv
  <2>5. ~Owes(c, "write")'
    BY <1>1, <1>5, <2>4 DEF Owes, Pend
  <2>6. leaked' = leaked + 1 /\ \E io \in Io : ~Owes(c, io)'
    BY <1>1, <1>5, <2>5 DEF Contexts, Io
  <2> QED
    BY <1>3, <2>1, <2>3, <2>6, OneClosed DEF LPart
<1> QED
  BY <1>4, <1>5

LEMMA EventAccounted ==
  ASSUME LInv, OnEventTick
  PROVE  LPart'
<1>1. CASE EventTimeout
  BY <1>1, IdleAccounted DEF EventTimeout, netVars, peerVars
<1>2. ASSUME cq # << >>
      PROVE  Head(cq).key \in Slot
  BY <1>2, LeakTypes DEF LInv
<1>3. CASE EventNetnameDeleted
  <2>1. /\ cq # << >> /\ cq' = Tail(cq)
        /\ IF InUse(Head(cq).key) THEN ClosePeer(Head(cq).key) ELSE StaysOpen
        /\ UNCHANGED <<key, recvs, sends, leaked>>
    BY <1>3 DEF EventNetnameDeleted, Dequeue
  <2>2. PICK i \in Slot : i = Head(cq).key
    BY <1>2, <2>1
  <2>3. CASE InUse(i)
    BY <2>1, <2>2, <2>3, CloseAccounted
  <2>4. CASE ~InUse(i)
    BY <2>1, <2>2, <2>4, TakeAccounted DEF StaysOpen
  <2> QED
    BY <2>3, <2>4
<1>4. CASE EventOtherError
  BY <1>4, IdleAccounted DEF EventOtherError, Dequeue, netVars, peerVars
<1>5. CASE EventSlotFree
  <2>1. /\ cq # << >> /\ cq' = Tail(cq) /\ ~InUse(Head(cq).key)
        /\ leaked' = leaked + 1
        /\ UNCHANGED <<socket, net, key, recvs, sends>>
    BY <1>5 DEF EventSlotFree, Dequeue, peerVars, netVars
  <2> QED
    BY <2>1, TakeAccounted
<1>6. CASE EventShutdown
  <2>1. /\ cq # << >> /\ cq' = Tail(cq)
        /\ InUse(Head(cq).key) /\ ClosePeer(Head(cq).key)
        /\ UNCHANGED <<key, recvs, sends, leaked>>
    BY <1>6 DEF EventShutdown, Dequeue
  <2> QED
    BY <1>2, <2>1, CloseAccounted
<1>7. CASE EventRead
  <2>1. cq # << >> /\ Head(cq).io = "read" /\ InUse(Head(cq).key)
    BY <1>7 DEF EventRead, Dequeue
  <2>2. PICK i \in Slot : i = Head(cq).key
    BY <1>2, <2>1
  <2>3. ~WriteMoveThrows(read_buf[i], Head(cq).bytes)
    BY <2>1, <2>2, HeadReads DEF LInv
  <2>4. PICK take \in 0..(ReadableBytes(read_buf[i]) + Head(cq).bytes),
             m \in Outbox, keep \in BOOLEAN, posted \in BOOLEAN :
               ProcessRead(i, Head(cq).bytes, take, m, keep, posted)
    BY <1>7, <2>2, <2>3 DEF EventRead
  <2> QED
    BY <2>1, <2>2, <2>4, ReadAccounted
<1>8. CASE EventWrite
  <2>1. cq # << >> /\ Head(cq).io = "write" /\ InUse(Head(cq).key)
    BY <1>8 DEF EventWrite, Dequeue
  <2>2. PICK i \in Slot : i = Head(cq).key
    BY <1>2, <2>1
  <2>3. ~ReadMoveThrows(write_buf[i], Head(cq).bytes)
    BY <2>1, <2>2, HeadWrites DEF LInv
  <2>4. PICK posted \in BOOLEAN : ProcessWrite(i, Head(cq).bytes, posted)
    BY <1>8, <2>2, <2>3 DEF EventWrite
  <2> QED
    BY <2>1, <2>2, <2>4, WriteAccounted
<1> QED
  BY <1>1, <1>3, <1>4, <1>5, <1>6, <1>7, <1>8 DEF OnEventTick

LEMMA InitAccounted == Init => LInv
<1> SUFFICES ASSUME Init PROVE LInv
  OBVIOUS
<1>1. XInv
  BY InitExact
<1>2. OpenIsHeld
  <2>1. \A c \in Conn : net[c] = "none" /\ key[c] = 0
    BY DEF Init
  <2>2. 0 \in Slot /\ \A i \in Slot : socket[i] = INVALID_SOCKET
    BY PeerAssumption DEF Init, PeerInit, Slot
  <2> QED
    BY <2>1, <2>2 DEF OpenIsHeld, Holds, InUse
<1>3. Gone = {} /\ Owed = {}
  BY DEF Init, Gone, Owed
<1>4. Account
  BY <1>3, FS_EmptySet DEF Account, Init
<1> QED
  BY <1>1, <1>2, <1>3, <1>4 DEF LInv, LPart, GoneAlone

LEMMA StepAccounted == ReuseRace = FALSE /\ LInv /\ [Next]_vars => LInv'
<1> SUFFICES ASSUME ReuseRace = FALSE, LInv, [Next]_vars
             PROVE  LPart'
  BY StepExact DEF LInv
<1>1. CASE UNCHANGED vars
  BY <1>1, IdleAccounted DEF vars, netVars, peerVars
<1>2. ASSUME Register
      PROVE  LPart'
  <2>1. ASSUME NEW c \in Conn, RegisterOverflow(c)
        PROVE  LPart'
    BY <2>1, IdleAccounted DEF RegisterOverflow, netVars, peerVars
  <2> QED
    BY <1>2, <2>1, RegisterAccounted DEF Register
<1>3. CASE OnAcceptTick
  <2>1. CASE NoRequest
    BY <2>1, IdleAccounted DEF NoRequest, netVars, peerVars
  <2> QED
    BY <1>2, <1>3, <2>1 DEF OnAcceptTick
<1>4. CASE ConnectPeer
  BY <1>2, <1>4 DEF ConnectPeer
<1>5. CASE FrameClose
  <2>1. PICK h \in Handle : Valid(h[1], h[2]) /\ ClosePeer(h[1])
    BY <1>5 DEF FrameClose
  <2>2. h[1] \in Slot /\ InUse(h[1])
    BY <2>1, LeakTypes DEF Handle, Valid, LInv
  <2>3. UNCHANGED <<key, recvs, sends, leaked, cq>>
    BY <1>5 DEF FrameClose
  <2> QED
    BY <2>1, <2>2, <2>3, CloseAccounted
<1>6. ASSUME NEW c \in Conn, RemoteCloses(c) \/ RemoteResets(c)
      PROVE  LPart'
  <2>1. \A d \in Conn : /\ net'[d] = "closed" <=> net[d] = "closed"
                        /\ net'[d] \in {"up", "fin", "rst"} <=>
                             net[d] \in {"up", "fin", "rst"}
    BY <1>6, LeakTypes DEF RemoteCloses, RemoteResets, LInv
  <2>2. UNCHANGED <<socket, key, recvs, sends, cq, leaked>>
    BY <1>6 DEF RemoteCloses, RemoteResets, peerVars
  <2> QED
    BY <2>1, <2>2, IdleAccounted
<1>7. CASE Ended
  BY <1>1, <1>7 DEF Ended
<1> QED
  BY <1>1, <1>3, <1>4, <1>5, <1>6, <1>7, EventAccounted, FrameSendAccounted,
     KernelAccounted DEF Next, IoThread

(* No more I/O contexts are lost than two for each connection that is      *)
(* over: those of completions that onEventTick() drops because the slot is *)
(* free, and those of posts that failed.                                   *)
THEOREM LeaksBounded == ReuseRace = FALSE => (Spec => []LeakBounded)
<1> SUFFICES ASSUME ReuseRace = FALSE
             PROVE  Spec => []LeakBounded
  OBVIOUS
<1>1. LInv /\ [Next]_vars => LInv'
  BY StepAccounted
<1>2. LInv => LeakBounded
  <2> SUFFICES ASSUME LInv PROVE LeakBounded
    OBVIOUS
  <2>1. Gone \in SUBSET Conn /\ {} \in SUBSET Owed /\ Owed \in SUBSET (Gone \X Io)
        /\ leaked \in Nat
    BY LeakTypes DEF Gone, Owed, LInv
  <2>2. leaked + Cardinality({}) <= 2 * Cardinality(Gone)
    BY <2>1, Shares DEF LInv, LPart, Account
  <2>3. Cardinality({}) = 0
    BY FS_EmptySet
  <2>4. leaked + 0 <= 2 * Cardinality(Gone)
    BY <2>2, <2>3
  <2> QED
    BY <2>1, <2>4 DEF LeakBounded, Gone
<1> QED
  BY <1>1, <1>2, InitAccounted, PTL DEF Spec
=============================================================================
