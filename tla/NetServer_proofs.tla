-------------------------- MODULE NetServer_proofs --------------------------
(***************************************************************************)
(* What is proved of the parts of the server's own network library in      *)
(* Net.tla: the service on select() and the packets.  In a behaviour of    *)
(* Net.tla one component moves, so each part has an inductive invariant of *)
(* its own component, and its theorem lifts it to the composition, for any *)
(* number of slots, connections, bytes and fields.                         *)
(***************************************************************************)
EXTENDS Net, FiniteSetTheorems, SequenceTheorems, TLAPS

-----------------------------------------------------------------------------
(* The service on select() (SelectService.tla).  The invariant is          *)
(* SelectIInv: the list names the slots in use, each once; a slot in use   *)
(* has a connection of its own that is there; a connection that is not     *)
(* there yet has taken and given nothing.                                  *)

SlotsRight ==
  \A i \in Select!Slot : Select!InUse(i) =>
    /\ sel_socket[i] \in Select!Conn /\ net[sel_socket[i]] \in {"up", "fin", "rst"}
    /\ \A j \in Select!Slot : sel_socket[i] = sel_socket[j] => i = j

ListRight ==
  /\ \A k, l \in 1..Len(m_online_peers) :
       m_online_peers[k] = m_online_peers[l] => k = l
  /\ \A k \in 1..Len(m_online_peers) : Select!InUse(m_online_peers[k])
  /\ \A i \in Select!Slot : Select!InUse(i) =>
       \E k \in 1..Len(m_online_peers) : m_online_peers[k] = i

(* The slot the application was just told of is not in its table.          *)
Told(i) == Select!InUse(i) /\ ~(pc = "onDisCon" /\ i = current)

TableRight ==
  \A h : h \in players <=>
    \E i \in Select!Slot : Told(i) /\ h = <<i, serial[i], sel_socket[i]>>

BytesOf(i) ==
  /\ Select!WellFormed(sel_read_buf[i]) /\ Select!WellFormed(write_buf[i])
  /\ Select!InUse(i) =>
       LET c == sel_socket[i] IN
       /\ accepted[c] = wired[c] + Select!ReadableBytes(write_buf[i])
       /\ MaxIn = rest[c] + inbox[c] + eaten[c] + Select!ReadableBytes(sel_read_buf[i])

FreshConns ==
  \A c \in Select!Conn :
    /\ rest[c] + inbox[c] <= MaxIn
    /\ net[c] \in {"none", "waiting"} =>
         accepted[c] = 0 /\ wired[c] = 0 /\ eaten[c] = 0 /\ rest[c] + inbox[c] = MaxIn

LoopRight ==
  /\ pc = "peer" => pos >= 1
  /\ pc = "onDisCon" => Select!InUse(current)

SelectIInv ==
  /\ Select!TypeOK /\ SlotsRight /\ ListRight /\ TableRight
  /\ \A i \in Select!Slot : BytesOf(i)
  /\ FreshConns /\ LoopRight

LEMMA SelectAssumed ==
  /\ MaxConn \in Nat \ {0} /\ RecvRoom \in Nat \ {0} /\ FdSetSize \in Nat \ {0}
  /\ MaxIn \in Nat /\ MaxOut \in Nat /\ MaxPeerNum \in Nat \ {0} /\ PeerBufSize \in Nat
  /\ Select!Conn = 1..MaxConn /\ Select!ListenSd = MaxConn + 1
  /\ Select!Slot = 0..(MaxPeerNum - 1) /\ Select!INVALID_SOCKET = 0
BY NetAssumed DEF NetAssumption, Select!SelectAssumption, Select!PeerAssumption,
   Select!Conn, Select!ListenSd, Select!Slot, Select!INVALID_SOCKET

-----------------------------------------------------------------------------
(* What the operators on a buffer do, for this instance of SockBufIndex.   *)
LEMMA SelectRoom ==
  ASSUME NEW b, Select!WellFormed(b)
  PROVE  /\ b \in Select!SockBufType
         /\ Select!ReadableBytes(b) \in Nat /\ Select!WritableBytes(b) \in Nat
BY DEF Select!WellFormed, Select!SockBufType, Select!ReadableBytes, Select!WritableBytes

LEMMA SelectReset ==
  ASSUME NEW b, Select!WellFormed(b)
  PROVE  Select!WellFormed(Select!Reset(b)) /\ Select!ReadableBytes(Select!Reset(b)) = 0
BY DEF Select!WellFormed, Select!SockBufType, Select!Reset, Select!ReadableBytes

LEMMA SelectEnsure ==
  ASSUME NEW b, Select!WellFormed(b), NEW n \in Nat
  PROVE  LET r == Select!EnsureWritableBytes(b, n) IN
         /\ Select!WellFormed(r) /\ n <= Select!WritableBytes(r)
         /\ Select!ReadableBytes(r) = Select!ReadableBytes(b)
BY DEF Select!WellFormed, Select!SockBufType, Select!EnsureWritableBytes,
   Select!MakeSpace, Select!Grows, Select!ReadableBytes, Select!WritableBytes

LEMMA SelectWriteMove ==
  ASSUME NEW b, Select!WellFormed(b), NEW n \in Nat, n <= Select!WritableBytes(b)
  PROVE  /\ Select!WellFormed(Select!WriteMove(b, n))
         /\ Select!ReadableBytes(Select!WriteMove(b, n)) = Select!ReadableBytes(b) + n
BY DEF Select!WellFormed, Select!SockBufType, Select!WriteMove, Select!ReadableBytes,
   Select!WritableBytes

LEMMA SelectReadMove ==
  ASSUME NEW b, Select!WellFormed(b), NEW n \in Nat, n <= Select!ReadableBytes(b)
  PROVE  /\ Select!WellFormed(Select!ReadMove(b, n))
         /\ Select!ReadableBytes(Select!ReadMove(b, n)) = Select!ReadableBytes(b) - n
BY DEF Select!WellFormed, Select!SockBufType, Select!ReadMove, Select!ReadableBytes

LEMMA SelectApend ==
  ASSUME NEW b, Select!WellFormed(b), NEW n \in Nat
  PROVE  /\ Select!WellFormed(Select!ApendBuf(b, n))
         /\ Select!ReadableBytes(Select!ApendBuf(b, n)) = Select!ReadableBytes(b) + n
BY SelectEnsure, SelectWriteMove DEF Select!ApendBuf

-----------------------------------------------------------------------------
(* Lists without repetition: one more at the end, and one less.            *)
LEMMA LeastOfOne ==
  ASSUME NEW k \in Nat
  PROVE  Select!Min({k}) = k
BY DEF Select!Min

LEMMA Unlisting ==
  ASSUME Select!TypeOK, ListRight, NEW i \in Select!Slot, Select!InUse(i)
  PROVE  LET s == Select!Unlisted(i) IN
         /\ s \in Seq(Select!Slot)
         /\ \A k, l \in 1..Len(s) : s[k] = s[l] => k = l
         /\ \A k \in 1..Len(s) : s[k] # i /\ \E l \in 1..Len(m_online_peers) : s[k] = m_online_peers[l]
         /\ \A l \in 1..Len(m_online_peers) :
              m_online_peers[l] # i => \E k \in 1..Len(s) : s[k] = m_online_peers[l]
<1> DEFINE q == m_online_peers
           found == {k \in DOMAIN q : q[k] = i}
           n == Len(q)
<1>1. q \in Seq(Select!Slot) /\ n \in Nat /\ DOMAIN q = 1..n
  BY DEF Select!TypeOK
<1>2. PICK k0 \in 1..n : q[k0] = i
  BY DEF ListRight
<1>3. found = {k0}
  BY <1>1, <1>2 DEF ListRight
<1>4. Select!Unlisted(i) = Select!RemoveAt(q, k0)
  BY <1>1, <1>2, <1>3, LeastOfOne DEF Select!Unlisted
<1> DEFINE a == SubSeq(q, 1, k0 - 1)
           b == SubSeq(q, k0 + 1, n)
           s == a \o b
<1>5. Select!Unlisted(i) = s
  BY <1>4 DEF Select!RemoveAt
<1>6. /\ a \in Seq(Select!Slot) /\ Len(a) = k0 - 1
      /\ \A k \in 1..(k0 - 1) : a[k] = q[k]
  BY <1>1, <1>2, SubSeqProperties
<1>7. /\ b \in Seq(Select!Slot) /\ Len(b) = n - k0
      /\ \A k \in 1..(n - k0) : b[k] = q[k0 + k]
  <2>1. k0 + 1 \in Int /\ n \in Int /\ \A k \in (k0 + 1)..n : q[k] \in Select!Slot
    BY <1>1, <1>2
  <2>2. /\ b \in Seq(Select!Slot) /\ Len(b) = IF k0 + 1 <= n THEN n - (k0 + 1) + 1 ELSE 0
        /\ \A k \in 1..(n - (k0 + 1) + 1) : b[k] = q[(k0 + 1) + k - 1]
    BY <2>1, SubSeqProperties
  <2> HIDE DEF b
  <2>3. Len(b) = n - k0
    BY <1>1, <1>2, <2>2
  <2>4. ASSUME NEW k \in 1..(n - k0) PROVE b[k] = q[k0 + k]
    <3>1. k \in 1..(n - (k0 + 1) + 1) /\ (k0 + 1) + k - 1 = k0 + k
      BY <1>1, <1>2
    <3> QED
      BY <2>2, <3>1
  <2> QED
    BY <2>2, <2>3, <2>4
<1>8. /\ s \in Seq(Select!Slot) /\ Len(s) = n - 1
      /\ \A k \in 1..(k0 - 1) : s[k] = q[k]
      /\ \A k \in k0..(n - 1) : s[k] = q[k + 1]
  <2> HIDE DEF a, b
  <2>0. s \in Seq(Select!Slot) /\ Len(s) = Len(a) + Len(b)
    BY <1>6, <1>7, ConcatProperties
  <2>1. s \in Seq(Select!Slot) /\ Len(s) = n - 1
    BY <1>1, <1>2, <1>6, <1>7, <2>0
  <2>2. \A k \in 1..(k0 - 1) : s[k] = q[k]
    BY <1>1, <1>2, <1>6, <1>7, ConcatProperties
  <2>3. \A k \in k0..(n - 1) : s[k] = q[k + 1]
    <3> SUFFICES ASSUME NEW k \in k0..(n - 1) PROVE s[k] = q[k + 1]
      OBVIOUS
    <3>1. s[k] = b[k - Len(a)]
      BY <1>1, <1>2, <1>6, <1>7, ConcatProperties
    <3>2. k - Len(a) \in 1..(n - k0) /\ k0 + (k - Len(a)) = k + 1
      BY <1>1, <1>2, <1>6
    <3> QED
      BY <3>1, <3>2, <1>7
  <2> QED
    BY <2>1, <2>2, <2>3
<1> HIDE DEF s
<1>9. \A k \in 1..Len(s) : \E l \in 1..n : s[k] = q[l] /\ l # k0 /\ (l < k0 => k = l) /\ (l > k0 => k = l - 1)
  BY <1>1, <1>2, <1>8
<1>10. \A k \in 1..Len(s) : s[k] # i
  BY <1>1, <1>2, <1>3, <1>9 DEF ListRight
<1>11. \A k, l \in 1..Len(s) : s[k] = s[l] => k = l
  <2> SUFFICES ASSUME NEW k \in 1..Len(s), NEW l \in 1..Len(s), s[k] = s[l] PROVE k = l
    OBVIOUS
  <2>1. PICK x \in 1..n : s[k] = q[x] /\ x # k0 /\ (x < k0 => k = x) /\ (x > k0 => k = x - 1)
    BY <1>9
  <2>2. PICK y \in 1..n : s[l] = q[y] /\ y # k0 /\ (y < k0 => l = y) /\ (y > k0 => l = y - 1)
    BY <1>9
  <2>3. x = y
    BY <2>1, <2>2 DEF ListRight
  <2> QED
    BY <1>1, <1>2, <1>8, <2>1, <2>2, <2>3
<1>12. \A l \in 1..n : q[l] # i => \E k \in 1..Len(s) : s[k] = q[l]
  <2> SUFFICES ASSUME NEW l \in 1..n, q[l] # i PROVE \E k \in 1..Len(s) : s[k] = q[l]
    OBVIOUS
  <2>1. CASE l < k0
    BY <1>1, <1>2, <1>8, <2>1
  <2>2. CASE l > k0
    <3>1. l - 1 \in 1..Len(s) /\ l - 1 \in k0..(n - 1) /\ (l - 1) + 1 = l
      BY <1>1, <1>2, <1>8, <2>2
    <3> QED
      BY <1>8, <3>1
  <2> QED
    BY <1>1, <1>2, <2>1, <2>2
<1> QED
  BY <1>5, <1>8, <1>9, <1>10, <1>11, <1>12
-----------------------------------------------------------------------------
LEMMA SelectInit == Select!Init => SelectIInv
<1> SUFFICES ASSUME Select!Init PROVE SelectIInv
  OBVIOUS
<1> USE SelectAssumed
<1>1. /\ \A i \in Select!Slot : sel_socket[i] = 0 /\ m_online_peers = <<>> /\ players = {}
      /\ pc = "tick"
  BY DEF Select!Init, Select!PeerInit
<1>2. ~ \E i \in Select!Slot : Select!InUse(i)
  BY <1>1 DEF Select!InUse
<1>3. Select!WellFormed(Select!NewSockBuf(PeerBufSize))
  BY DEF Select!WellFormed, Select!SockBufType, Select!NewSockBuf
<1>4. Select!TypeOK
  <2>1. Select!PeerTypeOK
    BY DEF Select!Init, Select!PeerInit, Select!PeerTypeOK, Select!SockBufType, Select!NewSockBuf
  <2>2. /\ net \in [Select!Conn -> {"none", "waiting", "up", "fin", "rst", "closed"}]
        /\ inbox \in [Select!Conn -> 0..MaxIn] /\ rest \in [Select!Conn -> 0..MaxIn]
        /\ {accepted, wired} \subseteq [Select!Conn -> 0..MaxOut]
        /\ eaten \in [Select!Conn -> 0..MaxIn]
    BY DEF Select!Init
  <2>3. m_online_peers \in Seq(Select!Slot) /\ current \in Select!Slot /\ pos \in Nat
    BY DEF Select!Init
  <2> QED
    BY <2>1, <2>2, <2>3 DEF Select!Init, Select!TypeOK, Select!Sets
<1>5. SlotsRight /\ ListRight /\ TableRight /\ LoopRight
  BY <1>1, <1>2 DEF SlotsRight, ListRight, TableRight, LoopRight, Told
<1>6. \A i \in Select!Slot : BytesOf(i)
  BY <1>2, <1>3 DEF BytesOf, Select!Init, Select!PeerInit
<1>7. FreshConns
  BY DEF FreshConns, Select!Init
<1> QED
  BY <1>4, <1>5, <1>6, <1>7 DEF SelectIInv

(* A step of the loop that touches neither slots nor connections. *)
LEMMA LoopMoves ==
  ASSUME SelectIInv,
         UNCHANGED <<Select!peerVars, Select!netVars, m_online_peers, Select!appVars>>,
         m_read_set' \in Select!Sets, m_write_set' \in Select!Sets, down' \in BOOLEAN,
         pc # "onDisCon",
         pc' \in {"tick", "accept", "onCon", "peer", "onRead", "write"},
         pos' \in Nat, current' \in Select!Slot, pc' = "peer" => pos' >= 1
  PROVE  SelectIInv'
<1> USE DEF Select!peerVars, Select!bufVars, Select!netVars, Select!appVars
<1>1. Select!TypeOK'
  BY DEF SelectIInv, Select!TypeOK, Select!PeerTypeOK
<1>2. SlotsRight' /\ ListRight' /\ FreshConns' /\ LoopRight'
  BY DEF SelectIInv, SlotsRight, ListRight, FreshConns, LoopRight, Select!InUse
<1>3. TableRight'
  BY DEF SelectIInv, TableRight, Told, Select!InUse
<1>4. \A i \in Select!Slot : BytesOf(i)'
  BY DEF SelectIInv, BytesOf, Select!InUse
<1> QED
  BY <1>1, <1>2, <1>3, <1>4 DEF SelectIInv

LEMMA ReadyInSets ==
  ASSUME SelectIInv
  PROVE  Select!Ready \in Select!Sets /\ Select!WriteSockets \in Select!Sets
<1>1. m_online_peers \in Seq(Select!Slot) /\ Len(m_online_peers) \in Nat
  BY DEF SelectIInv, Select!TypeOK
<1>2. \A k \in 1..Len(m_online_peers) : sel_socket[m_online_peers[k]] \in Select!Conn
  BY <1>1 DEF SelectIInv, ListRight, SlotsRight
<1>3. Select!WriteSockets \subseteq Select!Conn
  <2> DEFINE writes == {k \in DOMAIN m_online_peers : Select!HasData(m_online_peers[k])}
             chosen == {j \in writes : Select!Cardinality(writes \cap (1..j)) <= FdSetSize}
  <2>1. chosen \subseteq 1..Len(m_online_peers)
    BY <1>1
  <2>2. Select!WriteSockets = Select!SocketsOf({m_online_peers[k] : k \in chosen})
    BY DEF Select!WriteSockets
  <2> HIDE DEF chosen
  <2> QED
    BY <1>2, <2>1, <2>2 DEF Select!SocketsOf
<1>4. Select!ReadSockets \subseteq Select!Conn
  <2> DEFINE n == IF Len(m_online_peers) < FdSetSize - 1 THEN Len(m_online_peers)
                  ELSE FdSetSize - 1
             t == SubSeq(m_online_peers, 1, n)
  <2>1. n \in Nat /\ n <= Len(m_online_peers)
    BY <1>1, SelectAssumed
  <2>2. t \in Seq(Select!Slot) /\ Len(t) = n /\ \A k \in 1..n : t[k] = m_online_peers[k]
    <3> HIDE DEF n
    <3>1. \A k \in 1..n : m_online_peers[k] \in Select!Slot
      BY <1>1, <2>1
    <3>2. /\ t \in Seq(Select!Slot) /\ Len(t) = IF 1 <= n THEN n - 1 + 1 ELSE 0
          /\ \A k \in 1..(n - 1 + 1) : t[k] = m_online_peers[1 + k - 1]
      BY <2>1, <3>1, SubSeqProperties
    <3> HIDE DEF t
    <3> QED
      BY <2>1, <3>2
  <2>3. Select!ToSet(t) \subseteq {m_online_peers[k] : k \in 1..Len(m_online_peers)}
    <3> HIDE DEF t, n
    <3> QED
      BY <1>1, <2>1, <2>2 DEF Select!ToSet
  <2> QED
    BY <1>2, <2>3 DEF Select!ReadSockets, Select!SocketsOf, Select!FirstOf
<1> QED
  BY <1>3, <1>4 DEF Select!Ready, Select!Sets
-----------------------------------------------------------------------------
(* A slot whose socket is in the write set is in use.                      *)
LEMMA SelectWritten ==
  ASSUME Select!TypeOK, NEW i, sel_socket[i] \in m_write_set
  PROVE  Select!InUse(i)
<1>1. m_write_set \subseteq 1..(MaxConn + 1)
  BY SelectAssumed DEF Select!TypeOK, Select!Sets
<1> QED
  BY <1>1, SelectAssumed DEF Select!InUse

LEMMA SelectRemote ==
  ASSUME SelectIInv, NEW c \in Select!Conn, Select!Remote(c)
  PROVE  SelectIInv'
<1> USE DEF Select!peerVars, Select!bufVars, Select!setVars, Select!loopVars, Select!appVars
<1>0. /\ UNCHANGED <<Select!peerVars, m_online_peers, Select!setVars, Select!loopVars, down,
                      Select!appVars>>
      /\ Select!TypeOK /\ MaxIn \in Nat
  BY SelectAssumed DEF Select!Remote, SelectIInv
<1>1. /\ net' \in [Select!Conn -> {"none", "waiting", "up", "fin", "rst", "closed"}]
      /\ inbox' \in [Select!Conn -> 0..MaxIn] /\ rest' \in [Select!Conn -> 0..MaxIn]
      /\ \A d \in Select!Conn : rest'[d] + inbox'[d] = rest[d] + inbox[d]
  <2>1. CASE Select!Connects(c) \/ Select!GivesUp(c) \/ Select!RemoteEnds(c)
    BY <1>0, <2>1 DEF Select!Connects, Select!GivesUp, Select!RemoteEnds, Select!TypeOK
  <2>2. CASE Select!RemoteSends(c)
    <3>1. rest[c] \in 0..MaxIn /\ inbox[c] \in 0..MaxIn /\ rest[c] + inbox[c] <= MaxIn
      BY <1>0 DEF Select!TypeOK, SelectIInv, FreshConns
    <3> QED
      <4>1. /\ inbox \in [Select!Conn -> 0..MaxIn] /\ rest \in [Select!Conn -> 0..MaxIn]
            /\ rest[c] > 0 /\ UNCHANGED net
            /\ inbox' = [inbox EXCEPT ![c] = @ + 1] /\ rest' = [rest EXCEPT ![c] = @ - 1]
            /\ net \in [Select!Conn -> {"none", "waiting", "up", "fin", "rst", "closed"}]
        BY <1>0, <2>2 DEF Select!RemoteSends, Select!TypeOK
      <4>2. inbox[c] + 1 \in 0..MaxIn /\ rest[c] - 1 \in 0..MaxIn
        BY ONLY <1>0, <3>1, <4>1
      <4>3. inbox' \in [Select!Conn -> 0..MaxIn] /\ rest' \in [Select!Conn -> 0..MaxIn]
        BY ONLY <4>1, <4>2
      <4>4. ASSUME NEW d \in Select!Conn PROVE rest'[d] + inbox'[d] = rest[d] + inbox[d]
        <5>1. rest[d] \in Int /\ inbox[d] \in Int
          BY ONLY <1>0, <4>1, d \in Select!Conn
        <5> QED
          BY ONLY <4>1, <5>1, c \in Select!Conn, d \in Select!Conn
      <4> QED
        BY ONLY <4>1, <4>3, <4>4
  <2> QED
    BY <2>1, <2>2 DEF Select!Remote
<1>2. \A d \in Select!Conn :
        /\ net[d] \in {"up", "fin", "rst"} => net'[d] \in {"up", "fin", "rst"}
        /\ net'[d] \in {"none", "waiting"} => net[d] \in {"none", "waiting"}
  BY <1>0 DEF Select!Remote, Select!Connects, Select!GivesUp, Select!RemoteSends,
     Select!RemoteEnds, Select!TypeOK
<1>3. Select!TypeOK'
  BY <1>0, <1>1 DEF Select!TypeOK, Select!PeerTypeOK
<1>4. SlotsRight'
  BY <1>0, <1>2 DEF SelectIInv, SlotsRight, Select!InUse
<1>5. ListRight' /\ TableRight' /\ LoopRight'
  BY <1>0 DEF SelectIInv, ListRight, TableRight, Told, LoopRight, Select!InUse
<1>6. FreshConns'
  BY <1>0, <1>1, <1>2 DEF SelectIInv, FreshConns
<1>7. ASSUME NEW i \in Select!Slot PROVE BytesOf(i)'
  <2> DEFINE d == sel_socket[i]
  <2>1. BytesOf(i) /\ (Select!InUse(i) => d \in Select!Conn)
    BY DEF SelectIInv, SlotsRight
  <2>2. d \in Select!Conn =>
          /\ rest[d] \in Nat /\ inbox[d] \in Nat /\ eaten[d] \in Nat
          /\ rest'[d] \in Nat /\ inbox'[d] \in Nat
          /\ rest'[d] + inbox'[d] = rest[d] + inbox[d]
    BY <1>0, <1>1 DEF Select!TypeOK
  <2>3. Select!ReadableBytes(sel_read_buf[i]) \in Nat
    BY <2>1, SelectRoom DEF BytesOf
  <2> QED
    BY <1>0, <2>1, <2>2, <2>3 DEF BytesOf, Select!InUse
<1> QED
  BY <1>3, <1>4, <1>5, <1>6, <1>7 DEF SelectIInv

(* The service is done with the connection i, and tells so.                *)
LEMMA LeavingMoves ==
  ASSUME SelectIInv, NEW i \in Select!Slot, Select!InUse(i), pc # "onDisCon",
         current' = i, Select!Leaves(i),
         sel_read_buf' \in [Select!Slot -> Select!SockBufType],
         \A j \in Select!Slot :
           /\ Select!WellFormed(sel_read_buf'[j])
           /\ Select!ReadableBytes(sel_read_buf'[j]) = Select!ReadableBytes(sel_read_buf[j]),
         UNCHANGED <<sel_socket, serial, write_buf, write_buf_backup, wsa_send, m_serial,
                     Select!netVars, m_online_peers, Select!setVars, pos, down, accepted,
                     wired, eaten>>
  PROVE  SelectIInv'
<1> USE DEF Select!netVars, Select!setVars, Select!Leaves
<1>1. Select!TypeOK'
  BY DEF SelectIInv, Select!TypeOK, Select!PeerTypeOK, Select!Forgotten
<1>2. SlotsRight' /\ ListRight' /\ FreshConns' /\ LoopRight'
  BY DEF SelectIInv, SlotsRight, ListRight, FreshConns, LoopRight, Select!InUse
<1>3. TableRight'
  <2>1. \A j \in Select!Slot : Told(j)' <=> Select!InUse(j) /\ j # i
    BY DEF Told, Select!InUse
  <2>2. \A j \in Select!Slot : Told(j) <=> Select!InUse(j)
    BY DEF Told
  <2>3. \A h : h \in players' <=> h \in players /\ h[1] # i
    BY DEF Select!Forgotten
  <2> QED
    BY <2>1, <2>2, <2>3 DEF SelectIInv, TableRight
<1>4. ASSUME NEW j \in Select!Slot PROVE BytesOf(j)'
  BY DEF SelectIInv, BytesOf, Select!InUse
<1> QED
  BY <1>1, <1>2, <1>3, <1>4 DEF SelectIInv

(* A connection is closed: what does not depend on the application.        *)
LEMMA ClosingMoves ==
  ASSUME SelectIInv, NEW i \in Select!Slot, Select!InUse(i), Select!Closes(i),
         UNCHANGED <<accepted, wired, eaten>>
  PROVE  /\ Select!PeerTypeOK' /\ m_online_peers' \in Seq(Select!Slot)
         /\ net' \in [Select!Conn -> {"none", "waiting", "up", "fin", "rst", "closed"}]
         /\ SlotsRight' /\ ListRight' /\ (\A j \in Select!Slot : BytesOf(j)') /\ FreshConns'
         /\ \A j \in Select!Slot :
              /\ Select!InUse(j)' <=> Select!InUse(j) /\ j # i
              /\ j # i => sel_socket'[j] = sel_socket[j]
<1> USE DEF Select!Closes, Select!DeletePeer, Select!bufVars
<1>0. /\ Select!TypeOK /\ Select!PeerTypeOK /\ Select!INVALID_SOCKET = 0
      /\ UNCHANGED <<serial, Select!bufVars, m_serial, inbox, rest>>
  BY SelectAssumed DEF SelectIInv, Select!TypeOK
<1>1. Select!PeerTypeOK'
  BY <1>0 DEF Select!PeerTypeOK
<1>2. \A j \in Select!Slot :
        /\ Select!InUse(j)' <=> Select!InUse(j) /\ j # i
        /\ j # i => sel_socket'[j] = sel_socket[j]
  BY <1>0 DEF Select!InUse, Select!PeerTypeOK
<1>3. net' \in [Select!Conn -> {"none", "waiting", "up", "fin", "rst", "closed"}]
  BY <1>0 DEF Select!TypeOK
<1>4. \A d \in Select!Conn : d # sel_socket[i] => net'[d] = net[d]
  BY <1>0 DEF Select!TypeOK
<1>5. \A d \in Select!Conn : net'[d] \in {"none", "waiting"} => net[d] \in {"none", "waiting"}
  BY <1>0 DEF Select!TypeOK
<1>6. SlotsRight'
  BY <1>2, <1>4 DEF SelectIInv, SlotsRight, Select!InUse
<1>7. m_online_peers' \in Seq(Select!Slot) /\ ListRight'
  <2> DEFINE s == Select!Unlisted(i)
  <2>1. /\ s \in Seq(Select!Slot)
        /\ \A k, l \in 1..Len(s) : s[k] = s[l] => k = l
        /\ \A k \in 1..Len(s) : s[k] # i /\ \E l \in 1..Len(m_online_peers) : s[k] = m_online_peers[l]
        /\ \A l \in 1..Len(m_online_peers) :
              m_online_peers[l] # i => \E k \in 1..Len(s) : s[k] = m_online_peers[l]
    BY <1>0, Unlisting DEF SelectIInv
  <2>2. m_online_peers' = s
    OBVIOUS
  <2> HIDE DEF s
  <2>3. \A k \in 1..Len(m_online_peers) :
          m_online_peers[k] \in Select!Slot /\ Select!InUse(m_online_peers[k])
    BY <1>0 DEF SelectIInv, ListRight, Select!TypeOK
  <2>4. ASSUME NEW k \in 1..Len(s)
        PROVE  s[k] \in Select!Slot /\ sel_socket'[s[k]] # 0
    <3>1. s[k] # i /\ \E l \in 1..Len(m_online_peers) : s[k] = m_online_peers[l]
      BY ONLY <2>1, k \in 1..Len(s)
    <3>2. PICK t \in Select!Slot : t = s[k] /\ t # i /\ Select!InUse(t)
      BY ONLY <2>3, <3>1
    <3>3. Select!InUse(t)'
      BY ONLY <1>2, <3>2
    <3> QED
      BY <1>0, <3>2, <3>3 DEF Select!InUse
  <2>5. ASSUME NEW j \in Select!Slot, sel_socket'[j] # 0
        PROVE  \E k \in 1..Len(s) : s[k] = j
    <3>1. Select!InUse(j) /\ j # i
      BY <1>0, <1>2, <2>5 DEF Select!InUse
    <3>2. PICK l \in 1..Len(m_online_peers) : m_online_peers[l] = j
      BY <3>1 DEF SelectIInv, ListRight
    <3> QED
      BY <2>1, <3>1, <3>2
  <2>6. ListRight'
    <3>1. \A k \in 1..Len(m_online_peers') : sel_socket'[m_online_peers'[k]] # 0
      BY ONLY <2>2, <2>4
    <3>2. \A j \in Select!Slot : sel_socket'[j] # 0 =>
            \E k \in 1..Len(m_online_peers') : m_online_peers'[k] = j
      BY ONLY <2>2, <2>5
    <3>3. \A k, l \in 1..Len(m_online_peers') : m_online_peers'[k] = m_online_peers'[l] => k = l
      BY ONLY <2>2, <2>1
    <3> QED
      BY ONLY <1>0, <3>1, <3>2, <3>3 DEF ListRight, Select!InUse
  <2> QED
    BY <2>1, <2>2, <2>6
<1>8. ASSUME NEW j \in Select!Slot PROVE BytesOf(j)'
  BY <1>0, <1>2 DEF SelectIInv, BytesOf
<1>9. FreshConns'
  BY <1>0, <1>5 DEF SelectIInv, FreshConns
<1> QED
  BY <1>1, <1>2, <1>3, <1>6, <1>7, <1>8, <1>9

-----------------------------------------------------------------------------
LEMMA SelectAccepts ==
  ASSUME SelectIInv, NEW c \in Select!Conn, NEW i \in Select!Slot, Select!AcceptPeer(c, i)
  PROVE  SelectIInv'
<1> USE DEF Select!AcceptPeer, Select!NewPeer, Select!FirstFree, Select!setVars
<1>0. /\ Select!TypeOK /\ Select!PeerTypeOK /\ Select!INVALID_SOCKET = 0
      /\ MaxIn \in Nat /\ MaxConn \in Nat /\ c \in 1..MaxConn
  BY SelectAssumed DEF SelectIInv, Select!TypeOK
<1>1. net[c] = "waiting" /\ ~ Select!InUse(i)
  BY DEF Select!Oldest, Select!Waiting
<1>2. \A j \in Select!Slot :
        /\ Select!InUse(j)' <=> Select!InUse(j) \/ j = i
        /\ sel_socket'[j] = IF j = i THEN c ELSE sel_socket[j]
  BY <1>0 DEF Select!InUse, Select!PeerTypeOK
<1>3. \A d \in Select!Conn : net'[d] = IF d = c THEN "up" ELSE net[d]
  BY <1>0 DEF Select!TypeOK
<1>4. Select!TypeOK'
  <2>1. \A b \in Select!SockBufType : Select!Reset(b) \in Select!SockBufType
    BY DEF Select!Reset, Select!SockBufType
  <2>2. Select!PeerTypeOK'
    BY <1>0, <2>1 DEF Select!PeerTypeOK
  <2>3. m_online_peers' \in Seq(Select!Slot)
    BY <1>0 DEF Select!TypeOK
  <2>4. players' \in SUBSET (Select!Slot \X Nat \X Select!Conn)
    BY <1>0 DEF Select!TypeOK, Select!PeerTypeOK
  <2>5. net' \in [Select!Conn -> {"none", "waiting", "up", "fin", "rst", "closed"}]
    BY <1>0 DEF Select!TypeOK
  <2> QED
    BY <1>0, <2>2, <2>3, <2>4, <2>5 DEF Select!TypeOK
<1>5. SlotsRight'
  <2> HIDE DEF Select!AcceptPeer, Select!NewPeer, Select!FirstFree
  <2>1. \A j \in Select!Slot : Select!InUse(j) =>
          sel_socket[j] \in Select!Conn /\ net[sel_socket[j]] \in {"up", "fin", "rst"}
            /\ sel_socket[j] # c
    BY <1>1 DEF SelectIInv, SlotsRight
  <2>2. c # 0 /\ \A j \in Select!Slot : sel_socket[j] = 0 \/ Select!InUse(j)
    BY <1>0 DEF Select!InUse
  <2>3. ASSUME NEW j \in Select!Slot, Select!InUse(j)'
        PROVE  /\ sel_socket'[j] \in Select!Conn
               /\ net'[sel_socket'[j]] \in {"up", "fin", "rst"}
    BY <1>2, <1>3, <2>1, <2>3
  <2>4. ASSUME NEW j \in Select!Slot, Select!InUse(j)', NEW k \in Select!Slot,
               sel_socket'[j] = sel_socket'[k]
        PROVE  j = k
    <3>1. CASE j = i
      BY <1>2, <2>1, <2>2, <2>4, <3>1
    <3>2. CASE j # i
      BY <1>2, <2>1, <2>2, <2>4, <3>2 DEF SelectIInv, SlotsRight
    <3> QED
      BY <3>1, <3>2
  <2> QED
    BY <2>3, <2>4 DEF SlotsRight
<1>6. ListRight'
  <2> DEFINE q == m_online_peers
             n == Len(m_online_peers)
  <2>1. q \in Seq(Select!Slot) /\ n \in Nat
    BY <1>0 DEF Select!TypeOK
  <2>2. /\ Len(q') = n + 1 /\ q'[n + 1] = i /\ \A k \in 1..n : q'[k] = q[k]
    BY <2>1
  <2>3. \A k \in 1..n : q[k] \in Select!Slot /\ q[k] # i
    BY <1>1, <2>1 DEF SelectIInv, ListRight
  <2>4. \A k \in 1..Len(q') : k \in 1..n \/ k = n + 1
    BY <2>1, <2>2
  <2> HIDE DEF Select!AcceptPeer
  <2>5. \A k, l \in 1..Len(q') : q'[k] = q'[l] => k = l
    BY <2>1, <2>2, <2>3, <2>4 DEF SelectIInv, ListRight
  <2>6. \A k \in 1..Len(q') : q'[k] \in Select!Slot /\ (Select!InUse(q[k]))'
    BY <1>2, <2>1, <2>2, <2>3, <2>4 DEF SelectIInv, ListRight
  <2>7. ASSUME NEW j \in Select!Slot, Select!InUse(j)'
        PROVE  \E k \in 1..Len(q') : q'[k] = j
    <3>1. CASE j = i
      BY <2>1, <2>2, <3>1
    <3>2. CASE j # i
      <4>1. PICK k \in 1..n : q[k] = j
        BY <1>2, <2>7, <3>2 DEF SelectIInv, ListRight
      <4>2. k \in 1..Len(q') /\ q'[k] = j
        BY <2>1, <2>2, <4>1
      <4> QED
        BY <4>2
    <3> QED
      BY <3>1, <3>2
  <2> QED
    BY <2>5, <2>6, <2>7 DEF ListRight
<1>7. TableRight'
  <2>1. \A j \in Select!Slot : Told(j) <=> Select!InUse(j)
    BY DEF Told
  <2>2. \A j \in Select!Slot : Told(j)' <=> Select!InUse(j) \/ j = i
    BY <1>2 DEF Told
  <2>3. \A j \in Select!Slot : serial'[j] = IF j = i THEN m_serial ELSE serial[j]
    BY <1>0 DEF Select!PeerTypeOK
  <2>4. \A h : h \in players' <=> h \in players \/ h = <<i, m_serial, c>>
    OBVIOUS
  <2> HIDE DEF Select!AcceptPeer
  <2>5. \A h : h \in players <=>
          \E j \in Select!Slot : Select!InUse(j) /\ h = <<j, serial[j], sel_socket[j]>>
    BY <2>1 DEF SelectIInv, TableRight
  <2>6. ASSUME NEW h PROVE h \in players' <=>
          \E j \in Select!Slot : Told(j)' /\ h = <<j, serial'[j], sel_socket'[j]>>
    <3>1. ASSUME h \in players
          PROVE  \E j \in Select!Slot : Told(j)' /\ h = <<j, serial'[j], sel_socket'[j]>>
      <4>1. PICK j \in Select!Slot : Select!InUse(j) /\ h = <<j, serial[j], sel_socket[j]>>
        BY <2>5, <3>1
      <4>2. j # i /\ Told(j)'
        BY <1>1, <2>2, <4>1
      <4> QED
        BY <1>2, <2>3, <4>1, <4>2
    <3>2. Told(i)' /\ <<i, serial'[i], sel_socket'[i]>> = <<i, m_serial, c>>
      BY <1>2, <2>2, <2>3
    <3>3. ASSUME NEW j \in Select!Slot, Told(j)', j # i
          PROVE  <<j, serial'[j], sel_socket'[j]>> \in players
      BY <1>2, <2>2, <2>3, <2>5, <3>3
    <3> QED
      BY <2>4, <3>1, <3>2, <3>3
  <2> QED
    BY <2>6 DEF TableRight
<1>8. ASSUME NEW j \in Select!Slot PROVE BytesOf(j)'
  <2>1. CASE j # i
    <3>1. /\ sel_read_buf'[j] = sel_read_buf[j] /\ write_buf'[j] = write_buf[j]
          /\ sel_socket'[j] = sel_socket[j] /\ Select!InUse(j)' = Select!InUse(j)
      <4>1. sel_read_buf'[j] = sel_read_buf[j]
        BY <1>0, <2>1 DEF Select!PeerTypeOK
      <4>2. write_buf'[j] = write_buf[j]
        BY <1>0, <2>1 DEF Select!PeerTypeOK
      <4>3. sel_socket'[j] = sel_socket[j] /\ Select!InUse(j)' = Select!InUse(j)
        BY <1>0, <2>1 DEF Select!PeerTypeOK, Select!InUse
      <4> QED
        BY <4>1, <4>2, <4>3
    <3> QED
      BY <3>1, <2>1 DEF SelectIInv, BytesOf
  <2>2. CASE j = i
    <3>1. sel_read_buf'[i] = Select!Reset(sel_read_buf[i]) /\ write_buf'[i] = Select!Reset(write_buf[i])
      BY <1>0 DEF Select!PeerTypeOK
    <3>2. /\ Select!WellFormed(sel_read_buf'[i]) /\ Select!WellFormed(write_buf'[i])
          /\ Select!ReadableBytes(sel_read_buf'[i]) = 0 /\ Select!ReadableBytes(write_buf'[i]) = 0
      BY <3>1, SelectReset DEF SelectIInv, BytesOf
    <3>3. accepted[c] = 0 /\ wired[c] = 0 /\ eaten[c] = 0 /\ rest[c] + inbox[c] = MaxIn
      BY <1>1 DEF SelectIInv, FreshConns
    <3>4. rest[c] + inbox[c] + eaten[c] + 0 = MaxIn
      BY <1>0, <3>3 DEF Select!TypeOK
    <3> QED
      BY <1>2, <2>2, <3>2, <3>3, <3>4 DEF BytesOf
  <2> QED
    BY <2>1, <2>2
<1>9. FreshConns' /\ LoopRight'
  BY <1>0, <1>3 DEF SelectIInv, FreshConns, LoopRight
<1> QED
  BY <1>4, <1>5, <1>6, <1>7, <1>8, <1>9 DEF SelectIInv

(* What a step on the bytes of one connection has to keep.                 *)
LEMMA BytesMove ==
  ASSUME SelectIInv, NEW i \in Select!Slot,
         UNCHANGED <<sel_socket, serial, write_buf_backup, wsa_send, m_serial, net,
                     m_online_peers, down, players, Select!setVars>>,
         /\ sel_read_buf' \in [Select!Slot -> Select!SockBufType]
         /\ write_buf' \in [Select!Slot -> Select!SockBufType]
         /\ inbox' \in [Select!Conn -> 0..MaxIn] /\ rest' \in [Select!Conn -> 0..MaxIn]
         /\ {accepted', wired'} \subseteq [Select!Conn -> 0..MaxOut]
         /\ eaten' \in [Select!Conn -> 0..MaxIn],
         BytesOf(i)',
         \A j \in Select!Slot \ {i} :
           sel_read_buf'[j] = sel_read_buf[j] /\ write_buf'[j] = write_buf[j],
         \A d \in Select!Conn :
           (d # sel_socket[i] \/ ~ Select!InUse(i)) =>
             <<accepted[d], wired[d], eaten[d], rest[d], inbox[d]>>' =
             <<accepted[d], wired[d], eaten[d], rest[d], inbox[d]>>,
         \A d \in Select!Conn : rest'[d] + inbox'[d] <= rest[d] + inbox[d],
         \/ UNCHANGED Select!loopVars
         \/ /\ pc # "onDisCon" /\ pos' \in Nat /\ current' \in Select!Slot
            /\ pc' \in {"peer", "onRead", "write"} /\ (pc' = "peer" => pos' >= 1)
  PROVE  SelectIInv'
<1> USE DEF Select!setVars, Select!loopVars
<1>0. Select!TypeOK /\ Select!PeerTypeOK /\ MaxIn \in Nat
  BY SelectAssumed DEF SelectIInv, Select!TypeOK
<1>1. Select!TypeOK'
  BY <1>0 DEF Select!TypeOK, Select!PeerTypeOK
<1>2. SlotsRight' /\ ListRight' /\ LoopRight'
  BY DEF SelectIInv, SlotsRight, ListRight, LoopRight, Select!InUse
<1>3. TableRight'
  <2>1. \A j \in Select!Slot : Told(j)' <=> Told(j)
    BY DEF Told, Select!InUse
  <2> QED
    BY <2>1 DEF SelectIInv, TableRight
<1>4. ASSUME NEW j \in Select!Slot, j # i PROVE BytesOf(j)'
  <2>1. Select!InUse(j) => sel_socket[j] \in Select!Conn /\ sel_socket[j] # sel_socket[i]
    BY <1>4 DEF SelectIInv, SlotsRight
  <2> QED
    BY <1>4, <2>1 DEF SelectIInv, BytesOf, Select!InUse
<1>5. FreshConns'
  <2> SUFFICES ASSUME NEW d \in Select!Conn
               PROVE  /\ rest'[d] + inbox'[d] <= MaxIn
                      /\ net[d] \in {"none", "waiting"} =>
                           /\ accepted'[d] = 0 /\ wired'[d] = 0 /\ eaten'[d] = 0
                           /\ rest'[d] + inbox'[d] = MaxIn
    BY DEF FreshConns
  <2>1. rest'[d] + inbox'[d] <= MaxIn
    <3>1. rest[d] + inbox[d] <= MaxIn /\ rest'[d] + inbox'[d] <= rest[d] + inbox[d]
      BY DEF SelectIInv, FreshConns
    <3>2. {rest[d], inbox[d], rest'[d], inbox'[d]} \subseteq Nat
      BY <1>0 DEF Select!TypeOK
    <3> QED
      BY <1>0, <3>1, <3>2
  <2>2. net[d] \in {"none", "waiting"} => d # sel_socket[i] \/ ~ Select!InUse(i)
    BY DEF SelectIInv, SlotsRight
  <2>3. net[d] \in {"none", "waiting"} =>
          <<accepted[d], wired[d], eaten[d], rest[d], inbox[d]>>' =
          <<accepted[d], wired[d], eaten[d], rest[d], inbox[d]>>
    BY <2>2
  <2> QED
    BY <2>1, <2>3 DEF SelectIInv, FreshConns
<1> QED
  BY <1>1, <1>2, <1>3, <1>4, <1>5 DEF SelectIInv

LEMMA SelectReceives ==
  ASSUME SelectIInv, NEW i \in Select!Slot, Select!RecvData(i)
  PROVE  SelectIInv'
<1> DEFINE c == sel_socket[i]
           r == Select!Roomy(i)
           n == IF inbox[c] < Select!WritableBytes(r) THEN inbox[c] ELSE Select!WritableBytes(r)
<1>0. /\ Select!TypeOK /\ Select!PeerTypeOK /\ MaxIn \in Nat /\ RecvRoom \in Nat
      /\ BytesOf(i) /\ m_online_peers \in Seq(Select!Slot)
  BY SelectAssumed DEF SelectIInv, Select!TypeOK
<1>1. Select!InUse(i) /\ c \in Select!Conn
  <2>1. pos \in 1..Len(m_online_peers) /\ m_online_peers[pos] = i
    BY <1>0 DEF Select!RecvData, Select!AtPeer, SelectIInv, LoopRight, Select!TypeOK
  <2> QED
    BY <2>1 DEF SelectIInv, ListRight, SlotsRight
<1>2. /\ Select!WellFormed(r) /\ Select!WritableBytes(r) \in Nat
      /\ Select!ReadableBytes(r) = Select!ReadableBytes(sel_read_buf[i])
  BY <1>0, SelectEnsure, SelectRoom DEF Select!Roomy, BytesOf
<1>3. n \in Nat /\ n <= inbox[c] /\ n <= Select!WritableBytes(r) /\ inbox[c] \in 0..MaxIn
  BY <1>0, <1>1, <1>2 DEF Select!TypeOK
<1>4. /\ sel_read_buf' = [sel_read_buf EXCEPT ![i] = Select!WriteMove(r, n)]
      /\ inbox' = [inbox EXCEPT ![c] = @ - n]
      /\ current' = i /\ pc' = "onRead" /\ pc = "peer"
      /\ UNCHANGED <<sel_socket, serial, write_buf, write_buf_backup, wsa_send, m_serial,
                     net, rest, m_online_peers, Select!setVars, pos, down, Select!appVars>>
  BY DEF Select!RecvData, Select!AtPeer
<1> HIDE DEF n, r, c
<1>5. /\ Select!WellFormed(Select!WriteMove(r, n))
      /\ Select!ReadableBytes(Select!WriteMove(r, n)) = Select!ReadableBytes(sel_read_buf[i]) + n
  BY <1>2, <1>3, SelectWriteMove
<1>6. /\ sel_read_buf' \in [Select!Slot -> Select!SockBufType]
      /\ sel_read_buf'[i] = Select!WriteMove(r, n)
      /\ \A j \in Select!Slot \ {i} : sel_read_buf'[j] = sel_read_buf[j]
  BY <1>0, <1>4, <1>5 DEF Select!PeerTypeOK, Select!WellFormed
<1>7. /\ inbox' \in [Select!Conn -> 0..MaxIn] /\ inbox'[c] = inbox[c] - n
      /\ \A d \in Select!Conn \ {c} : inbox'[d] = inbox[d]
  BY <1>0, <1>1, <1>3, <1>4 DEF Select!TypeOK
<1>8. BytesOf(i)'
  <2>1. /\ accepted'[c] = accepted[c] /\ wired'[c] = wired[c] /\ eaten'[c] = eaten[c]
        /\ rest'[c] = rest[c] /\ write_buf'[i] = write_buf[i] /\ sel_socket'[i] = c
    BY <1>4 DEF Select!appVars, c
  <2>2. rest[c] \in Nat /\ eaten[c] \in Nat /\ Select!ReadableBytes(sel_read_buf[i]) \in Nat
    BY <1>0, <1>1, SelectRoom DEF Select!TypeOK, BytesOf
  <2>3. /\ accepted[c] = wired[c] + Select!ReadableBytes(write_buf[i])
        /\ MaxIn = rest[c] + inbox[c] + eaten[c] + Select!ReadableBytes(sel_read_buf[i])
        /\ Select!WellFormed(write_buf[i])
    BY <1>0, <1>1 DEF BytesOf, c
  <2>4. MaxIn = rest[c] + (inbox[c] - n) + eaten[c] + (Select!ReadableBytes(sel_read_buf[i]) + n)
    BY <1>3, <2>2, <2>3
  <2> QED
    BY <1>5, <1>6, <1>7, <2>1, <2>3, <2>4 DEF BytesOf
<1>9. \A d \in Select!Conn : rest'[d] + inbox'[d] <= rest[d] + inbox[d]
  <2>1. \A d \in Select!Conn : rest[d] \in Nat /\ inbox[d] \in Nat /\ rest'[d] = rest[d]
    BY <1>0, <1>4 DEF Select!TypeOK
  <2> QED
    BY <1>3, <1>7, <2>1
<1>10. \A d \in Select!Conn : d # c =>
         <<accepted[d], wired[d], eaten[d], rest[d], inbox[d]>>' =
         <<accepted[d], wired[d], eaten[d], rest[d], inbox[d]>>
  BY <1>4, <1>7 DEF Select!appVars
<1>11. /\ pos' \in Nat /\ current' \in Select!Slot
       /\ write_buf' \in [Select!Slot -> Select!SockBufType]
       /\ rest' \in [Select!Conn -> 0..MaxIn]
       /\ {accepted', wired'} \subseteq [Select!Conn -> 0..MaxOut]
       /\ eaten' \in [Select!Conn -> 0..MaxIn]
  BY <1>0, <1>4 DEF Select!appVars, Select!TypeOK, Select!PeerTypeOK
<1>12. UNCHANGED <<sel_socket, serial, write_buf_backup, wsa_send, m_serial, net,
                   m_online_peers, down, players, Select!setVars>>
  BY <1>4 DEF Select!appVars
<1>13. \A j \in Select!Slot \ {i} : sel_read_buf'[j] = sel_read_buf[j] /\ write_buf'[j] = write_buf[j]
  BY <1>4, <1>6
<1> QED
  BY <1>1, <1>4, <1>6, <1>7, <1>8, <1>9, <1>10, <1>11, <1>12, <1>13, BytesMove DEF c

LEMMA SelectSends ==
  ASSUME SelectIInv, NEW n \in 1..MaxOut, Select!SendData(n)
  PROVE  SelectIInv'
<1>0. /\ Select!TypeOK /\ Select!PeerTypeOK /\ MaxIn \in Nat /\ MaxOut \in Nat
  BY SelectAssumed DEF SelectIInv, Select!TypeOK
<1> PICK i \in Select!Slot : i = current
  BY <1>0 DEF Select!TypeOK
<1> DEFINE c == sel_socket[i]
<1>1. Select!InUse(i) /\ c \in Select!Conn
  <2>1. c \in m_write_set
    BY DEF Select!SendData, Select!WritesNow
  <2>2. Select!InUse(i)
    BY <1>0, <2>1, SelectWritten
  <2> QED
    BY <2>2 DEF SelectIInv, SlotsRight
<1>2. /\ write_buf' = [write_buf EXCEPT ![i] = Select!ReadMove(@, n)]
      /\ wired' = [wired EXCEPT ![c] = @ + n]
      /\ n <= Select!ReadableBytes(write_buf[i])
      /\ pc' = "peer" /\ pos' = pos + 1 /\ pc = "write"
      /\ UNCHANGED <<sel_socket, serial, sel_read_buf, write_buf_backup, wsa_send, m_serial,
                     net, inbox, rest, m_online_peers, Select!setVars, current, down,
                     players, accepted, eaten>>
  BY DEF Select!SendData, Select!netVars
<1>3. BytesOf(i) /\ n \in Nat
  BY <1>0 DEF SelectIInv
<1> HIDE DEF c
<1>4. /\ Select!WellFormed(Select!ReadMove(write_buf[i], n))
      /\ Select!ReadableBytes(Select!ReadMove(write_buf[i], n)) = Select!ReadableBytes(write_buf[i]) - n
      /\ Select!ReadableBytes(write_buf[i]) \in Nat
  BY <1>2, <1>3, SelectReadMove, SelectRoom DEF BytesOf
<1>5. /\ write_buf' \in [Select!Slot -> Select!SockBufType]
      /\ write_buf'[i] = Select!ReadMove(write_buf[i], n)
      /\ \A j \in Select!Slot \ {i} : write_buf'[j] = write_buf[j]
  BY <1>0, <1>2, <1>4 DEF Select!PeerTypeOK, Select!WellFormed
<1>6. accepted[c] = wired[c] + Select!ReadableBytes(write_buf[i])
  BY <1>1, <1>3 DEF BytesOf, c
<1>7. accepted[c] \in 0..MaxOut /\ wired[c] \in 0..MaxOut
  BY <1>0, <1>1 DEF Select!TypeOK
<1>8. wired[c] + n \in 0..MaxOut
  BY <1>0, <1>2, <1>3, <1>4, <1>6, <1>7
<1>9. /\ wired' \in [Select!Conn -> 0..MaxOut] /\ wired'[c] = wired[c] + n
      /\ \A d \in Select!Conn \ {c} : wired'[d] = wired[d]
  BY <1>0, <1>1, <1>2, <1>8 DEF Select!TypeOK
<1>10. BytesOf(i)'
  <2>1. /\ accepted'[c] = accepted[c] /\ eaten'[c] = eaten[c] /\ rest'[c] = rest[c]
        /\ inbox'[c] = inbox[c] /\ sel_read_buf'[i] = sel_read_buf[i] /\ sel_socket'[i] = c
    BY <1>2 DEF c
  <2>2. accepted'[c] = wired'[c] + Select!ReadableBytes(write_buf'[i])
    BY <1>3, <1>4, <1>5, <1>6, <1>7, <1>9, <2>1
  <2>3. /\ MaxIn = rest[c] + inbox[c] + eaten[c] + Select!ReadableBytes(sel_read_buf[i])
        /\ Select!WellFormed(sel_read_buf[i])
    BY <1>1, <1>3 DEF BytesOf, c
  <2> QED
    BY <1>4, <1>5, <2>1, <2>2, <2>3 DEF BytesOf
<1>11. /\ \A d \in Select!Conn : rest'[d] + inbox'[d] <= rest[d] + inbox[d]
       /\ sel_read_buf' \in [Select!Slot -> Select!SockBufType]
       /\ inbox' \in [Select!Conn -> 0..MaxIn] /\ rest' \in [Select!Conn -> 0..MaxIn]
       /\ accepted' \in [Select!Conn -> 0..MaxOut] /\ eaten' \in [Select!Conn -> 0..MaxIn]
  BY <1>0, <1>2 DEF Select!TypeOK, Select!PeerTypeOK
<1>12. \A d \in Select!Conn : d # c =>
         <<accepted[d], wired[d], eaten[d], rest[d], inbox[d]>>' =
         <<accepted[d], wired[d], eaten[d], rest[d], inbox[d]>>
  BY <1>2, <1>9
<1>13. pos' \in Nat /\ pos' >= 1 /\ current' \in Select!Slot
  BY <1>0, <1>2 DEF Select!TypeOK
<1>14. UNCHANGED <<sel_socket, serial, write_buf_backup, wsa_send, m_serial, net,
                   m_online_peers, down, players, Select!setVars>>
  BY <1>2
<1>15. \A j \in Select!Slot \ {i} : sel_read_buf'[j] = sel_read_buf[j] /\ write_buf'[j] = write_buf[j]
  BY <1>2, <1>5
<1> QED
  BY <1>0, <1>1, <1>2, <1>5, <1>9, <1>10, <1>11, <1>12, <1>13, <1>14, <1>15, BytesMove DEF c

LEMMA SelectEats ==
  ASSUME SelectIInv, NEW n \in 1..MaxIn, Select!AppEats(n)
  PROVE  SelectIInv'
<1>0. /\ Select!TypeOK /\ Select!PeerTypeOK /\ MaxIn \in Nat
  BY SelectAssumed DEF SelectIInv, Select!TypeOK
<1> PICK i \in Select!Slot : i = current
  BY <1>0 DEF Select!TypeOK
<1> DEFINE c == sel_socket[i]
<1>1. Select!InUse(i) /\ c \in Select!Conn
  BY DEF Select!AppEats, SelectIInv, SlotsRight
<1>2. /\ sel_read_buf' = [sel_read_buf EXCEPT ![i] = Select!ReadMove(sel_read_buf[i], n)]
      /\ eaten' = [eaten EXCEPT ![c] = @ + n]
      /\ n <= Select!ReadableBytes(sel_read_buf[i])
      /\ UNCHANGED <<sel_socket, serial, write_buf, write_buf_backup, wsa_send, m_serial,
                     net, inbox, rest, m_online_peers, Select!setVars, Select!loopVars, down,
                     players, accepted, wired>>
  BY DEF Select!AppEats, Select!netVars
<1>3. BytesOf(i) /\ n \in Nat
  BY <1>0 DEF SelectIInv
<1> HIDE DEF c
<1>4. /\ Select!WellFormed(Select!ReadMove(sel_read_buf[i], n))
      /\ Select!ReadableBytes(Select!ReadMove(sel_read_buf[i], n)) = Select!ReadableBytes(sel_read_buf[i]) - n
      /\ Select!ReadableBytes(sel_read_buf[i]) \in Nat
  BY <1>2, <1>3, SelectReadMove, SelectRoom DEF BytesOf
<1>5. /\ sel_read_buf' \in [Select!Slot -> Select!SockBufType]
      /\ sel_read_buf'[i] = Select!ReadMove(sel_read_buf[i], n)
      /\ \A j \in Select!Slot \ {i} : sel_read_buf'[j] = sel_read_buf[j]
  BY <1>0, <1>2, <1>4 DEF Select!PeerTypeOK, Select!WellFormed
<1>6. MaxIn = rest[c] + inbox[c] + eaten[c] + Select!ReadableBytes(sel_read_buf[i])
  BY <1>1, <1>3 DEF BytesOf, c
<1>7. rest[c] \in Nat /\ inbox[c] \in Nat /\ eaten[c] \in Nat
  BY <1>0, <1>1 DEF Select!TypeOK
<1>8. /\ eaten[c] + n \in 0..MaxIn
      /\ MaxIn = rest[c] + inbox[c] + (eaten[c] + n) + (Select!ReadableBytes(sel_read_buf[i]) - n)
  BY <1>0, <1>2, <1>3, <1>4, <1>6, <1>7
<1>9. /\ eaten' \in [Select!Conn -> 0..MaxIn] /\ eaten'[c] = eaten[c] + n
      /\ \A d \in Select!Conn \ {c} : eaten'[d] = eaten[d]
  BY <1>0, <1>1, <1>2, <1>8 DEF Select!TypeOK
<1>10. BytesOf(i)'
  <2>1. /\ accepted'[c] = accepted[c] /\ wired'[c] = wired[c] /\ rest'[c] = rest[c]
        /\ inbox'[c] = inbox[c] /\ write_buf'[i] = write_buf[i] /\ sel_socket'[i] = c
    BY <1>2 DEF c
  <2>2. /\ accepted[c] = wired[c] + Select!ReadableBytes(write_buf[i])
        /\ Select!WellFormed(write_buf[i])
    BY <1>1, <1>3 DEF BytesOf, c
  <2> QED
    BY <1>4, <1>5, <1>8, <1>9, <2>1, <2>2 DEF BytesOf
<1>11. /\ \A d \in Select!Conn : rest'[d] + inbox'[d] <= rest[d] + inbox[d]
       /\ write_buf' \in [Select!Slot -> Select!SockBufType]
       /\ inbox' \in [Select!Conn -> 0..MaxIn] /\ rest' \in [Select!Conn -> 0..MaxIn]
       /\ {accepted', wired'} \subseteq [Select!Conn -> 0..MaxOut]
  BY <1>0, <1>2 DEF Select!TypeOK, Select!PeerTypeOK
<1>12. \A d \in Select!Conn : d # c =>
         <<accepted[d], wired[d], eaten[d], rest[d], inbox[d]>>' =
         <<accepted[d], wired[d], eaten[d], rest[d], inbox[d]>>
  BY <1>2, <1>9
<1>13. UNCHANGED <<sel_socket, serial, write_buf_backup, wsa_send, m_serial, net,
                   m_online_peers, down, players, Select!setVars>>
  BY <1>2
<1>14. \A j \in Select!Slot \ {i} : sel_read_buf'[j] = sel_read_buf[j] /\ write_buf'[j] = write_buf[j]
  BY <1>2, <1>5
<1> QED
  BY <1>1, <1>2, <1>5, <1>9, <1>10, <1>11, <1>12, <1>13, <1>14, BytesMove DEF c

LEMMA SelectAppSends ==
  ASSUME SelectIInv, NEW i \in Select!Slot, Select!AppSends(i)
  PROVE  SelectIInv'
<1> DEFINE c == sel_socket[i]
<1>0. /\ Select!TypeOK /\ Select!PeerTypeOK /\ MaxOut \in Nat /\ BytesOf(i) /\ 1 \in Nat
  BY SelectAssumed DEF SelectIInv, Select!TypeOK
<1>1. Select!InUse(i) => c \in Select!Conn /\ accepted[c] < MaxOut
  BY DEF Select!AppSends, SelectIInv, SlotsRight
<1>2. /\ write_buf' = [write_buf EXCEPT ![i] = Select!ApendBuf(@, 1)]
      /\ accepted' = IF Select!InUse(i) THEN [accepted EXCEPT ![c] = @ + 1] ELSE accepted
      /\ UNCHANGED <<sel_socket, serial, sel_read_buf, write_buf_backup, wsa_send, m_serial,
                     net, inbox, rest, m_online_peers, Select!setVars, Select!loopVars, down,
                     players, wired, eaten>>
  BY DEF Select!AppSends, Select!netVars
<1> HIDE DEF c
<1>3. /\ Select!WellFormed(Select!ApendBuf(write_buf[i], 1))
      /\ Select!ReadableBytes(Select!ApendBuf(write_buf[i], 1)) = Select!ReadableBytes(write_buf[i]) + 1
      /\ Select!ReadableBytes(write_buf[i]) \in Nat
  BY <1>0, SelectApend, SelectRoom DEF BytesOf
<1>4. /\ write_buf' \in [Select!Slot -> Select!SockBufType]
      /\ write_buf'[i] = Select!ApendBuf(write_buf[i], 1)
      /\ \A j \in Select!Slot \ {i} : write_buf'[j] = write_buf[j]
  BY <1>0, <1>2, <1>3 DEF Select!PeerTypeOK, Select!WellFormed
<1>5. /\ accepted' \in [Select!Conn -> 0..MaxOut]
      /\ Select!InUse(i) => accepted'[c] = accepted[c] + 1
      /\ \A d \in Select!Conn : (d # c \/ ~ Select!InUse(i)) => accepted'[d] = accepted[d]
  <2>1. CASE Select!InUse(i)
    <3>1. accepted[c] \in 0..MaxOut /\ accepted[c] + 1 \in 0..MaxOut
      BY <1>0, <1>1, <2>1 DEF Select!TypeOK
    <3> QED
      BY <1>0, <1>1, <1>2, <2>1, <3>1 DEF Select!TypeOK
  <2>2. CASE ~ Select!InUse(i)
    BY <1>0, <1>2, <2>2 DEF Select!TypeOK
  <2> QED
    BY <2>1, <2>2
<1>6. BytesOf(i)'
  <2>1. /\ wired' = wired /\ rest' = rest /\ inbox' = inbox /\ eaten' = eaten
        /\ sel_read_buf'[i] = sel_read_buf[i] /\ sel_socket'[i] = c
        /\ Select!InUse(i)' <=> Select!InUse(i)
    BY <1>2 DEF c, Select!InUse
  <2>2. Select!InUse(i) =>
          /\ accepted[c] = wired[c] + Select!ReadableBytes(write_buf[i])
          /\ MaxIn = rest[c] + inbox[c] + eaten[c] + Select!ReadableBytes(sel_read_buf[i])
          /\ wired[c] \in Nat
    BY <1>0, <1>1 DEF BytesOf, c, Select!TypeOK
  <2>3. Select!InUse(i) => accepted'[c] = wired[c] + (Select!ReadableBytes(write_buf[i]) + 1)
    BY <1>3, <1>5, <2>2
  <2>4. Select!WellFormed(sel_read_buf[i])
    BY <1>0 DEF BytesOf
  <2> QED
    BY <1>3, <1>4, <2>1, <2>2, <2>3, <2>4 DEF BytesOf
<1>7. /\ \A d \in Select!Conn : rest'[d] + inbox'[d] <= rest[d] + inbox[d]
      /\ sel_read_buf' \in [Select!Slot -> Select!SockBufType]
      /\ inbox' \in [Select!Conn -> 0..MaxIn] /\ rest' \in [Select!Conn -> 0..MaxIn]
      /\ wired' \in [Select!Conn -> 0..MaxOut] /\ eaten' \in [Select!Conn -> 0..MaxIn]
  BY <1>0, <1>2 DEF Select!TypeOK, Select!PeerTypeOK
<1>8. \A d \in Select!Conn : (d # c \/ ~ Select!InUse(i)) =>
        <<accepted[d], wired[d], eaten[d], rest[d], inbox[d]>>' =
        <<accepted[d], wired[d], eaten[d], rest[d], inbox[d]>>
  BY <1>2, <1>5
<1>9. UNCHANGED <<sel_socket, serial, write_buf_backup, wsa_send, m_serial, net,
                  m_online_peers, down, players, Select!setVars>>
  BY <1>2
<1>10. \A j \in Select!Slot \ {i} : sel_read_buf'[j] = sel_read_buf[j] /\ write_buf'[j] = write_buf[j]
  BY <1>2, <1>4
<1> QED
  BY <1>2, <1>4, <1>5, <1>6, <1>7, <1>8, <1>9, <1>10, BytesMove DEF c

(* closePeer, called by the application and by the service. *)
LEMMA SelectCloses ==
  ASSUME SelectIInv,
         \/ Select!OnDisConReturns
         \/ \E i \in Select!Slot : Select!AppCloses(i)
  PROVE  SelectIInv'
<1>0. /\ Select!TypeOK /\ UNCHANGED <<down, accepted, wired, eaten>>
      /\ current \in Select!Slot /\ 0 \in Select!Slot
  <2>1. Select!TypeOK
    BY DEF SelectIInv
  <2>3. current \in Select!Slot
    BY <2>1 DEF Select!TypeOK
  <2>4. 0 \in Select!Slot
    BY SelectAssumed
  <2>2. UNCHANGED <<down, accepted, wired, eaten>>
    BY DEF Select!OnDisConReturns, Select!AppCloses, Select!appVars
  <2> QED
    BY <2>1, <2>2, <2>3, <2>4
<1>1. PICK i \in Select!Slot :
        /\ Select!InUse(i) /\ Select!Closes(i)
        /\ \/ pc = "onDisCon" /\ i = current /\ Select!TickEnds /\ players' = players
           \/ /\ ~(pc = "onDisCon" /\ i = current) /\ players' = Select!Forgotten(i)
              /\ Select!InCallback
              /\ UNCHANGED <<Select!setVars, Select!loopVars>>
  <2>1. CASE Select!OnDisConReturns
    BY <1>0, <2>1 DEF Select!OnDisConReturns, SelectIInv, LoopRight, Select!appVars
  <2>2. CASE \E i \in Select!Slot : Select!AppCloses(i)
    BY <2>2 DEF Select!AppCloses
  <2> QED
    BY <2>1, <2>2
<1>2. /\ Select!PeerTypeOK' /\ m_online_peers' \in Seq(Select!Slot)
      /\ net' \in [Select!Conn -> {"none", "waiting", "up", "fin", "rst", "closed"}]
      /\ SlotsRight' /\ ListRight' /\ (\A j \in Select!Slot : BytesOf(j)') /\ FreshConns'
      /\ \A j \in Select!Slot :
           /\ Select!InUse(j)' <=> Select!InUse(j) /\ j # i
           /\ j # i => sel_socket'[j] = sel_socket[j]
  BY <1>0, <1>1, ClosingMoves
<1>3. UNCHANGED <<serial, inbox, rest>>
  BY <1>1 DEF Select!Closes
<1>4. \A j \in Select!Slot : Told(j)' <=> Told(j) /\ j # i
  BY <1>1, <1>2 DEF Told, Select!TickEnds, Select!InCallback, Select!loopVars
<1>5. \A h : h \in players' <=>
        \E j \in Select!Slot : Told(j) /\ j # i /\ h = <<j, serial[j], sel_socket[j]>>
  <2>1. CASE pc = "onDisCon" /\ i = current
    BY <1>1, <2>1 DEF SelectIInv, TableRight, Told
  <2>2. CASE ~(pc = "onDisCon" /\ i = current)
    <3>1. \A h : h \in players' <=> h \in players /\ h[1] # i
      BY <1>1, <2>2 DEF Select!Forgotten
    <3>2. \A h : h \in players <=>
            \E j \in Select!Slot : Told(j) /\ h = <<j, serial[j], sel_socket[j]>>
      BY DEF SelectIInv, TableRight
    <3> QED
      BY <3>1, <3>2
  <2> QED
    BY <2>1, <2>2
<1>6. TableRight'
  <2>1. ASSUME NEW h
        PROVE  h \in players' <=>
                 \E j \in Select!Slot : Told(j)' /\ h = <<j, serial'[j], sel_socket'[j]>>
    BY <1>2, <1>3, <1>4, <1>5
  <2> QED
    BY <2>1 DEF TableRight
<1>7. LoopRight'
  <2>1. CASE Select!TickEnds
    BY <2>1 DEF LoopRight, Select!TickEnds
  <2>2. CASE UNCHANGED Select!loopVars /\ ~(pc = "onDisCon" /\ i = current)
    BY <1>0, <1>2, <2>2 DEF SelectIInv, LoopRight, Select!loopVars
  <2> QED
    BY <1>1, <2>1, <2>2
<1>8. Select!TypeOK'
  <2>1. players' \in SUBSET (Select!Slot \X Nat \X Select!Conn)
    BY <1>0, <1>1 DEF Select!Forgotten, Select!TypeOK
  <2>2. /\ m_read_set' \in Select!Sets /\ m_write_set' \in Select!Sets
        /\ pc' \in {"tick", "accept", "onCon", "peer", "onRead", "write", "onDisCon"}
        /\ pos' \in Nat /\ current' \in Select!Slot
    BY <1>0, <1>1
       DEF Select!TypeOK, Select!TickEnds, Select!loopVars, Select!setVars, Select!Sets
  <2> QED
    BY <1>0, <1>2, <1>3, <2>1, <2>2 DEF Select!TypeOK
<1> QED
  BY <1>2, <1>6, <1>7, <1>8 DEF SelectIInv

LEMMA SelectLeaves ==
  ASSUME SelectIInv, NEW i \in Select!Slot,
         \/ Select!RecvEnds(i)
         \/ i = current /\ Select!SendFails
         \/ i = current /\ Select!InUse(i) /\ Select!OnReadRefuses
  PROVE  SelectIInv'
<1> USE DEF Select!peerVars, Select!bufVars
<1>0. /\ Select!TypeOK /\ Select!PeerTypeOK /\ RecvRoom \in Nat
      /\ m_online_peers \in Seq(Select!Slot)
      /\ \A j \in Select!Slot : Select!WellFormed(sel_read_buf[j])
  BY SelectAssumed DEF SelectIInv, Select!TypeOK, BytesOf
<1>1. CASE Select!RecvEnds(i)
  <2>1. pos \in 1..Len(m_online_peers) /\ m_online_peers[pos] = i
    BY <1>0, <1>1 DEF Select!RecvEnds, Select!AtPeer, SelectIInv, LoopRight, Select!TypeOK
  <2>2. Select!InUse(i)
    BY <2>1 DEF SelectIInv, ListRight
  <2>3. /\ Select!WellFormed(Select!Roomy(i))
        /\ Select!ReadableBytes(Select!Roomy(i)) = Select!ReadableBytes(sel_read_buf[i])
    BY <1>0, SelectEnsure DEF Select!Roomy
  <2>4. /\ pc = "peer" /\ current' = i /\ Select!Leaves(i)
        /\ sel_read_buf' = [sel_read_buf EXCEPT ![i] = Select!Roomy(i)]
        /\ UNCHANGED <<sel_socket, serial, write_buf, write_buf_backup, wsa_send, m_serial,
                       Select!netVars, m_online_peers, Select!setVars, pos, down, accepted,
                       wired, eaten>>
    BY <1>1 DEF Select!RecvEnds, Select!AtPeer
  <2>5. sel_read_buf' \in [Select!Slot -> Select!SockBufType]
    BY <1>0, <2>3, <2>4 DEF Select!PeerTypeOK, Select!WellFormed
  <2>6. ASSUME NEW j \in Select!Slot
        PROVE  /\ Select!WellFormed(sel_read_buf'[j])
               /\ Select!ReadableBytes(sel_read_buf'[j]) = Select!ReadableBytes(sel_read_buf[j])
    <3>1. sel_read_buf'[j] = IF j = i THEN Select!Roomy(i) ELSE sel_read_buf[j]
      BY <1>0, <2>4 DEF Select!PeerTypeOK
    <3> QED
      BY <1>0, <2>3, <3>1
  <2> QED
    BY <2>2, <2>4, <2>5, <2>6, LeavingMoves
<1>2. CASE \/ i = current /\ Select!SendFails
           \/ i = current /\ Select!InUse(i) /\ Select!OnReadRefuses
  <2>1. Select!InUse(i)
    <3>1. CASE i = current /\ Select!SendFails
      <4>1. sel_socket[i] \in m_write_set
        BY <3>1 DEF Select!SendFails, Select!WritesNow
      <4> QED
        BY <1>0, <4>1, SelectWritten
    <3> QED
      BY <1>2, <3>1
  <2>2. /\ pc # "onDisCon" /\ current' = i /\ Select!Leaves(i)
        /\ UNCHANGED <<sel_socket, serial, sel_read_buf, write_buf, write_buf_backup, wsa_send,
                       m_serial, Select!netVars, m_online_peers, Select!setVars, pos, down,
                       accepted, wired, eaten>>
    BY <1>2 DEF Select!SendFails, Select!OnReadRefuses
  <2>3. /\ sel_read_buf' \in [Select!Slot -> Select!SockBufType]
        /\ \A j \in Select!Slot :
             /\ Select!WellFormed(sel_read_buf'[j])
             /\ Select!ReadableBytes(sel_read_buf'[j]) = Select!ReadableBytes(sel_read_buf[j])
    BY <1>0, <2>2 DEF Select!PeerTypeOK
  <2> QED
    BY <2>1, <2>2, <2>3, LeavingMoves
<1> QED
  BY <1>1, <1>2

LEMMA SelectLoops ==
  ASSUME SelectIInv,
         \/ Select!Select \/ Select!AcceptNobody \/ Select!AcceptFull \/ Select!OnConReturns
         \/ Select!LoopEnds \/ Select!OnReadReturns \/ Select!NotWritable
         \/ (~ Select!InUse(current) /\ Select!OnReadRefuses)
         \/ \E i \in Select!Slot : Select!NotReadable(i)
  PROVE  SelectIInv'
<1>0. /\ m_read_set \in Select!Sets /\ m_write_set \in Select!Sets /\ down \in BOOLEAN
      /\ pos \in Nat /\ current \in Select!Slot /\ 0 \in Select!Slot /\ {} \in Select!Sets
      /\ pos + 1 \in Nat /\ pos + 1 >= 1
      /\ Select!Ready \in Select!Sets /\ Select!WriteSockets \in Select!Sets
  <2>1. 0 \in Select!Slot
    BY SelectAssumed
  <2>2. {} \in Select!Sets
    BY DEF Select!Sets
  <2>3. pos \in Nat /\ pos + 1 \in Nat /\ pos + 1 >= 1
    BY DEF SelectIInv, Select!TypeOK
  <2> QED
    BY <2>1, <2>2, <2>3, ReadyInSets DEF SelectIInv, Select!TypeOK
<1>1. UNCHANGED <<Select!peerVars, Select!netVars, m_online_peers, Select!appVars>>
  BY DEF Select!Select, Select!AcceptNobody, Select!AcceptFull, Select!OnConReturns,
     Select!LoopEnds, Select!OnReadReturns, Select!NotWritable, Select!OnReadRefuses,
     Select!NotReadable, Select!appVars
<1>2. /\ m_read_set' \in Select!Sets /\ m_write_set' \in Select!Sets /\ down' \in BOOLEAN
      /\ pc \in {"tick", "accept", "onCon", "peer", "onRead", "write"}
      /\ pc' \in {"tick", "accept", "onCon", "peer", "onRead", "write"}
      /\ pos' \in Nat /\ current' \in Select!Slot /\ (pc' = "peer" => pos' >= 1)
  <2>1. CASE Select!Select
    BY <1>0, <2>1 DEF Select!Select
  <2>2. CASE Select!AcceptNobody \/ Select!OnConReturns
    BY <1>0, <2>2 DEF Select!AcceptNobody, Select!OnConReturns, Select!setVars
  <2>3. CASE Select!AcceptFull
    BY <1>0, <2>3 DEF Select!AcceptFull, Select!setVars, Select!loopVars
  <2>4. CASE Select!LoopEnds
    BY <1>0, <2>4 DEF Select!LoopEnds, Select!TickEnds
  <2>5. CASE Select!OnReadReturns
    BY <1>0, <2>5 DEF Select!OnReadReturns, Select!setVars
  <2>6. CASE Select!NotWritable
    BY <1>0, <2>6 DEF Select!NotWritable, Select!setVars
  <2>7. CASE ~ Select!InUse(current) /\ Select!OnReadRefuses
    BY <1>0, <2>7 DEF Select!OnReadRefuses, Select!TickEnds
  <2>8. CASE \E i \in Select!Slot : Select!NotReadable(i)
    BY <1>0, <2>8 DEF Select!NotReadable, Select!AtPeer, Select!setVars
  <2> QED
    BY <2>1, <2>2, <2>3, <2>4, <2>5, <2>6, <2>7, <2>8
<1> QED
  BY <1>1, <1>2, LoopMoves

LEMMA SelectStep == SelectIInv /\ [Select!Next]_select => SelectIInv'
<1> SUFFICES ASSUME SelectIInv, [Select!Next]_select PROVE SelectIInv'
  OBVIOUS
<1>1. ASSUME NEW c \in Select!Conn, Select!Remote(c) PROVE SelectIInv'
  BY <1>1, SelectRemote
<1>2. CASE Select!Service
  <2>1. current \in Select!Slot
    BY DEF SelectIInv, Select!TypeOK
  <2>2. CASE \/ Select!Select \/ Select!AcceptNobody \/ Select!AcceptFull
             \/ Select!OnConReturns \/ Select!LoopEnds \/ Select!OnReadReturns
             \/ Select!NotWritable \/ (~ Select!InUse(current) /\ Select!OnReadRefuses)
             \/ \E i \in Select!Slot : Select!NotReadable(i)
    BY <2>2, SelectLoops
  <2>3. CASE Select!OnDisConReturns
    BY <2>3, SelectCloses
  <2>4. CASE \E c \in Select!Conn, i \in Select!Slot : Select!AcceptPeer(c, i)
    BY <2>4, SelectAccepts
  <2>5. CASE \/ \E i \in Select!Slot : Select!RecvEnds(i)
             \/ Select!SendFails \/ (Select!InUse(current) /\ Select!OnReadRefuses)
    BY <2>1, <2>5, SelectLeaves
  <2>6. CASE \E i \in Select!Slot : Select!RecvData(i)
    BY <2>6, SelectReceives
  <2>7. CASE \E n \in 1..MaxOut : Select!SendData(n)
    BY <2>7, SelectSends
  <2>8. CASE Select!OnReadRefuses
    BY <2>1, <2>8, SelectLoops, SelectLeaves
  <2>9. CASE \E i \in Select!Slot : Select!NotReadable(i) \/ Select!RecvEnds(i) \/ Select!RecvData(i)
    BY <2>2, <2>5, <2>6, <2>9
  <2>10. CASE Select!SendFails
    BY <2>1, <2>10, SelectLeaves
  <2>11. CASE \/ Select!Select \/ Select!AcceptNobody \/ Select!AcceptFull
              \/ Select!OnConReturns \/ Select!LoopEnds \/ Select!OnReadReturns
              \/ Select!NotWritable
    BY <2>11, SelectLoops
  <2> QED
    BY ONLY <1>2, <2>3, <2>4, <2>7, <2>8, <2>9, <2>10, <2>11 DEF Select!Service
<1>3. CASE Select!App
  BY <1>3, SelectEats, SelectAppSends, SelectCloses DEF Select!App
<1>4. CASE UNCHANGED select
  <2> USE DEF select
  <2>1. Select!TypeOK'
    BY <1>4 DEF SelectIInv, Select!TypeOK, Select!PeerTypeOK
  <2>2. SlotsRight' /\ ListRight' /\ FreshConns' /\ LoopRight'
    BY <1>4 DEF SelectIInv, SlotsRight, ListRight, FreshConns, LoopRight, Select!InUse
  <2>3. TableRight'
    BY <1>4 DEF SelectIInv, TableRight, Told, Select!InUse
  <2>4. \A i \in Select!Slot : BytesOf(i)'
    BY <1>4 DEF SelectIInv, BytesOf, Select!InUse
  <2> QED
    BY <2>1, <2>2, <2>3, <2>4 DEF SelectIInv
<1> QED
  BY <1>1, <1>2, <1>3, <1>4 DEF Select!Next

LEMMA SelectIsRight == SelectIInv => SelectListRight
<1> SUFFICES ASSUME SelectIInv PROVE SelectListRight
  OBVIOUS
<1>0. Select!TypeOK /\ m_online_peers \in Seq(Select!Slot) /\ Len(m_online_peers) \in Nat
  BY DEF SelectIInv, Select!TypeOK
<1>1. Select!BytesConserved
  BY DEF SelectIInv, BytesOf, Select!BytesConserved
<1>2. Select!IsInjective(m_online_peers)
  BY <1>0 DEF SelectIInv, ListRight, Select!IsInjective
<1>3. Select!ToSet(m_online_peers) = {i \in Select!Slot : Select!InUse(i)}
  BY <1>0 DEF SelectIInv, ListRight, Select!ToSet
<1>4. players = {<<i, serial[i], sel_socket[i]>> :
                  i \in {i \in Select!Slot : Select!InUse(i)}
                         \ (IF pc = "onDisCon" THEN {current} ELSE {})}
  <2>1. {i \in Select!Slot : Select!InUse(i)} \ (IF pc = "onDisCon" THEN {current} ELSE {})
          = {i \in Select!Slot : Told(i)}
    BY DEF Told
  <2> QED
    BY <2>1 DEF SelectIInv, TableRight
<1>5. \A i, j \in {i \in Select!Slot : Select!InUse(i)} :
        sel_socket[i] = sel_socket[j] => i = j
  BY DEF SelectIInv, SlotsRight
<1> QED
  BY <1>0, <1>1, <1>2, <1>3, <1>4, <1>5 DEF SelectListRight, Select!OnlineIsTheTable

(* SelectIOService::runOnce, with NetEvent and SelectPeer: in every state, *)
(* also inside its callbacks, the list of connections, the slots in use    *)
(* and the application's table agree, no two slots share a connection, and *)
(* every byte taken or given on a connection is in its slot's buffers or   *)
(* where it should go, whoever used the slot before.                       *)
THEOREM SelectListCorrect == Spec => []SelectListRight
<1>1. Init => SelectIInv
  BY SelectInit DEF Init
<1>2. SelectIInv /\ [Next]_vars => SelectIInv'
  <2>1. [Next]_vars => [Select!Next]_select
    BY DEF Next, vars, SvrMoves, CliMoves, ThreadsMove, SelectMoves, PacketMoves, AliveMoves
  <2> QED
    BY <2>1, SelectStep
<1> QED
  BY <1>1, <1>2, SelectIsRight, PTL DEF Spec

-----------------------------------------------------------------------------
(* CmdPacket.  The invariant is PacketIInv: beside types and bounds, there *)
(* is a layout `lay` of the fields written so far, one behind the other     *)
(* from the start of the memory, each there as it was written; the next is *)
(* written behind the last, and the reader is at one of them.              *)

Image(f) ==
  IF f.kind = "binary" THEN Packet!WriteShort(Len(f.bytes)) \o f.bytes
  ELSE Packet!Ordered(f)

(* What reading makes of a field that was written.                         *)
Again(f) ==
  IF f.kind = "binary" THEN f
  ELSE [f EXCEPT !.bytes = Packet!Ordered([f EXCEPT !.bytes = Packet!Ordered(f)])]

LaidOut(lay) ==
  /\ lay \in [1..(Len(fields) + 1) -> Nat] /\ lay[1] = 0
  /\ \A k \in 1..Len(fields) :
       /\ lay[k + 1] = lay[k] + Len(Image(fields[k]))
       /\ lay[k + 1] <= lay[Len(fields) + 1]
       /\ \A j \in 1..Len(Image(fields[k])) : m_pData[lay[k] + j] = Image(fields[k])[j]

Written(lay) ==
  /\ fields # <<>> => lay[Len(fields) + 1] <= m_nLen /\ m_nLen <= Len(m_pData)
  /\ m_nLen < Len(m_pData) /\ ~half => lay[Len(fields) + 1] = m_nLen

ReadSoFar(lay) ==
  mode = "own" =>
    /\ Len(back) <= Len(fields) /\ m_nReadOffset = lay[Len(back) + 1]
    /\ \A k \in 1..Len(back) : back[k] = Again(fields[k])

PacketIInv ==
  /\ Packet!TypeOK /\ Packet!Inside
  /\ mode # "foreign" => \E lay : LaidOut(lay) /\ Written(lay) /\ ReadSoFar(lay)

LEMMA PacketIs ==
  /\ DEFAULT_CMD_PACKET_SIZE \in Nat /\ MAX_CMD_PACKET_SIZE \in Nat
  /\ DEFAULT_CMD_PACKET_SIZE <= MAX_CMD_PACKET_SIZE
  /\ \A f \in Field :
       /\ f \in [kind : {"number", "long", "float", "binary"}, bytes : Seq(Nat)]
       /\ f.kind \in {"number", "long", "float", "binary"} /\ f.bytes \in Seq(Nat)
       /\ Len(f.bytes) \in Nat \ {0} /\ (f.kind = "long" => Len(f.bytes) = 8)
  /\ \A p \in Foreign : p \in Seq(Nat) /\ Len(p) \in Nat
<1>1. Packet!CmdPacketAssumption
  BY NetAssumed DEF NetAssumption
<1>2. \A b \in Seq(Nat) \ {<<>>} : Len(b) \in Nat \ {0}
  OBVIOUS
<1>3. ASSUME NEW f \in Field
      PROVE  /\ f \in [kind : {"number", "long", "float", "binary"}, bytes : Seq(Nat)]
             /\ f.kind \in {"number", "long", "float", "binary"} /\ f.bytes \in Seq(Nat)
             /\ Len(f.bytes) \in Nat \ {0} /\ (f.kind = "long" => Len(f.bytes) = 8)
  <2>1. f \in [kind : {"number", "long", "float", "binary"}, bytes : Seq(Nat) \ {<<>>}]
    BY <1>1, <1>3 DEF Packet!CmdPacketAssumption
  <2>2. f.bytes \in Seq(Nat) \ {<<>>}
    BY <2>1
  <2>3. f.kind = "long" => Len(f.bytes) = 8
    BY <1>1, <1>3 DEF Packet!CmdPacketAssumption
  <2> QED
    BY <2>1, <2>2, <2>3, <1>2
<1>4. \A p \in Foreign : p \in Seq(Nat) /\ Len(p) \in Nat
  BY <1>1 DEF Packet!CmdPacketAssumption
<1> QED
  BY <1>1, <1>3, <1>4 DEF Packet!CmdPacketAssumption

LEMMA SameBytes ==
  ASSUME NEW s \in Seq(Nat), NEW t \in Seq(Nat), Len(s) = Len(t),
         \A k \in 1..Len(t) : s[k] = t[k]
  PROVE  s = t
OBVIOUS

LEMMA ReverseIs ==
  ASSUME NEW b \in Seq(Nat)
  PROVE  /\ Packet!Reverse(b) \in Seq(Nat) /\ Len(Packet!Reverse(b)) = Len(b)
         /\ Packet!Reverse(Packet!Reverse(b)) = b
<1>1. Packet!Reverse(b) \in Seq(Nat) /\ Len(Packet!Reverse(b)) = Len(b)
  BY DEF Packet!Reverse
<1>2. PICK r \in Seq(Nat) : r = Packet!Reverse(b)
  BY <1>1
<1>3. Len(r) = Len(b) /\ \A k \in 1..Len(b) : r[k] = b[Len(b) - k + 1]
  BY <1>1, <1>2 DEF Packet!Reverse
<1>4. PICK t : t = Packet!Reverse(r)
  OBVIOUS
<1>5. t \in Seq(Nat) /\ Len(t) = Len(b) /\ \A k \in 1..Len(b) : t[k] = r[Len(b) - k + 1]
  BY <1>3, <1>4 DEF Packet!Reverse
<1>6. \A k \in 1..Len(b) : Len(b) - k + 1 \in 1..Len(b) /\ Len(b) - (Len(b) - k + 1) + 1 = k
  OBVIOUS
<1>7. \A k \in 1..Len(b) : t[k] = b[k]
  BY ONLY <1>3, <1>5, <1>6
<1>8. t = b
  BY ONLY <1>5, <1>7, b \in Seq(Nat), SameBytes
<1> QED
  BY <1>1, <1>2, <1>4, <1>8

LEMMA BehindLength ==
  ASSUME NEW w \in Seq(Nat), NEW b \in Seq(Nat), Len(w) = 2
  PROVE  /\ w \o b \in Seq(Nat) /\ Len(w \o b) = 2 + Len(b)
         /\ (w \o b)[1] = w[1] /\ (w \o b)[2] = w[2]
         /\ \A k \in 1..Len(b) : (w \o b)[2 + k] = b[k]
<1>1. /\ w \o b \in Seq(Nat) /\ Len(w \o b) = Len(w) + Len(b)
      /\ \A i \in 1..(Len(w) + Len(b)) :
           (w \o b)[i] = IF i <= Len(w) THEN w[i] ELSE b[i - Len(w)]
  BY ConcatProperties
<1>2. PICK r : r = w \o b
  OBVIOUS
<1>3. Len(b) \in Nat
  OBVIOUS
<1> QED
  BY ONLY <1>1, <1>2, <1>3, Len(w) = 2

LEMMA LengthIs ==
  ASSUME NEW n \in Nat
  PROVE  \E w \in Seq(Nat) :
           w = Packet!WriteShort(n) /\ Len(w) = 2 /\ Packet!ReadShort(<<w[1], w[2]>>) = n
<1>1. PICK h \in Nat, l \in Nat : h = n \div 256 /\ l = n % 256 /\ 256 * h + l = n
  OBVIOUS
<1>2. Packet!WriteShort(n) = <<h, l>>
  BY <1>1 DEF Packet!WriteShort
<1>3. <<h, l>> \in Seq(Nat) /\ Len(<<h, l>>) = 2 /\ <<h, l>>[1] = h /\ <<h, l>>[2] = l
  OBVIOUS
<1>4. Packet!ReadShort(<<h, l>>) = n
  BY <1>1 DEF Packet!ReadShort
<1> QED
  BY <1>2, <1>3, <1>4

(* The bytes of a number turned around: as many, and after the second turn *)
(* again the number, unless it is one of 64 bits that is not exact.        *)
LEMMA SameEight ==
  ASSUME NEW n \in Nat, NEW r, r \in [1..n -> Nat]
  PROVE  r \in Seq(Nat) /\ Len(r) = n
OBVIOUS

LEMMA LongIs ==
  ASSUME NEW b \in Seq(Nat), Len(b) = 8
  PROVE  /\ Packet!hton64(b) \in Seq(Nat) /\ Len(Packet!hton64(b)) = 8
         /\ Packet!hton64(Packet!hton64(b)) = b <=> Packet!Kept(b)
<1>0. \A k \in 1..Len(b) : b[k] \in Nat
  BY ONLY b \in Seq(Nat)
<1>1. \A k \in 1..8 : b[k] \in Nat
  BY ONLY <1>0, Len(b) = 8
<1>2. PICK r : r = Packet!hton64(b)
  OBVIOUS
<1>3. r = [k \in 1..8 |-> IF k > 4 /\ b[5] >= 128 THEN 255 ELSE b[9 - k]]
  BY <1>2 DEF Packet!hton64
<1>4. r \in [1..8 -> Nat]
  BY ONLY <1>1, <1>3
<1>5. r \in Seq(Nat) /\ Len(r) = 8
  BY ONLY <1>4, SameEight, 8 \in Nat
<1>6. PICK t : t = Packet!hton64(r)
  OBVIOUS
<1>7. t = [k \in 1..8 |-> IF k > 4 /\ r[5] >= 128 THEN 255 ELSE r[9 - k]]
  BY <1>6 DEF Packet!hton64
<1>8. \A k \in 1..8 : r[k] \in Nat
  BY ONLY <1>4
<1>9. t \in [1..8 -> Nat]
  BY ONLY <1>7, <1>8
<1>10. t \in Seq(Nat) /\ Len(t) = 8
  BY ONLY <1>9, SameEight, 8 \in Nat
<1>11. r[1] = b[8] /\ r[2] = b[7] /\ r[3] = b[6] /\ r[4] = b[5]
  BY ONLY <1>3
<1>12. b[5] >= 128 => r[5] = 255 /\ r[6] = 255 /\ r[7] = 255 /\ r[8] = 255
  BY ONLY <1>3
<1>13. ~(b[5] >= 128) => r[5] = b[4] /\ r[6] = b[3] /\ r[7] = b[2] /\ r[8] = b[1]
  BY ONLY <1>3
<1>14. t[1] = r[8] /\ t[2] = r[7] /\ t[3] = r[6] /\ t[4] = r[5]
  BY ONLY <1>7
<1>15. r[5] >= 128 => t[5] = 255 /\ t[6] = 255 /\ t[7] = 255 /\ t[8] = 255
  BY ONLY <1>7
<1>16. ~(r[5] >= 128) => t[5] = r[4] /\ t[6] = r[3] /\ t[7] = r[2] /\ t[8] = r[1]
  BY ONLY <1>7
<1>17. t = b <=> \A k \in 1..Len(b) : t[k] = b[k]
  BY ONLY <1>10, b \in Seq(Nat), Len(b) = 8, SameBytes
<1>18. ASSUME NEW s
       PROVE  (\A k \in 1..8 : s[k] = b[k]) <=>
                /\ s[1] = b[1] /\ s[2] = b[2] /\ s[3] = b[3] /\ s[4] = b[4]
                /\ s[5] = b[5] /\ s[6] = b[6] /\ s[7] = b[7] /\ s[8] = b[8]
  OBVIOUS
<1>19. t = b <=>
         /\ t[1] = b[1] /\ t[2] = b[2] /\ t[3] = b[3] /\ t[4] = b[4]
         /\ t[5] = b[5] /\ t[6] = b[6] /\ t[7] = b[7] /\ t[8] = b[8]
  BY ONLY <1>17, <1>18, Len(b) = 8
<1>20. Packet!Kept(b) <=>
         \/ b[4] < 128 /\ b[5] < 128
         \/ /\ b[1] = 255 /\ b[2] = 255 /\ b[3] = 255 /\ b[4] = 255
            /\ b[5] = 255 /\ b[6] = 255 /\ b[7] = 255 /\ b[8] = 255
  BY DEF Packet!Kept
<1>21. b[4] \in Nat /\ b[5] \in Nat
  BY ONLY <1>1
<1>22. ASSUME b[5] >= 128 PROVE t = b <=> Packet!Kept(b)
  <2>1. r[5] = 255 /\ r[6] = 255 /\ r[7] = 255 /\ r[8] = 255
    BY ONLY <1>12, <1>22
  <2>2. t[1] = 255 /\ t[2] = 255 /\ t[3] = 255 /\ t[4] = 255
    BY ONLY <1>14, <2>1
  <2>3. r[5] >= 128
    BY ONLY <2>1
  <2>4. t[5] = 255 /\ t[6] = 255 /\ t[7] = 255 /\ t[8] = 255
    BY ONLY <1>15, <2>3
  <2>5. ~(b[4] < 128 /\ b[5] < 128)
    BY ONLY <1>21, <1>22
  <2>6. t = b <=>
          /\ b[1] = 255 /\ b[2] = 255 /\ b[3] = 255 /\ b[4] = 255
          /\ b[5] = 255 /\ b[6] = 255 /\ b[7] = 255 /\ b[8] = 255
    <3>1. t[1] = b[1] <=> b[1] = 255
      BY ONLY <2>2
    <3>2. t[2] = b[2] <=> b[2] = 255
      BY ONLY <2>2
    <3>3. t[3] = b[3] <=> b[3] = 255
      BY ONLY <2>2
    <3>4. t[4] = b[4] <=> b[4] = 255
      BY ONLY <2>2
    <3>5. t[5] = b[5] <=> b[5] = 255
      BY ONLY <2>4
    <3>6. t[6] = b[6] <=> b[6] = 255
      BY ONLY <2>4
    <3>7. t[7] = b[7] <=> b[7] = 255
      BY ONLY <2>4
    <3>8. t[8] = b[8] <=> b[8] = 255
      BY ONLY <2>4
    <3> QED
      BY ONLY <1>19, <3>1, <3>2, <3>3, <3>4, <3>5, <3>6, <3>7, <3>8
  <2> QED
    BY ONLY <1>20, <2>5, <2>6
<1>23. ASSUME b[5] < 128 /\ b[4] < 128 PROVE t = b <=> Packet!Kept(b)
  <2>1. ~(b[5] >= 128)
    BY ONLY <1>21, <1>23
  <2>2. t[1] = b[1] /\ t[2] = b[2] /\ t[3] = b[3] /\ t[4] = b[4] /\ r[5] = b[4]
    BY ONLY <1>13, <1>14, <2>1
  <2>3. ~(r[5] >= 128)
    BY ONLY <1>21, <1>23, <2>2
  <2>4. t[5] = b[5] /\ t[6] = b[6] /\ t[7] = b[7] /\ t[8] = b[8]
    BY ONLY <1>11, <1>16, <2>3
  <2> QED
    BY ONLY <1>19, <1>20, <1>23, <2>2, <2>4
<1>24. ASSUME b[5] < 128 /\ b[4] >= 128 PROVE t = b <=> Packet!Kept(b)
  <2>1. ~(b[5] >= 128)
    BY ONLY <1>21, <1>24
  <2>2. r[5] = b[4]
    BY ONLY <1>13, <2>1
  <2>3. r[5] >= 128
    BY ONLY <1>24, <2>2
  <2>4. t[5] = 255
    BY ONLY <1>15, <2>3
  <2>5. b[5] # 255
    BY ONLY <1>21, <1>24
  <2>6. t[5] # b[5]
    BY ONLY <2>4, <2>5
  <2>7. ~(b[4] < 128 /\ b[5] < 128)
    BY ONLY <1>21, <1>24
  <2> QED
    BY ONLY <1>19, <1>20, <2>5, <2>6, <2>7
<1>26. b[5] >= 128 \/ (b[5] < 128 /\ b[4] < 128) \/ (b[5] < 128 /\ b[4] >= 128)
  BY ONLY <1>21
<1>25. t = b <=> Packet!Kept(b)
  BY ONLY <1>26, <1>22, <1>23, <1>24
<1> QED
  BY <1>2, <1>5, <1>6, <1>25

LEMMA OrderedIs ==
  ASSUME NEW f, f \in [kind : {"number", "long", "float", "binary"}, bytes : Seq(Nat)],
         f.kind = "long" => Len(f.bytes) = 8
  PROVE  Packet!Ordered(f) \in Seq(Nat) /\ Len(Packet!Ordered(f)) = Len(f.bytes)
<1>1. f.bytes \in Seq(Nat)
  OBVIOUS
<1>2. CASE f.kind = "number"
  BY <1>1, <1>2, ReverseIs DEF Packet!Ordered
<1>3. CASE f.kind = "long"
  BY <1>1, <1>3, LongIs DEF Packet!Ordered
<1>4. CASE f.kind # "number" /\ f.kind # "long"
  BY <1>1, <1>4 DEF Packet!Ordered
<1> QED
  BY <1>2, <1>3, <1>4

LEMMA AgainIs ==
  ASSUME NEW f \in Field
  PROVE  /\ Again(f) \in [kind : {"number", "long", "float", "binary"}, bytes : Seq(Nat)]
         /\ Again(f) = f <=> Packet!Exact(f)
<1>1. /\ f \in [kind : {"number", "long", "float", "binary"}, bytes : Seq(Nat)]
      /\ f.bytes \in Seq(Nat) /\ f.kind \in {"number", "long", "float", "binary"}
      /\ (f.kind = "long" => Len(f.bytes) = 8)
  BY PacketIs
<1>2. PICK o : o = Packet!Ordered(f)
  OBVIOUS
<1>3. o \in Seq(Nat) /\ Len(o) = Len(f.bytes)
  BY ONLY <1>1, <1>2, OrderedIs
<1>4. PICK g : g = [f EXCEPT !.bytes = o]
  OBVIOUS
<1>5. /\ g \in [kind : {"number", "long", "float", "binary"}, bytes : Seq(Nat)]
      /\ g.kind = f.kind /\ g.bytes = o
  BY ONLY <1>1, <1>3, <1>4
<1>6. PICK p : p = Packet!Ordered(g)
  OBVIOUS
<1>7. p \in Seq(Nat) /\ Len(p) = Len(f.bytes)
  BY ONLY <1>1, <1>3, <1>5, <1>6, OrderedIs
<1>8. f.kind # "binary" => Again(f) = [f EXCEPT !.bytes = p]
  BY <1>2, <1>4, <1>6 DEF Again
<1>9. [f EXCEPT !.bytes = p] = f <=> p = f.bytes
  BY ONLY <1>1
<1>10. [f EXCEPT !.bytes = p] \in [kind : {"number", "long", "float", "binary"}, bytes : Seq(Nat)]
  BY ONLY <1>1, <1>7
<1>11. CASE f.kind = "binary"
  BY <1>1, <1>11 DEF Again, Packet!Exact
<1>12. CASE f.kind = "float"
  <2>1. p = f.bytes
    BY <1>2, <1>5, <1>6, <1>12 DEF Packet!Ordered
  <2> QED
    BY <1>8, <1>9, <1>10, <1>12, <2>1 DEF Packet!Exact
<1>13. CASE f.kind = "number"
  <2>1. p = f.bytes
    BY <1>1, <1>2, <1>5, <1>6, <1>13, ReverseIs DEF Packet!Ordered
  <2> QED
    BY <1>8, <1>9, <1>10, <1>13, <2>1 DEF Packet!Exact
<1>14. CASE f.kind = "long"
  <2>1. p = Packet!hton64(Packet!hton64(f.bytes))
    BY <1>2, <1>5, <1>6, <1>14 DEF Packet!Ordered
  <2>2. f.bytes \in Seq(Nat) /\ Len(f.bytes) = 8
    BY <1>1, <1>14
  <2>3. p = f.bytes <=> Packet!Kept(f.bytes)
    BY ONLY <2>1, <2>2, LongIs
  <2>4. p = f.bytes <=> Packet!Exact(f)
    BY <1>14, <2>3 DEF Packet!Exact
  <2> QED
    BY <1>8, <1>9, <1>10, <1>14, <2>4
<1> QED
  BY <1>1, <1>11, <1>12, <1>13, <1>14

LEMMA ImageIs ==
  ASSUME NEW f \in Field
  PROVE  /\ Image(f) \in Seq(Nat) /\ Len(Image(f)) \in Nat \ {0}
         /\ f.kind = "binary" =>
              /\ Len(Image(f)) = 2 + Len(f.bytes)
              /\ Packet!ReadShort(<<Image(f)[1], Image(f)[2]>>) = Len(f.bytes)
              /\ \A k \in 1..Len(f.bytes) : Image(f)[2 + k] = f.bytes[k]
         /\ f.kind # "binary" =>
              /\ Image(f) = Packet!Ordered(f)
              /\ Len(Image(f)) = Len(f.bytes)
<1> DEFINE n == Len(f.bytes)
<1>1. f \in [kind : {"number", "long", "float", "binary"}, bytes : Seq(Nat)]
      /\ f.bytes \in Seq(Nat) /\ n \in Nat \ {0}
  BY PacketIs
<1>4. CASE f.kind = "binary"
  <2>1. PICK w \in Seq(Nat) :
           w = Packet!WriteShort(n) /\ Len(w) = 2 /\ Packet!ReadShort(<<w[1], w[2]>>) = n
    BY <1>1, LengthIs
  <2>2. Image(f) = w \o f.bytes
    BY <1>4, <2>1 DEF Image
  <2>3. Len(w) = 2
    BY <2>1
  <2>4. /\ w \o f.bytes \in Seq(Nat) /\ Len(w \o f.bytes) = 2 + Len(f.bytes)
        /\ (w \o f.bytes)[1] = w[1] /\ (w \o f.bytes)[2] = w[2]
        /\ \A k \in 1..Len(f.bytes) : (w \o f.bytes)[2 + k] = f.bytes[k]
    BY ONLY <1>1, <2>3, BehindLength
  <2>5. Image(f) \in Seq(Nat) /\ Len(Image(f)) = 2 + Len(f.bytes)
        /\ Image(f)[1] = w[1] /\ Image(f)[2] = w[2]
        /\ \A k \in 1..Len(f.bytes) : Image(f)[2 + k] = f.bytes[k]
    BY ONLY <2>2, <2>4
  <2>6. Packet!ReadShort(<<Image(f)[1], Image(f)[2]>>) = Len(f.bytes)
    BY ONLY <2>1, <2>5
  <2>7. Len(Image(f)) \in Nat \ {0}
    BY <1>1, <2>5
  <2> QED
    BY <1>4, <2>5, <2>6, <2>7
<1>5. CASE f.kind # "binary"
  <2>1. Image(f) = Packet!Ordered(f)
    BY <1>5 DEF Image
  <2>2. Packet!Ordered(f) \in Seq(Nat) /\ Len(Packet!Ordered(f)) = n
    BY <1>1, PacketIs, OrderedIs
  <2> QED
    BY <1>1, <1>5, <2>1, <2>2
<1> QED
  BY <1>4, <1>5

-----------------------------------------------------------------------------
(* WriteData behind the last byte, and what it writes over nothing of.     *)
LEMMA PacketWrites ==
  ASSUME Packet!TypeOK, Packet!Inside, mode # "foreign", NEW bytes \in Seq(Nat), Len(bytes) > 0,
         Packet!WriteData(bytes)
  PROVE  /\ m_nWriteOffset = m_nLen /\ m_nLen + Len(bytes) <= Len(m_pData)
         /\ m_nLen < Len(m_pData) /\ m_nLen <= MAX_CMD_PACKET_SIZE
         /\ m_pData' \in Seq(Nat) /\ Len(m_pData') = Len(m_pData)
         /\ m_nLen' = m_nLen + Len(bytes) /\ m_nWriteOffset' = m_nLen'
         /\ \A k \in 1..m_nLen : m_pData'[k] = m_pData[k]
         /\ \A k \in 1..Len(bytes) : m_pData'[m_nLen + k] = bytes[k]
<1> DEFINE n == Len(bytes)
           size == Len(m_pData)
<1>1. /\ m_pData \in Seq(Nat) /\ size \in Nat /\ n \in Nat \ {0}
      /\ m_nLen \in Nat /\ m_nWriteOffset \in Nat /\ size <= MAX_CMD_PACKET_SIZE
  BY DEF Packet!TypeOK, Packet!m_nMaxSize
<1>2. /\ m_nLen + n <= size
      /\ m_pData' = [k \in 1..size |->
                      IF k \in (m_nWriteOffset + 1)..(m_nWriteOffset + n)
                      THEN bytes[k - m_nWriteOffset] ELSE m_pData[k]]
      /\ m_nLen' = m_nLen + n /\ m_nWriteOffset' = m_nWriteOffset + n
  BY DEF Packet!WriteData, Packet!Fits, Packet!m_nMaxSize
<1>3. m_nLen < size /\ m_nLen <= MAX_CMD_PACKET_SIZE
  BY <1>1, <1>2, PacketIs
<1>4. m_nWriteOffset = m_nLen
  BY <1>1, <1>3 DEF Packet!Inside, Packet!m_nMaxSize
<1>5. \A k \in 1..size : m_pData[k] \in Nat
  BY <1>1
<1>6. \A k \in (m_nLen + 1)..(m_nLen + n) : k - m_nLen \in 1..n /\ bytes[k - m_nLen] \in Nat
  BY <1>1
<1>7. PICK d : d = m_pData'
  OBVIOUS
<1>8. d = [k \in 1..size |-> IF k \in (m_nLen + 1)..(m_nLen + n)
                             THEN bytes[k - m_nLen] ELSE m_pData[k]]
  BY <1>2, <1>4, <1>7
<1> HIDE DEF n, size
<1>9. d \in Seq(Nat) /\ Len(d) = size
  <2>1. d \in [1..size -> Nat]
    BY ONLY <1>5, <1>6, <1>8
  <2> QED
    BY ONLY <1>1, <2>1
<1>10. \A k \in 1..m_nLen : d[k] = m_pData[k]
  BY ONLY <1>1, <1>2, <1>8
<1>11. \A k \in 1..n : d[m_nLen + k] = bytes[k]
  BY ONLY <1>1, <1>2, <1>8
<1> QED
  BY <1>1, <1>2, <1>3, <1>4, <1>7, <1>9, <1>10, <1>11 DEF n, size

(* A field more.                                                           *)
LEMMA PacketFieldWritten ==
  ASSUME PacketIInv, NEW f \in Field, Packet!MayWrite, Packet!WriteData(Image(f)),
         fields' = Append(fields, f),
         UNCHANGED <<m_nReadOffset, m_pReadData, mode, back, half>>
  PROVE  PacketIInv'
<1> DEFINE n == Len(Image(f))
           L == Len(fields)
<1>1. Image(f) \in Seq(Nat) /\ n \in Nat \ {0}
  BY ImageIs
<1>2. Packet!TypeOK /\ Packet!Inside /\ mode \in {"write", "own"} /\ ~half
  BY DEF PacketIInv, Packet!MayWrite
<1>3. /\ m_nWriteOffset = m_nLen /\ m_nLen + n <= Len(m_pData)
      /\ m_nLen < Len(m_pData) /\ m_nLen <= MAX_CMD_PACKET_SIZE
      /\ m_pData' \in Seq(Nat) /\ Len(m_pData') = Len(m_pData)
      /\ m_nLen' = m_nLen + n /\ m_nWriteOffset' = m_nLen'
      /\ \A k \in 1..m_nLen : m_pData'[k] = m_pData[k]
      /\ \A k \in 1..n : m_pData'[m_nLen + k] = Image(f)[k]
  BY <1>1, <1>2, PacketWrites
<1>4. fields \in Seq(Field) /\ L \in Nat /\ m_nLen \in Nat /\ Len(m_pData) \in Nat
      /\ m_nReadOffset \in Nat /\ back \in Seq([kind : {"number", "long", "float", "binary"}, bytes : Seq(Nat)])
  BY <1>2 DEF Packet!TypeOK
<1>5. /\ fields' \in Seq(Field) /\ Len(fields') = L + 1
      /\ fields'[L + 1] = f /\ \A k \in 1..L : fields'[k] = fields[k]
  BY <1>4
<1>6. Packet!TypeOK'
  BY <1>1, <1>2, <1>3, <1>4, <1>5 DEF Packet!TypeOK, Packet!m_nMaxSize
<1>7. Packet!Inside'
  BY <1>1, <1>2, <1>3, <1>4 DEF Packet!Inside, Packet!m_nMaxSize
<1>8. PICK lay : LaidOut(lay) /\ Written(lay) /\ ReadSoFar(lay)
  BY <1>2 DEF PacketIInv
<1>9. lay[L + 1] = m_nLen
  BY <1>2, <1>3, <1>8 DEF Written
<1>10. /\ lay \in [1..(L + 1) -> Nat] /\ lay[1] = 0
       /\ \A k \in 1..L :
            /\ lay[k + 1] = lay[k] + Len(Image(fields[k]))
            /\ lay[k + 1] <= lay[L + 1]
            /\ \A j \in 1..Len(Image(fields[k])) :
                 m_pData[lay[k] + j] = Image(fields[k])[j]
  BY <1>8 DEF LaidOut
<1>11. \A k \in 1..L : fields[k] \in Field /\ Len(Image(fields[k])) \in Nat
  BY <1>4, ImageIs
<1>12. PICK to : to = [k \in 1..(L + 2) |-> IF k = L + 2 THEN m_nLen + n ELSE lay[k]]
  OBVIOUS
<1> HIDE DEF n, L
<1>13. /\ to \in [1..(L + 2) -> Nat] /\ to[1] = 0 /\ to[L + 2] = m_nLen + n
       /\ \A k \in 1..(L + 1) : to[k] = lay[k]
  BY ONLY <1>1, <1>4, <1>10, <1>12
<1>14. /\ to[L + 2] = to[L + 1] + n
       /\ \A j \in 1..n : m_pData'[to[L + 1] + j] = Image(f)[j]
  BY ONLY <1>3, <1>4, <1>9, <1>13
<1>15. ASSUME NEW k \in 1..L
       PROVE  /\ to[k + 1] = to[k] + Len(Image(fields[k])) /\ to[k + 1] <= to[L + 2]
              /\ \A j \in 1..Len(Image(fields[k])) :
                   m_pData'[to[k] + j] = Image(fields[k])[j]
  <2>1. k \in 1..(L + 1) /\ k + 1 \in 1..(L + 1) /\ to[k] = lay[k] /\ to[k + 1] = lay[k + 1]
    BY ONLY <1>4, <1>13, k \in 1..L
  <2>2. lay[k + 1] = lay[k] + Len(Image(fields[k])) /\ lay[k + 1] <= m_nLen
        /\ lay[k] \in Nat /\ Len(Image(fields[k])) \in Nat
    BY ONLY <1>4, <1>9, <1>10, <1>11, <2>1, k \in 1..L
  <2>3. \A j \in 1..Len(Image(fields[k])) : lay[k] + j \in 1..m_nLen
    BY ONLY <1>4, <2>2
  <2>4. \A j \in 1..Len(Image(fields[k])) : m_pData'[lay[k] + j] = Image(fields[k])[j]
    BY ONLY <1>3, <1>10, <2>3, k \in 1..L
  <2>5. to[k + 1] <= to[L + 2]
    BY ONLY <1>1, <1>4, <1>13, <2>1, <2>2
  <2> QED
    BY ONLY <2>1, <2>2, <2>4, <2>5
<1>16. LaidOut(to)'
  <2>1. ASSUME NEW k \in 1..(L + 1)
        PROVE  /\ to[k + 1] = to[k] + Len(Image(fields'[k])) /\ to[k + 1] <= to[L + 2]
               /\ \A j \in 1..Len(Image(fields'[k])) :
                    m_pData'[to[k] + j] = Image(fields'[k])[j]
    <3>1. CASE k = L + 1
      <4>1. fields'[k] = f /\ k + 1 = L + 2
        BY <1>4, <1>5, <3>1
      <4>2. to[L + 2] <= to[L + 2]
        BY <1>1, <1>4, <1>13
      <4> QED
        BY <1>14, <3>1, <4>1, <4>2 DEF n
    <3>2. CASE k # L + 1
      <4>1. k \in 1..L /\ fields'[k] = fields[k]
        BY <1>4, <1>5, <3>2
      <4> QED
        BY <1>15, <4>1
    <3> QED
      BY <3>1, <3>2
  <2>2. Len(fields') + 1 = L + 2 /\ 1..Len(fields') = 1..(L + 1)
    BY <1>4, <1>5 DEF L
  <2> QED
    BY <1>13, <2>1, <2>2 DEF LaidOut, Image
<1>17. Written(to)'
  <2>1. Len(fields') + 1 = L + 2
    BY <1>4, <1>5 DEF L
  <2> QED
    BY <1>1, <1>3, <1>4, <1>13, <2>1 DEF Written
<1>18. ReadSoFar(to)'
  <2> SUFFICES ASSUME mode = "own" PROVE ReadSoFar(to)'
    BY <1>2 DEF ReadSoFar
  <2>1. /\ Len(back) <= L /\ m_nReadOffset = lay[Len(back) + 1]
        /\ \A k \in 1..Len(back) : back[k] = Again(fields[k])
    BY <1>8 DEF ReadSoFar, L
  <2>2. Len(back) \in Nat
    BY <1>4
  <2>3. /\ Len(back) <= Len(fields') /\ m_nReadOffset = to[Len(back) + 1]
        /\ \A k \in 1..Len(back) : back[k] = Again(fields'[k])
    BY <1>4, <1>5, <1>13, <2>1, <2>2
  <2> QED
    BY <2>3 DEF ReadSoFar
<1> QED
  BY <1>6, <1>7, <1>16, <1>17, <1>18 DEF PacketIInv

LEMMA PacketWriteNumber ==
  ASSUME PacketIInv, NEW f \in Field, Packet!WriteNumber(f) PROVE PacketIInv'
<1>1. Image(f) = Packet!Ordered(f)
  BY DEF Packet!WriteNumber, Image
<1> QED
  BY <1>1, PacketFieldWritten DEF Packet!WriteNumber

LEMMA PacketWriteBinary ==
  ASSUME PacketIInv, NEW f \in Field, Packet!WriteBinary(f) PROVE PacketIInv'
<1>1. Image(f) = Packet!WriteShort(Len(f.bytes)) \o f.bytes
  BY DEF Packet!WriteBinary, Image
<1> QED
  BY <1>1, PacketFieldWritten DEF Packet!WriteBinary

(* The fields that were written stay where they are.                       *)
LEMMA PacketStays ==
  ASSUME NEW lay, LaidOut(lay), fields' = fields, fields \in Seq(Field), NEW n \in Nat,
         fields # <<>> => lay[Len(fields) + 1] <= n,
         fields # <<>> => \A k \in 1..n : m_pData'[k] = m_pData[k]
  PROVE  LaidOut(lay)'
<1> DEFINE L == Len(fields)
<1>1. /\ lay \in [1..(L + 1) -> Nat] /\ lay[1] = 0
      /\ \A k \in 1..L :
           /\ lay[k + 1] = lay[k] + Len(Image(fields[k]))
           /\ lay[k + 1] <= lay[L + 1]
           /\ \A j \in 1..Len(Image(fields[k])) :
                m_pData[lay[k] + j] = Image(fields[k])[j]
  BY DEF LaidOut
<1>2. L \in Nat /\ \A k \in 1..L : fields[k] \in Field
  OBVIOUS
<1>3. ASSUME NEW k \in 1..L, NEW j \in 1..Len(Image(fields[k]))
      PROVE  m_pData'[lay[k] + j] = Image(fields[k])[j]
  <2>1. fields # <<>> /\ k \in 1..(L + 1) /\ L + 1 \in 1..(L + 1)
    BY <1>2
  <2>2. Len(Image(fields[k])) \in Nat
    BY <1>2, ImageIs
  <2>3. lay[k] \in Nat /\ lay[L + 1] \in Nat /\ lay[k] + Len(Image(fields[k])) <= n
    <3>1. lay[k] \in Nat /\ lay[L + 1] \in Nat
      BY ONLY <1>1, <2>1
    <3>2. lay[k + 1] = lay[k] + Len(Image(fields[k])) /\ lay[k + 1] <= lay[L + 1]
      BY ONLY <1>1, k \in 1..L
    <3>3. lay[L + 1] <= n
      BY <2>1
    <3> QED
      BY ONLY <3>1, <3>2, <3>3, <2>2, n \in Nat
  <2>4. lay[k] + j \in 1..n
    BY ONLY <2>2, <2>3, n \in Nat, j \in 1..Len(Image(fields[k]))
  <2> QED
    BY <1>1, <2>1, <2>4
<1>4. \A k \in 1..L : /\ lay[k + 1] = lay[k] + Len(Image(fields[k]))
                     /\ lay[k + 1] <= lay[L + 1]
  BY <1>1
<1> QED
  BY <1>1, <1>3, <1>4 DEF LaidOut, Image

LEMMA PacketWriteHalf ==
  ASSUME PacketIInv, NEW f \in Field, Packet!WriteHalf(f) PROVE PacketIInv'
<1>0. Packet!TypeOK /\ Packet!Inside /\ mode \in {"write", "own"} /\ ~half
      /\ fields \in Seq(Field) /\ m_nLen \in Nat /\ Len(m_pData) \in Nat
  BY DEF PacketIInv, Packet!MayWrite, Packet!WriteHalf, Packet!TypeOK
<1>1. PICK w \in Seq(Nat) : w = Packet!WriteShort(Len(f.bytes)) /\ Len(w) = 2
  BY PacketIs, LengthIs
<1>2. /\ Packet!WriteData(w) /\ half' = TRUE
      /\ UNCHANGED <<m_nReadOffset, m_pReadData, mode, fields, back>>
  BY <1>1 DEF Packet!WriteHalf
<1>3. /\ m_nWriteOffset = m_nLen /\ m_nLen + 2 <= Len(m_pData)
      /\ m_nLen < Len(m_pData) /\ m_nLen <= MAX_CMD_PACKET_SIZE
      /\ m_pData' \in Seq(Nat) /\ Len(m_pData') = Len(m_pData)
      /\ m_nLen' = m_nLen + 2 /\ m_nWriteOffset' = m_nLen'
      /\ \A k \in 1..m_nLen : m_pData'[k] = m_pData[k]
  <2>1. w \in Seq(Nat) /\ Len(w) = 2 /\ Len(w) > 0 /\ Packet!WriteData(w)
    BY ONLY <1>1, <1>2
  <2>2. Packet!TypeOK /\ Packet!Inside /\ mode # "foreign"
    BY <1>0
  <2> QED
    BY ONLY <2>1, <2>2, PacketWrites
<1>4. Packet!TypeOK'
  BY <1>0, <1>2, <1>3 DEF Packet!TypeOK, Packet!m_nMaxSize
<1>5. Packet!Inside'
  BY <1>0, <1>2, <1>3 DEF Packet!Inside, Packet!m_nMaxSize, Packet!TypeOK
<1>6. PICK lay : LaidOut(lay) /\ Written(lay) /\ ReadSoFar(lay)
  BY <1>0 DEF PacketIInv
<1>7. lay[Len(fields) + 1] = m_nLen
  BY <1>0, <1>3, <1>6 DEF Written
<1>8. LaidOut(lay)'
  <2>1. /\ LaidOut(lay) /\ fields' = fields /\ fields \in Seq(Field) /\ m_nLen \in Nat
        /\ lay[Len(fields) + 1] <= m_nLen
        /\ \A k \in 1..m_nLen : m_pData'[k] = m_pData[k]
    BY <1>0, <1>2, <1>3, <1>6, <1>7
  <2> QED
    BY ONLY <2>1, PacketStays
<1>9. Written(lay)'
  BY <1>0, <1>2, <1>3, <1>7 DEF Written
<1>10. ReadSoFar(lay)'
  BY <1>2, <1>6 DEF ReadSoFar
<1> QED
  BY <1>4, <1>5, <1>8, <1>9, <1>10 DEF PacketIInv

(* An empty layout is at the start of a packet, whatever the memory holds. *)
LEMMA PacketStarts ==
  ASSUME Packet!TypeOK', Packet!Inside', fields' = <<>>, back' = <<>>, half' = FALSE,
         mode' = "write", m_nLen' < Len(m_pData') => m_nLen' = 0
  PROVE  PacketIInv'
<1>1. PICK lay : lay = [k \in 1..1 |-> 0]
  OBVIOUS
<1>2. lay \in [1..(0 + 1) -> Nat] /\ lay[1] = 0 /\ Len(<<>>) = 0
  BY <1>1
<1>3. LaidOut(lay)'
  BY <1>2 DEF LaidOut
<1>4. Written(lay)' /\ ReadSoFar(lay)'
  BY <1>2 DEF Written, ReadSoFar
<1> QED
  BY <1>3, <1>4 DEF PacketIInv

LEMMA PacketBegins ==
  ASSUME PacketIInv, Packet!BeginWrite \/ \E p \in Foreign : Packet!BeginWriteCopy(p)
  PROVE  PacketIInv'
<1>0. Packet!TypeOK
  BY DEF PacketIInv
<1>e. <<>> \in Seq(Field)
      /\ <<>> \in Seq([kind : {"number", "long", "float", "binary"}, bytes : Seq(Nat)])
  OBVIOUS
<1>1. CASE Packet!BeginWrite
  <2>1. Packet!TypeOK'
    BY <1>0, <1>1, <1>e DEF Packet!BeginWrite, Packet!TypeOK, Packet!m_nMaxSize, Packet!Restarted
  <2>2. Packet!Inside'
    BY <1>0, <1>1 DEF Packet!BeginWrite, Packet!Inside, Packet!TypeOK, Packet!m_nMaxSize, Packet!Restarted
  <2> QED
    BY <1>1, <2>1, <2>2, PacketStarts DEF Packet!BeginWrite
<1>2. ASSUME NEW p \in Foreign, Packet!BeginWriteCopy(p) PROVE PacketIInv'
  <2>1. p \in Seq(Nat) /\ Len(p) \in Nat /\ MAX_CMD_PACKET_SIZE \in Nat
    BY PacketIs
  <2>2. /\ m_pData' \in Seq(Nat) /\ Len(m_pData') <= MAX_CMD_PACKET_SIZE
        /\ Len(m_pData') \in Nat /\ m_nLen' = Len(p)
        /\ Len(p) <= MAX_CMD_PACKET_SIZE => Len(m_pData') = Len(p)
    BY <1>0, <1>2, <2>1 DEF Packet!BeginWriteCopy, Packet!Copied, Packet!TypeOK, Packet!m_nMaxSize
  <2>3. Packet!TypeOK'
    BY <1>0, <1>2, <2>1, <2>2, <1>e DEF Packet!BeginWriteCopy, Packet!TypeOK, Packet!m_nMaxSize
  <2>4. Packet!Inside'
    BY <1>2, <2>1, <2>2 DEF Packet!BeginWriteCopy, Packet!Inside, Packet!m_nMaxSize
  <2> QED
    <3>1. m_nLen' < Len(m_pData') => m_nLen' = 0
      BY ONLY <2>1, <2>2
    <3>2. fields' = <<>> /\ back' = <<>> /\ half' = FALSE /\ mode' = "write"
      BY <1>2 DEF Packet!BeginWriteCopy
    <3> QED
      BY ONLY <2>3, <2>4, <3>1, <3>2, PacketStarts
<1> QED
  BY <1>1, <1>2

LEMMA PacketBeginRead ==
  ASSUME PacketIInv, Packet!BeginRead PROVE PacketIInv'
<1>0. Packet!TypeOK /\ Packet!Inside /\ fields \in Seq(Field) /\ Len(fields) \in Nat
      /\ mode # "foreign"
  BY DEF PacketIInv, Packet!TypeOK, Packet!BeginRead
<1>e. <<>> \in Seq([kind : {"number", "long", "float", "binary"}, bytes : Seq(Nat)])
      /\ Len(<<>>) = 0
  OBVIOUS
<1>1. Packet!TypeOK' /\ Packet!Inside'
  BY <1>0, <1>e DEF Packet!BeginRead, Packet!TypeOK, Packet!Inside, Packet!m_nMaxSize, Packet!Rewound
<1>2. PICK lay : LaidOut(lay) /\ Written(lay) /\ ReadSoFar(lay)
  BY <1>0 DEF PacketIInv
<1>3. LaidOut(lay)'
  BY <1>2 DEF LaidOut, Packet!BeginRead, Image
<1>4. Written(lay)'
  BY <1>2 DEF Written, Packet!BeginRead
<1>5. ReadSoFar(lay)'
  BY <1>0, <1>2, <1>e DEF ReadSoFar, LaidOut, Packet!BeginRead, Packet!Rewound
<1> QED
  BY <1>1, <1>3, <1>4, <1>5 DEF PacketIInv

LEMMA PacketBeginForeign ==
  ASSUME PacketIInv, NEW p \in Foreign, Packet!BeginReadForeign(p) PROVE PacketIInv'
<1>1. Packet!TypeOK'
  BY PacketIs DEF PacketIInv, Packet!BeginReadForeign, Packet!TypeOK, Packet!m_nMaxSize, Packet!Rewound
<1>2. Packet!Inside'
  BY PacketIs DEF Packet!BeginReadForeign, Packet!Inside, Packet!Rewound
<1> QED
  BY <1>1, <1>2 DEF PacketIInv, Packet!BeginReadForeign

-----------------------------------------------------------------------------
(* Reading.                                                                *)
LEMMA BytesAre ==
  ASSUME Packet!TypeOK, NEW o \in Nat, NEW n \in Nat
  PROVE  /\ Packet!Bytes(o, n) \in Seq(Nat) /\ Len(Packet!Bytes(o, n)) = n
         /\ mode = "own" /\ o + n <= Len(m_pData) =>
              \A k \in 1..n : Packet!Bytes(o, n)[k] = m_pData[o + k]
<1>1. PICK src \in Seq(Nat) : src = Packet!Source /\ (mode = "own" => src = m_pData)
  BY DEF Packet!TypeOK, Packet!Source
<1>2. PICK b : b = Packet!Bytes(o, n)
  OBVIOUS
<1>3. b = [k \in 1..n |-> IF o + k <= Len(src) THEN src[o + k] ELSE 0]
  BY <1>1, <1>2 DEF Packet!Bytes, Packet!Fresh
<1>4. ASSUME NEW k \in 1..n, o + k <= Len(src) PROVE src[o + k] \in Nat
  BY <1>4
<1>5. b \in [1..n -> Nat]
  BY <1>3, <1>4
<1>6. b \in Seq(Nat) /\ Len(b) = n
  BY ONLY <1>5, n \in Nat
<1>7. Len(src) \in Nat
  OBVIOUS
<1>8. o + n <= Len(src) => \A k \in 1..n : b[k] = src[o + k]
  BY ONLY <1>3, <1>7, n \in Nat, o \in Nat
<1> QED
  BY <1>1, <1>2, <1>6, <1>8

(* The offset goes on, within the length; a field may be read.             *)
LEMMA PacketReadOn ==
  ASSUME PacketIInv, NEW n \in Nat, Packet!ReadData(n),
         UNCHANGED <<m_pData, m_nLen, m_nWriteOffset, m_pReadData, mode, fields, half>>,
         back' \in Seq([kind : {"number", "long", "float", "binary"}, bytes : Seq(Nat)]),
         \A lay : LaidOut(lay) /\ Written(lay) /\ ReadSoFar(lay) => ReadSoFar(lay)'
  PROVE  PacketIInv'
<1>0. Packet!TypeOK /\ Packet!Inside
  BY DEF PacketIInv
<1>1. m_nReadOffset \in Nat /\ m_nReadOffset' = m_nReadOffset + n /\ m_nReadOffset + n <= m_nLen
      /\ mode # "write" /\ m_nLen \in Nat
  BY <1>0 DEF Packet!TypeOK, Packet!ReadData, Packet!Readable
<1>2. Packet!TypeOK'
  BY <1>0, <1>1 DEF Packet!TypeOK, Packet!m_nMaxSize
<1>3. Packet!Inside'
  BY <1>0, <1>1 DEF Packet!Inside, Packet!m_nMaxSize
<1>4. ASSUME mode # "foreign" PROVE \E lay : LaidOut(lay)' /\ Written(lay)' /\ ReadSoFar(lay)'
  <2>1. PICK lay : LaidOut(lay) /\ Written(lay) /\ ReadSoFar(lay)
    BY <1>4 DEF PacketIInv
  <2>2. LaidOut(lay)'
    BY <2>1 DEF LaidOut, Image
  <2>3. Written(lay)'
    BY <2>1 DEF Written
  <2> QED
    BY <2>1, <2>2, <2>3
<1> QED
  BY <1>2, <1>3, <1>4 DEF PacketIInv

(* In memory of its own, the reader finds the next field it has written.   *)
LEMMA PacketNext ==
  ASSUME PacketIInv, mode = "own", NEW lay, LaidOut(lay), Written(lay), ReadSoFar(lay),
         NEW f \in Field, Len(back) < Len(fields), f = fields[Len(back) + 1]
  PROVE  /\ m_nReadOffset = lay[Len(back) + 1]
         /\ lay[Len(back) + 2] = m_nReadOffset + Len(Image(f))
         /\ m_nReadOffset \in Nat /\ Len(Image(f)) \in Nat \ {0}
         /\ m_nReadOffset + Len(Image(f)) <= m_nLen
         /\ m_nReadOffset + Len(Image(f)) <= Len(m_pData)
         /\ \A j \in 1..Len(Image(f)) : m_pData[m_nReadOffset + j] = Image(f)[j]
<1>1. fields \in Seq(Field) /\ Len(fields) \in Nat /\ Len(back) \in Nat /\ m_nLen \in Nat
      /\ Len(m_pData) \in Nat /\ m_nReadOffset \in Nat
  BY DEF PacketIInv, Packet!TypeOK
<1>2. Len(Image(f)) \in Nat \ {0}
  BY ImageIs
<1>3. PICK k : k = Len(back) + 1
  OBVIOUS
<1>4. k \in 1..Len(fields) /\ f = fields[k] /\ fields # <<>> /\ k + 1 = Len(back) + 2
      /\ k + 1 \in 1..(Len(fields) + 1) /\ Len(fields) + 1 \in 1..(Len(fields) + 1)
  BY <1>1, <1>3
<1>5. /\ lay \in [1..(Len(fields) + 1) -> Nat]
      /\ lay[k + 1] = lay[k] + Len(Image(f)) /\ lay[k + 1] <= lay[Len(fields) + 1]
      /\ \A j \in 1..Len(Image(f)) : m_pData[lay[k] + j] = Image(f)[j]
  BY <1>4 DEF LaidOut
<1>6. lay[Len(fields) + 1] <= m_nLen /\ m_nLen <= Len(m_pData)
  BY <1>4 DEF Written
<1>7. lay[k] = m_nReadOffset
  BY <1>3 DEF ReadSoFar
<1>8. lay[k + 1] \in Nat /\ lay[Len(fields) + 1] \in Nat
  BY ONLY <1>4, <1>5
<1> QED
  BY <1>1, <1>2, <1>3, <1>4, <1>5, <1>6, <1>7, <1>8

(* What is read there is that field.                                       *)
LEMMA PacketFieldRead ==
  ASSUME PacketIInv, mode = "own", NEW f \in Field, Len(back) < Len(fields),
         f = fields[Len(back) + 1], NEW lay, LaidOut(lay), Written(lay), ReadSoFar(lay),
         mode' = mode, fields' = fields, back' = Append(back, Again(f)),
         m_nReadOffset' = m_nReadOffset + Len(Image(f))
  PROVE  ReadSoFar(lay)'
<1>1. back \in Seq([kind : {"number", "long", "float", "binary"}, bytes : Seq(Nat)])
      /\ Len(back) \in Nat /\ Len(fields) \in Nat
  BY DEF PacketIInv, Packet!TypeOK
<1>2. Again(f) \in [kind : {"number", "long", "float", "binary"}, bytes : Seq(Nat)]
  BY AgainIs
<1>3. Len(back') = Len(back) + 1 /\ back'[Len(back) + 1] = Again(f)
      /\ \A k \in 1..Len(back) : back'[k] = back[k]
  BY <1>1, <1>2
<1>4. /\ \A k \in 1..Len(back) : back[k] = Again(fields[k])
      /\ Len(back) <= Len(fields)
  BY DEF ReadSoFar
<1>5. lay[Len(back) + 2] = m_nReadOffset + Len(Image(f))
  BY PacketNext
<1>6. lay[Len(back') + 1] = m_nReadOffset' /\ Len(back') <= Len(fields)
  <2>1. Len(back') + 1 = Len(back) + 2
    BY <1>1, <1>3
  <2> QED
    BY <1>1, <1>3, <1>5, <2>1
<1>7. \A k \in 1..Len(back') : back'[k] = Again(fields[k])
  BY <1>1, <1>3, <1>4
<1> QED
  BY <1>6, <1>7 DEF ReadSoFar

LEMMA PacketReadNumber ==
  ASSUME PacketIInv, NEW f \in Field, Packet!ReadNumber(f),
         mode = "own" => Len(back) < Len(fields) /\ f = fields[Len(back) + 1]
  PROVE  PacketIInv'
<1> DEFINE n == Len(f.bytes)
<1>0. Packet!TypeOK /\ n \in Nat /\ m_nReadOffset \in Nat /\ f.kind # "binary"
      /\ (f.kind = "long" => n = 8)
      /\ f \in [kind : {"number", "long", "float", "binary"}, bytes : Seq(Nat)]
      /\ back \in Seq([kind : {"number", "long", "float", "binary"}, bytes : Seq(Nat)])
  BY PacketIs DEF PacketIInv, Packet!TypeOK, Packet!ReadNumber
<1>1. PICK b \in Seq(Nat) :
         /\ b = Packet!Bytes(m_nReadOffset, n) /\ Len(b) = n
         /\ mode = "own" /\ m_nReadOffset + n <= Len(m_pData) =>
              \A k \in 1..n : b[k] = m_pData[m_nReadOffset + k]
  BY <1>0, BytesAre
<1>2. PICK g : g = [f EXCEPT !.bytes = b]
  OBVIOUS
<1>3. g.kind = f.kind /\ g.bytes = b
      /\ g \in [kind : {"number", "long", "float", "binary"}, bytes : Seq(Nat)]
  BY <1>0, <1>1, <1>2
<1>4. Packet!Ordered(g) \in Seq(Nat)
  BY <1>0, <1>1, <1>3, OrderedIs
<1>5. PICK h : h = [f EXCEPT !.bytes = Packet!Ordered(g)]
  OBVIOUS
<1>6. h \in [kind : {"number", "long", "float", "binary"}, bytes : Seq(Nat)]
  BY <1>0, <1>4, <1>5
<1>7. /\ Packet!ReadData(n) /\ back' = Append(back, h)
      /\ UNCHANGED <<m_pData, m_nLen, m_nWriteOffset, m_pReadData, mode, fields, half>>
  BY <1>1, <1>2, <1>5 DEF Packet!ReadNumber
<1>8. back' \in Seq([kind : {"number", "long", "float", "binary"}, bytes : Seq(Nat)])
  BY <1>0, <1>6, <1>7
<1>9. ASSUME NEW lay, LaidOut(lay), Written(lay), ReadSoFar(lay) PROVE ReadSoFar(lay)'
  <2>1. CASE mode # "own"
    BY <1>7, <2>1 DEF ReadSoFar
  <2>2. CASE mode = "own"
    <3>1. /\ m_nReadOffset + Len(Image(f)) <= Len(m_pData)
          /\ \A j \in 1..Len(Image(f)) : m_pData[m_nReadOffset + j] = Image(f)[j]
      BY <1>9, <2>2, PacketNext
    <3>2. Image(f) = Packet!Ordered(f) /\ Len(Image(f)) = n /\ Image(f) \in Seq(Nat)
      BY <1>0, ImageIs
    <3>3. \A k \in 1..n : b[k] = Image(f)[k]
      BY <1>1, <2>2, <3>1, <3>2
    <3>4. b = Image(f)
      BY ONLY <1>1, <3>2, <3>3, SameBytes
    <3>5. g = [f EXCEPT !.bytes = Packet!Ordered(f)]
      BY <1>2, <3>2, <3>4
    <3>6. h = Again(f)
      BY <1>0, <1>5, <3>5 DEF Again
    <3>7. m_nReadOffset' = m_nReadOffset + Len(Image(f))
      BY <1>7, <3>2 DEF Packet!ReadData
    <3>8. mode' = mode /\ fields' = fields /\ back' = Append(back, Again(f))
      BY <1>7, <3>6
    <3> QED
      BY <1>9, <2>2, <3>7, <3>8, PacketFieldRead
  <2> QED
    BY <2>1, <2>2
<1> QED
  BY <1>0, <1>7, <1>8, <1>9, PacketReadOn

LEMMA PacketReadBinary ==
  ASSUME PacketIInv, NEW f \in Field, Packet!ReadBinary(f),
         mode = "own" => Len(back) < Len(fields) /\ f = fields[Len(back) + 1]
  PROVE  PacketIInv'
<1>0. Packet!TypeOK /\ m_nReadOffset \in Nat /\ f.kind = "binary"
      /\ f \in [kind : {"number", "long", "float", "binary"}, bytes : Seq(Nat)]
      /\ back \in Seq([kind : {"number", "long", "float", "binary"}, bytes : Seq(Nat)])
  BY PacketIs DEF PacketIInv, Packet!TypeOK, Packet!ReadBinary
<1>1. PICK b \in Seq(Nat) :
         /\ b = Packet!Bytes(m_nReadOffset, 2) /\ Len(b) = 2
         /\ mode = "own" /\ m_nReadOffset + 2 <= Len(m_pData) =>
              \A k \in 1..2 : b[k] = m_pData[m_nReadOffset + k]
  <2>1. Packet!TypeOK /\ m_nReadOffset \in Nat /\ 2 \in Nat
    BY <1>0
  <2> QED
    BY ONLY <2>1, BytesAre
<1>2. PICK n : n = Packet!ReadShort(b)
  OBVIOUS
<1>3. n \in Nat
  <2>1. b[1] \in Nat /\ b[2] \in Nat
    BY ONLY <1>1
  <2> QED
    BY <1>2, <2>1 DEF Packet!ReadShort
<1>4. PICK c \in Seq(Nat) :
         /\ c = Packet!Bytes(m_nReadOffset + 2, n) /\ Len(c) = n
         /\ mode = "own" /\ m_nReadOffset + 2 + n <= Len(m_pData) =>
              \A k \in 1..n : c[k] = m_pData[m_nReadOffset + 2 + k]
  <2>1. m_nReadOffset + 2 \in Nat
    BY <1>0
  <2> QED
    BY ONLY <1>0, <1>3, <2>1, BytesAre
<1>5. PICK h : h = [f EXCEPT !.bytes = c]
  OBVIOUS
<1>6. h \in [kind : {"number", "long", "float", "binary"}, bytes : Seq(Nat)]
  BY <1>0, <1>5
<1>7. /\ IF n > 0 /\ Packet!Readable(2 + n)
          THEN Packet!ReadData(2 + n) /\ back' = Append(back, h)
          ELSE Packet!ReadData(2) /\ back' = back
      /\ UNCHANGED <<m_pData, m_nLen, m_nWriteOffset, m_pReadData, mode, fields, half>>
  BY <1>1, <1>2, <1>4, <1>5 DEF Packet!ReadBinary
<1>8. back' \in Seq([kind : {"number", "long", "float", "binary"}, bytes : Seq(Nat)])
  <2>1. back' = Append(back, h) \/ back' = back
    BY <1>7
  <2> QED
    <3>1. CASE back' = Append(back, h)
      BY <1>0, <1>6, <3>1
    <3>2. CASE back' = back
      BY <1>0, <3>2
    <3> QED
      BY <2>1, <3>1, <3>2
<1>9. ASSUME mode = "own", NEW lay, LaidOut(lay), Written(lay), ReadSoFar(lay)
      PROVE  ReadSoFar(lay)' /\ n > 0 /\ Packet!Readable(2 + n)
  <2>1. /\ m_nReadOffset + Len(Image(f)) <= m_nLen
        /\ m_nReadOffset + Len(Image(f)) <= Len(m_pData)
        /\ \A j \in 1..Len(Image(f)) : m_pData[m_nReadOffset + j] = Image(f)[j]
    BY <1>9, PacketNext
  <2>2. /\ Len(Image(f)) = 2 + Len(f.bytes)
        /\ Packet!ReadShort(<<Image(f)[1], Image(f)[2]>>) = Len(f.bytes)
        /\ \A k \in 1..Len(f.bytes) : Image(f)[2 + k] = f.bytes[k]
    BY <1>0, ImageIs
  <2>3. f.bytes \in Seq(Nat) /\ Len(f.bytes) \in Nat \ {0} /\ Len(m_pData) \in Nat
        /\ m_nLen \in Nat
    BY <1>0, PacketIs DEF Packet!TypeOK
  <2>4. b[1] = Image(f)[1] /\ b[2] = Image(f)[2]
    <3>1. m_nReadOffset + 2 <= Len(m_pData) /\ 1 \in 1..Len(Image(f)) /\ 2 \in 1..Len(Image(f))
      BY <1>0, <2>1, <2>2, <2>3
    <3> QED
      BY <1>1, <1>9, <2>1, <3>1
  <2>5. n = Len(f.bytes)
    BY <1>2, <2>2, <2>4 DEF Packet!ReadShort
  <2>6. n > 0 /\ Packet!Readable(2 + n)
    BY <1>0, <2>1, <2>2, <2>3, <2>5 DEF Packet!Readable
  <2>7. ASSUME NEW k \in 1..n PROVE c[k] = f.bytes[k]
    <3>1. 2 + k \in 1..Len(Image(f)) /\ m_nReadOffset + 2 + n <= Len(m_pData)
          /\ m_nReadOffset + (2 + k) = m_nReadOffset + 2 + k
      BY <1>0, <1>3, <2>1, <2>2, <2>5
    <3>2. c[k] = m_pData[m_nReadOffset + 2 + k]
      BY <1>4, <1>9, <3>1
    <3>3. m_pData[m_nReadOffset + (2 + k)] = Image(f)[2 + k]
      BY <2>1, <3>1
    <3> QED
      BY <2>2, <2>5, <3>1, <3>2, <3>3
  <2>8. c = f.bytes
    BY ONLY <1>4, <2>3, <2>5, <2>7, SameBytes
  <2>9. h = f /\ Again(f) = f
    BY <1>0, <1>5, <2>8 DEF Again
  <2>10. m_nReadOffset' = m_nReadOffset + Len(Image(f))
    BY <1>7, <2>2, <2>5, <2>6 DEF Packet!ReadData
  <2>11. mode' = mode /\ fields' = fields /\ back' = Append(back, Again(f))
    BY <1>7, <2>6, <2>9
  <2> QED
    BY <1>9, <2>6, <2>10, <2>11, PacketFieldRead
<1>10. ASSUME NEW lay, LaidOut(lay), Written(lay), ReadSoFar(lay) PROVE ReadSoFar(lay)'
  BY <1>7, <1>9, <1>10 DEF ReadSoFar
<1>11. CASE n > 0 /\ Packet!Readable(2 + n)
  <2>1. 2 + n \in Nat /\ Packet!ReadData(2 + n)
    BY <1>3, <1>7, <1>11
  <2> QED
    BY <1>7, <1>8, <1>10, <2>1, PacketReadOn
<1>12. CASE ~(n > 0 /\ Packet!Readable(2 + n))
  BY <1>7, <1>8, <1>10, <1>12, PacketReadOn
<1> QED
  BY <1>11, <1>12

-----------------------------------------------------------------------------
LEMMA PacketInit == Packet!Init => PacketIInv
<1> SUFFICES ASSUME Packet!Init PROVE PacketIInv
  OBVIOUS
<1>1. DEFAULT_CMD_PACKET_SIZE \in Nat /\ DEFAULT_CMD_PACKET_SIZE <= MAX_CMD_PACKET_SIZE
      /\ MAX_CMD_PACKET_SIZE \in Nat
  BY PacketIs
<1>2. m_pData \in Seq(Nat) /\ Len(m_pData) = DEFAULT_CMD_PACKET_SIZE
  <2>1. m_pData \in [1..DEFAULT_CMD_PACKET_SIZE -> Nat]
    BY DEF Packet!Init, Packet!Fresh
  <2> QED
    BY <1>1, <2>1
<1>3. <<>> \in Seq(Field) /\ <<>> \in Seq(Nat) /\ Len(<<>>) = 0
      /\ <<>> \in Seq([kind : {"number", "long", "float", "binary"}, bytes : Seq(Nat)])
  OBVIOUS
<1>i. m_nLen = 0 /\ m_nReadOffset = 0 /\ m_nWriteOffset = 0 /\ m_pReadData = <<>>
      /\ mode = "write" /\ fields = <<>> /\ back = <<>> /\ half = FALSE
  BY DEF Packet!Init
<1>4. Packet!TypeOK
  BY ONLY <1>1, <1>2, <1>3, <1>i DEF Packet!TypeOK, Packet!m_nMaxSize
<1>8. Packet!Inside
  BY <1>1, <1>2, <1>i DEF Packet!Inside, Packet!m_nMaxSize
<1>5. PICK lay : lay = [k \in 1..1 |-> 0]
  OBVIOUS
<1>6. lay \in [1..(0 + 1) -> Nat] /\ lay[1] = 0
  BY <1>5
<1>7. LaidOut(lay) /\ Written(lay) /\ ReadSoFar(lay)
  BY <1>3, <1>6 DEF Packet!Init, LaidOut, Written, ReadSoFar
<1> QED
  BY <1>4, <1>7, <1>8 DEF PacketIInv

LEMMA PacketStep == PacketIInv /\ [Packet!Next]_packet => PacketIInv'
<1> SUFFICES ASSUME PacketIInv, [Packet!Next]_packet PROVE PacketIInv'
  OBVIOUS
<1>1. CASE Packet!Read
  BY <1>1, PacketReadNumber, PacketReadBinary DEF Packet!Read
<1>2. ASSUME NEW f \in Field, Packet!WriteNumber(f) \/ Packet!WriteBinary(f) \/ Packet!WriteHalf(f)
      PROVE  PacketIInv'
  BY <1>2, PacketWriteNumber, PacketWriteBinary, PacketWriteHalf
<1>3. ASSUME NEW p \in Foreign, Packet!BeginReadForeign(p) PROVE PacketIInv'
  BY <1>3, PacketBeginForeign
<1>4. CASE UNCHANGED packet
  <2> USE DEF packet
  <2>1. Packet!TypeOK' /\ Packet!Inside'
    BY <1>4 DEF PacketIInv, Packet!TypeOK, Packet!Inside, Packet!m_nMaxSize
  <2>2. ASSUME NEW lay, LaidOut(lay), Written(lay), ReadSoFar(lay)
        PROVE  LaidOut(lay)' /\ Written(lay)' /\ ReadSoFar(lay)'
    BY <1>4, <2>2 DEF LaidOut, Written, ReadSoFar, Image, Again
  <2> QED
    BY <1>4, <2>1, <2>2 DEF PacketIInv
<1> QED
  BY <1>1, <1>2, <1>3, <1>4, PacketBegins, PacketBeginRead DEF Packet!Next

LEMMA PacketIsRight == PacketIInv => PacketsWhole
<1> SUFFICES ASSUME PacketIInv PROVE PacketsWhole
  OBVIOUS
<1>1. back \in Seq([kind : {"number", "long", "float", "binary"}, bytes : Seq(Nat)])
  BY DEF PacketIInv, Packet!TypeOK
<1>2. DOMAIN back = 1..Len(back)
  BY <1>1
<1>3. mode = "own" =>
        /\ Len(back) <= Len(fields)
        /\ \A k \in 1..Len(back) : back[k] = Again(fields[k])
  BY DEF PacketIInv, ReadSoFar
<1>4. fields \in Seq(Field) /\ Len(back) \in Nat /\ Len(fields) \in Nat
  BY <1>1 DEF PacketIInv, Packet!TypeOK
<1>5. ASSUME mode = "own", NEW k \in 1..Len(back)
      PROVE  back[k] = fields[k] <=> Packet!Exact(fields[k])
  <2>1. fields[k] \in Field /\ back[k] = Again(fields[k])
    BY <1>3, <1>4, <1>5
  <2> QED
    BY <2>1, AgainIs
<1> QED
  BY <1>2, <1>3, <1>5 DEF PacketIInv, PacketsWhole, Packet!ReadsBack

(* CmdPacket, whatever the order of its calls: nothing is read or written  *)
(* outside of its memory, although the object's and its caller's bytes     *)
(* share one length; and what was written is read back field by field,     *)
(* also when a field does not fit, and when reading and writing take       *)
(* turns: as it was written exactly when it is no 64-bit number, or one    *)
(* that hton64 and ntoh64 turn around without loss.                        *)
THEOREM PacketsCorrect == Spec => []PacketsWhole
<1>1. Init => PacketIInv
  BY PacketInit DEF Init
<1>2. PacketIInv /\ [Next]_vars => PacketIInv'
  <2>1. [Next]_vars => [Packet!Next]_packet
    BY DEF Next, vars, SvrMoves, CliMoves, ThreadsMove, SelectMoves, PacketMoves, AliveMoves
  <2> QED
    BY <2>1, PacketStep
<1> QED
  BY <1>1, <1>2, PacketIsRight, PTL DEF Spec
=============================================================================
