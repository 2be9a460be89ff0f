------------------------- MODULE NetSession_proofs -------------------------
(***************************************************************************)
(* What is proved in Net.tla of a session of the game: the keep-alive      *)
(* between server and client, and the client's TcpSession, each for calls  *)
(* that do not overlap, and on threads.  In a behaviour of Net.tla one     *)
(* component moves, so each part has an inductive invariant of its own     *)
(* component, and its theorem lifts it to the composition, for any clocks, *)
(* intervals, packets and connections.                                     *)
(***************************************************************************)
EXTENDS Net, SequenceTheorems, TLAPS

-----------------------------------------------------------------------------
(* The remainder by any number: differences of clocks that have wrapped.   *)

LEMMA DivMod ==
  ASSUME NEW w \in Nat \ {0}, NEW n \in Nat
  PROVE  n \div w \in Nat /\ n % w \in 0..(w - 1) /\ n = w * (n \div w) + (n % w)
OBVIOUS

LEMMA ModSmall ==
  ASSUME NEW w \in Nat \ {0}, NEW k \in 0..(w - 1)
  PROVE  k % w = k /\ (k + w) % w = k
OBVIOUS

LEMMA ModAhead ==
  ASSUME NEW w \in Nat \ {0}, NEW b \in Nat, NEW d \in 0..(w - 1)
  PROVE  (b + d) % w = (b % w) + d \/ (b + d) % w = (b % w) + d - w
<1> DEFINE p == b \div w  q == (b + d) \div w  r == b % w  t == (b + d) % w
<1>1. p \in Nat /\ r \in 0..(w - 1) /\ b = w * p + r
  BY DivMod
<1>2. q \in Nat /\ t \in 0..(w - 1) /\ b + d = w * q + t
  <2>1. b + d \in Nat
    OBVIOUS
  <2> QED
    BY <2>1, DivMod
<1> HIDE DEF p, q, r, t
<1>3. w * (q - p) = r - t + d
  <2>1. w * q - w * p = w * (q - p)
    BY <1>1, <1>2
  <2> QED
    BY <2>1, <1>1, <1>2
<1>4. q - p < 2
  <2>1. q - p >= 2 => w * (q - p) >= 2 * w
    BY <1>1, <1>2
  <2> QED
    BY <2>1, <1>1, <1>2, <1>3
<1>5. q - p >= 0
  <2>1. q - p < 0 => w * (q - p) <= 0 - w
    BY <1>1, <1>2
  <2> QED
    BY <2>1, <1>1, <1>2, <1>3
<1>6. CASE q - p = 0
  <2>1. w * (q - p) = 0
    BY <1>6
  <2> QED
    BY <2>1, <1>1, <1>2, <1>3 DEF r, t
<1>7. CASE q - p = 1
  <2>1. w * (q - p) = w
    BY <1>7
  <2> QED
    BY <2>1, <1>1, <1>2, <1>3 DEF r, t
<1> QED
  BY <1>1, <1>2, <1>4, <1>5, <1>6, <1>7

(* KeepAlive!Minus of a clock and what it showed less than a word before.  *)
LEMMA MinusExact ==
  ASSUME NEW w \in Nat \ {0}, NEW b \in Nat, NEW d \in 0..(w - 1)
  PROVE  (((b + d) % w) + w - (b % w)) % w = d
<1> DEFINE r == b % w  t == (b + d) % w
<1>1. r \in 0..(w - 1) /\ t \in 0..(w - 1)
  BY DivMod
<1>2. t = r + d \/ t = r + d - w
  BY ModAhead
<1> HIDE DEF r, t
<1>3. t + w - r = d \/ t + w - r = d + w
  BY <1>1, <1>2
<1>4. (t + w - r) % w = d
  BY <1>3, ModSmall
<1> QED
  BY <1>4 DEF r, t

-----------------------------------------------------------------------------
(* The keep-alive (KeepAlive.tla).  The invariant is AlvIInv: the times    *)
(* behind the wrapped numbers.  A side is silent no longer than an         *)
(* interval, a frame and, on threads, the frame it is in (Gap); of what it *)
(* has sent, the first message still on its way is a gap behind the last   *)
(* one heard, and a delay old at most; and a message carries the clock of  *)
(* the side that measures.                                                 *)

AlvMessage == [cmd : Alive!Command, time : 0..(Word - 1), at : Nat, sent : Nat]

Clock(s, t) == (t + offset[s]) % Word

(* The longest a side is silent. *)
Longest(single) == Interval + (IF single THEN 1 ELSE 2)

Gap(s, done, clock) ==
  Interval + (IF s \in done THEN 0 ELSE 1) + (IF s = "client" /\ clock # Word THEN 1 ELSE 0)

(* A message to s. *)
Carries(s, m) ==
  /\ m.cmd = "Keep_Alive" => m.sent = m.at /\ m.time = Clock(Alive!Other(s), m.at)
  /\ m.cmd = "Keep_Alive_Ack" => m.sent <= m.at + Delay /\ m.time = Clock(s, m.at)

OnTime(m, t) == m.at <= m.sent /\ m.sent <= t /\ t <= m.sent + Delay

OnItsWay(s, q, t) ==
  /\ q \in Seq(AlvMessage)
  /\ \A k \in 1..Len(q) : OnTime(q[k], t) /\ Carries(s, q[k])

(* heard is the time s heard the last message before those of q, and last  *)
(* the time the other side sent the last one of all.                       *)
Follows(q, heard, last, longest) ==
  /\ q = <<>> => last <= heard
  /\ q # <<>> => q[1].sent <= heard + longest

HeardAt(s, number, heard) == heard \in 0..now /\ number = Clock(s, heard)

(* The clock FixedUpdate has read, and when. *)
ReadAt(t) ==
  /\ t \in Nat /\ read = Clock("client", t) /\ t <= now
  /\ IF "client" \in processed THEN t = now ELSE t + 1 = now

AlvTypes ==
  /\ now \in Nat /\ offset \in [Alive!Side -> 0..(Word - 1)]
  /\ m_lstSendTime \in [Alive!Side -> 0..(Word - 1)]
  /\ m_lstRecvTime \in [Alive!Side -> 0..(Word - 1)]
  /\ m_rtt \in [Alive!Side -> 0..(Word - 1)] /\ trip \in [Alive!Side -> 0..now]
  /\ m_rtt = trip
  /\ link \in [Alive!Side -> Seq(AlvMessage)] /\ processed \subseteq Alive!Side
  /\ read \in 0..Word /\ sentAt \in [Alive!Side -> 0..now]

AlvSends ==
  \A s \in Alive!Side :
    m_lstSendTime[s] = Clock(s, sentAt[s]) /\ now <= sentAt[s] + Gap(s, processed, read)

AlvHears(single) ==
  \E heard \in [Alive!Side -> Nat] : \A s \in Alive!Side :
    /\ HeardAt(s, m_lstRecvTime[s], heard[s])
    /\ Follows(link[s], heard[s], sentAt[Alive!Other(s)], Longest(single))

AlvIInv(single) ==
  /\ AlvTypes /\ AlvSends /\ AlvHears(single)
  /\ \A s \in Alive!Side : OnItsWay(s, link[s], now)
  /\ IF single THEN read = Word ELSE read # Word => \E t \in Nat : ReadAt(t)

LEMMA AlvAssumed ==
  /\ Word \in Nat \ {0} /\ Interval \in Nat /\ Timeout \in Nat /\ Delay \in Nat
  /\ Word > Timeout /\ Word > 2 * Delay /\ MaxTime \in Nat /\ MaxTimeThreads \in Nat
  /\ Offset \subseteq 0..(Word - 1) /\ OffsetThreads \subseteq 0..(Word - 1)
  /\ Timeout >= Longest(TRUE) + Delay /\ Timeout >= Longest(FALSE) + Delay
  /\ \A single \in BOOLEAN : Longest(single) \in Nat
BY NetAssumed DEF NetAssumption, Alive!KeepAliveAssumption, AliveThreads!KeepAliveAssumption,
   Longest

LEMMA AlvSide ==
  /\ Alive!Side = {"server", "client"}
  /\ \A s \in Alive!Side : Alive!Other(s) \in Alive!Side /\ Alive!Other(s) # s
                           /\ Alive!Other(Alive!Other(s)) = s
BY DEF Alive!Side, Alive!Other

(* What a clock shows, and that a difference of two is exact.              *)
LEMMA AlvClock ==
  ASSUME offset \in [Alive!Side -> 0..(Word - 1)], NEW s \in Alive!Side,
         NEW a \in Nat, NEW b \in 0..a
  PROVE  /\ Clock(s, a) \in 0..(Word - 1)
         /\ a - b < Word => Alive!Minus(Clock(s, a), Clock(s, b)) = a - b
<1>1. Word \in Nat \ {0} /\ a + offset[s] \in Nat /\ b + offset[s] \in Nat
  BY AlvAssumed
<1>2. Clock(s, a) \in 0..(Word - 1)
  BY <1>1, DivMod DEF Clock
<1>3. ASSUME a - b < Word PROVE Alive!Minus(Clock(s, a), Clock(s, b)) = a - b
  <2> DEFINE from == b + offset[s]  d == a - b
  <2>1. from \in Nat /\ d \in 0..(Word - 1) /\ a + offset[s] = from + d
    BY <1>1, <1>3
  <2> HIDE DEF from, d
  <2>2. (((from + d) % Word) + Word - (from % Word)) % Word = d
    BY <1>1, <2>1, MinusExact
  <2> QED
    BY <2>1, <2>2 DEF Clock, Alive!Minus, from, d
<1> QED
  BY <1>2, <1>3

-----------------------------------------------------------------------------
(* Queues.                                                                 *)

LEMMA OnItsWayAppend ==
  ASSUME NEW s, NEW q, NEW t, OnItsWay(s, q, t), NEW m \in AlvMessage,
         OnTime(m, t), Carries(s, m)
  PROVE  OnItsWay(s, Append(q, m), t)
<1>1. q \in Seq(AlvMessage)
  BY DEF OnItsWay
<1>2. Append(q, m) \in Seq(AlvMessage) /\ Len(Append(q, m)) = Len(q) + 1
      /\ (\A k \in 1..Len(q) : Append(q, m)[k] = q[k]) /\ Append(q, m)[Len(q) + 1] = m
  BY <1>1, AppendProperties
<1>3. ASSUME NEW k \in 1..Len(Append(q, m))
      PROVE  OnTime(Append(q, m)[k], t) /\ Carries(s, Append(q, m)[k])
  <2>1. k \in 1..Len(q) \/ k = Len(q) + 1
    BY <1>1, <1>2
  <2> QED
    BY <2>1, <1>2 DEF OnItsWay
<1> QED
  BY <1>2, <1>3 DEF OnItsWay

LEMMA OnItsWayKept ==
  ASSUME UNCHANGED <<now, offset>>, NEW s, OnItsWay(s, link'[s], now)
  PROVE  OnItsWay(s, link[s], now)'
<1>1. /\ link'[s] \in Seq(AlvMessage)
      /\ \A k \in 1..Len(link'[s]) : OnTime(link'[s][k], now) /\ Carries(s, link'[s][k])
  BY DEF OnItsWay
<1>2. ASSUME NEW k \in 1..Len(link'[s]) PROVE (OnTime(link[s][k], now) /\ Carries(s, link[s][k]))'
  BY <1>1 DEF OnTime, Carries, Clock
<1> QED
  BY <1>1, <1>2 DEF OnItsWay, AlvMessage

LEMMA OnItsWayTail ==
  ASSUME NEW s, NEW q, NEW t, OnItsWay(s, q, t), q # <<>>
  PROVE  /\ OnItsWay(s, Tail(q), t) /\ Head(q) = q[1] /\ Len(Tail(q)) = Len(q) - 1
         /\ Head(q) \in AlvMessage /\ OnTime(Head(q), t) /\ Carries(s, Head(q))
<1>1. q \in Seq(AlvMessage) /\ Len(q) \in Nat /\ Len(q) >= 1
  BY EmptySeq DEF OnItsWay
<1>2. /\ Head(q) \in AlvMessage /\ Tail(q) \in Seq(AlvMessage) /\ Len(Tail(q)) = Len(q) - 1
      /\ \A k \in 1..Len(Tail(q)) : Tail(q)[k] = q[k + 1]
  BY <1>1, HeadTailProperties
<1>3. Head(q) = q[1]
  BY <1>1
<1>4. ASSUME NEW k \in 1..Len(Tail(q)) PROVE OnTime(Tail(q)[k], t) /\ Carries(s, Tail(q)[k])
  <2>1. k + 1 \in 1..Len(q) /\ Tail(q)[k] = q[k + 1]
    BY <1>1, <1>2
  <2> QED
    BY <2>1 DEF OnItsWay
<1>5. OnTime(q[1], t) /\ Carries(s, q[1])
  BY <1>1 DEF OnItsWay
<1> QED
  BY <1>2, <1>3, <1>4, <1>5 DEF OnItsWay

(* A message sent now, no longer than the longest gap after the last one.  *)
LEMMA FollowsAppend ==
  ASSUME NEW q \in Seq(AlvMessage), NEW heard \in Nat, NEW last \in Nat, NEW longest \in Nat,
         Follows(q, heard, last, longest), NEW m \in AlvMessage, m.sent <= last + longest
  PROVE  Follows(Append(q, m), heard, m.sent, longest)
<1>0. m.sent \in Nat
  BY DEF AlvMessage
<1>1. Append(q, m) # <<>>
  BY AppendProperties
<1>2. CASE q = <<>>
  <2>1. Append(q, m)[1] = m
    BY <1>2
  <2> QED
    BY <1>0, <1>1, <1>2, <2>1 DEF Follows
<1>3. CASE q # <<>>
  <2>1. Append(q, m)[1] = q[1]
    BY <1>3, AppendProperties, EmptySeq
  <2> QED
    BY <1>1, <1>3, <2>1 DEF Follows
<1> QED
  BY <1>2, <1>3

-----------------------------------------------------------------------------
(* The steps, on one thread (single) or on two.                            *)

AlvRead(single) == IF single THEN read = Word ELSE read # Word => \E t \in Nat : ReadAt(t)

LEMMA AlvGap ==
  ASSUME NEW single \in BOOLEAN, AlvIInv(single), NEW s \in Alive!Side
  PROVE  /\ Gap(s, processed, read) \in Nat /\ Gap(s, processed, read) <= Longest(single)
         /\ Longest(single) \in Nat /\ sentAt[s] \in 0..now /\ now \in Nat
         /\ now <= sentAt[s] + Longest(single) /\ now - sentAt[s] < Word
<1>1. Gap(s, processed, read) \in Nat /\ Gap(s, processed, read) <= Longest(single)
  BY AlvAssumed DEF Gap, Longest, AlvIInv
<1>2. now \in Nat /\ sentAt[s] \in 0..now /\ now <= sentAt[s] + Gap(s, processed, read)
  BY DEF AlvIInv, AlvTypes, AlvSends
<1>3. Longest(single) \in Nat /\ Longest(single) < Word
  BY AlvAssumed DEF Longest
<1>4. sentAt[s] \in Nat
  BY <1>2
<1>5. now <= sentAt[s] + Longest(single) /\ now - sentAt[s] < Word
  BY <1>1, <1>2, <1>3, <1>4, AlvAssumed
<1> QED
  BY <1>1, <1>2, <1>3, <1>5

AlvTicks ==
  /\ processed = Alive!Side
  /\ \A s \in Alive!Side : \A k \in DOMAIN link[s] : now < link[s][k].sent + Delay
  /\ now' = now + 1 /\ processed' = {}
  /\ UNCHANGED <<offset, m_lstSendTime, m_lstRecvTime, m_rtt, link, read, sentAt, trip>>

LEMMA AlvTick ==
  ASSUME NEW single \in BOOLEAN, AlvIInv(single), AlvTicks
  PROVE  AlvIInv(single)'
<1>1. AlvTypes'
  BY DEF AlvIInv, AlvTypes, AlvTicks
<1>2. AlvSends'
  <2> SUFFICES ASSUME NEW s \in Alive!Side
               PROVE  /\ m_lstSendTime[s] = (Clock(s, sentAt[s]))'
                      /\ now' <= sentAt[s] + Gap(s, {}, read)
    BY DEF AlvSends, AlvTicks
  <2>1. Gap(s, {}, read) = Gap(s, processed, read) + 1
    BY AlvAssumed DEF Gap, AlvTicks
  <2>2. now' = now + 1 /\ now \in Nat /\ sentAt[s] \in 0..now /\ Gap(s, processed, read) \in Nat
    BY AlvGap DEF AlvTicks
  <2>3. m_lstSendTime[s] = Clock(s, sentAt[s]) /\ now <= sentAt[s] + Gap(s, processed, read)
    BY DEF AlvIInv, AlvSends
  <2>4. m_lstSendTime[s] = (Clock(s, sentAt[s]))'
    BY <2>3 DEF Clock, AlvTicks
  <2> QED
    BY <2>1, <2>2, <2>3, <2>4
<1>3. AlvHears(single)'
  <2>1. PICK heard \in [Alive!Side -> Nat] : \A s \in Alive!Side :
               /\ HeardAt(s, m_lstRecvTime[s], heard[s])
               /\ Follows(link[s], heard[s], sentAt[Alive!Other(s)], Longest(single))
    BY DEF AlvIInv, AlvHears
  <2>2. ASSUME NEW s \in Alive!Side PROVE (HeardAt(s, m_lstRecvTime[s], heard[s]))'
    BY <2>1 DEF HeardAt, Clock, AlvTicks, AlvIInv, AlvTypes
  <2>3. ASSUME NEW s \in Alive!Side
        PROVE  (Follows(link[s], heard[s], sentAt[Alive!Other(s)], Longest(single)))'
    BY <2>1 DEF Follows, Longest, AlvTicks
  <2> QED
    BY <2>2, <2>3 DEF AlvHears
<1>4. ASSUME NEW s \in Alive!Side PROVE OnItsWay(s, link[s], now)'
  <2>1. link[s] \in Seq(AlvMessage) /\ \A k \in 1..Len(link[s]) : OnTime(link[s][k], now) /\ Carries(s, link[s][k])
    BY DEF AlvIInv, OnItsWay
  <2>2. ASSUME NEW k \in 1..Len(link[s])
        PROVE  OnTime(link[s][k], now + 1) /\ (Carries(s, link[s][k]))'
    <3>1. link[s][k] \in AlvMessage /\ k \in DOMAIN link[s]
      BY <2>1, ElementOfSeq
    <3>2. now \in Nat /\ now < link[s][k].sent + Delay /\ link[s][k].sent \in Nat /\ link[s][k].at \in Nat
      BY <3>1 DEF AlvTicks, AlvMessage, AlvIInv, AlvTypes
    <3>3. OnTime(link[s][k], now + 1)
      BY <2>1, <3>2, AlvAssumed DEF OnTime
    <3>4. (Carries(s, link[s][k]))'
      BY <2>1 DEF Carries, Clock, AlvTicks
    <3> QED
      BY <3>3, <3>4
  <2> QED
    BY <2>1, <2>2 DEF OnItsWay, AlvTicks, AlvMessage
<1>5. AlvRead(single)'
  <2>1. CASE single
    BY <2>1 DEF AlvIInv, AlvRead, AlvTicks
  <2>2. CASE ~single /\ read # Word
    <3>1. PICK t \in Nat : ReadAt(t)
      BY <2>2 DEF AlvIInv
    <3>2. ReadAt(t)'
      BY <3>1, AlvSide DEF ReadAt, Clock, AlvTicks, AlvIInv, AlvTypes
    <3> QED
      BY <2>2, <3>2 DEF AlvRead, AlvTicks
  <2>3. CASE ~single /\ read = Word
    BY <2>3 DEF AlvRead, AlvTicks
  <2> QED
    BY <2>1, <2>2, <2>3
<1> QED
  BY <1>1, <1>2, <1>3, <1>4, <1>5 DEF AlvIInv, AlvRead

(* Nothing is sent or heard.                                               *)
LEMMA AlvQuietStep ==
  ASSUME NEW single \in BOOLEAN, AlvIInv(single),
         UNCHANGED <<now, offset, m_lstSendTime, m_lstRecvTime, m_rtt, link, sentAt, trip>>,
         processed' \subseteq Alive!Side, read' \in 0..Word, AlvRead(single)',
         \A s \in Alive!Side : now <= sentAt[s] + Gap(s, processed', read')
  PROVE  AlvIInv(single)'
<1>1. AlvTypes'
  BY DEF AlvIInv, AlvTypes
<1>2. AlvSends'
  BY DEF AlvIInv, AlvSends, Clock, Gap
<1>3. AlvHears(single)'
  BY DEF AlvIInv, AlvHears, HeardAt, Clock, Follows, Longest
<1>4. \A s \in Alive!Side : OnItsWay(s, link[s], now)'
  BY DEF AlvIInv, OnItsWay, OnTime, Carries, Clock, AlvMessage
<1> QED
  BY <1>1, <1>2, <1>3, <1>4 DEF AlvIInv, AlvRead

(* s sends m.                                                              *)
AlvSay(s, m) ==
  /\ link' = [link EXCEPT ![Alive!Other(s)] = Append(@, m)]
  /\ m_lstSendTime' = [m_lstSendTime EXCEPT ![s] = Clock(s, now)]
  /\ sentAt' = [sentAt EXCEPT ![s] = now]

LEMMA AlvPut ==
  ASSUME NEW single \in BOOLEAN, AlvIInv(single), NEW s \in Alive!Side, NEW m \in AlvMessage,
         m.sent = now, m.at <= now, Carries(Alive!Other(s), m), AlvSay(s, m),
         UNCHANGED <<now, offset, m_lstRecvTime, m_rtt, trip>>,
         processed' \subseteq Alive!Side, read' \in 0..Word, AlvRead(single)',
         Gap(Alive!Other(s), processed', read') = Gap(Alive!Other(s), processed, read)
  PROVE  AlvIInv(single)'
<1> DEFINE o == Alive!Other(s)
<1>0. /\ o \in Alive!Side /\ o # s /\ Alive!Other(o) = s /\ now \in Nat
      /\ \A r \in Alive!Side : r = s \/ r = o
  BY AlvSide DEF AlvIInv, AlvTypes
<1> HIDE DEF o
<1>a. AlvTypes
  BY DEF AlvIInv
<1>b. /\ link'[o] = Append(link[o], m) /\ link'[s] = link[s]
      /\ sentAt'[s] = now /\ sentAt'[o] = sentAt[o]
      /\ m_lstSendTime'[s] = Clock(s, now) /\ m_lstSendTime'[o] = m_lstSendTime[o]
  BY <1>0, <1>a DEF AlvTypes, AlvSay, o
<1>1. AlvTypes'
  <2>1. Clock(s, now) \in 0..(Word - 1)
    BY <1>0, <1>a, AlvClock DEF AlvTypes
  <2>2. link' \in [Alive!Side -> Seq(AlvMessage)]
    <3>1. Append(link[o], m) \in Seq(AlvMessage)
      BY <1>0, <1>a, AppendProperties DEF AlvTypes
    <3> QED
      BY <1>0, <1>a, <3>1 DEF AlvTypes, AlvSay, o
  <2>3. m_lstSendTime' \in [Alive!Side -> 0..(Word - 1)] /\ sentAt' \in [Alive!Side -> 0..now]
    BY <1>0, <1>a, <2>1 DEF AlvTypes, AlvSay
  <2> QED
    BY <1>a, <2>2, <2>3 DEF AlvTypes
<1>2. AlvSends'
  <2>1. Gap(s, processed', read') \in Nat
    BY AlvAssumed DEF Gap
  <2>2. m_lstSendTime[o] = Clock(o, sentAt[o]) /\ now <= sentAt[o] + Gap(o, processed, read)
    BY <1>0 DEF AlvIInv, AlvSends
  <2>3. Gap(o, processed', read') = Gap(o, processed, read)
    BY DEF o
  <2>4. /\ m_lstSendTime'[s] = (now + offset'[s]) % Word
        /\ m_lstSendTime'[o] = (sentAt[o] + offset'[o]) % Word
    BY <1>b, <2>2 DEF Clock
  <2>5. now' <= sentAt'[s] + Gap(s, processed', read') /\ now' <= sentAt'[o] + Gap(o, processed', read')
    BY <1>0, <1>b, <2>1, <2>2, <2>3
  <2> QED
    BY <1>0, <1>b, <2>4, <2>5 DEF AlvSends, Clock, Gap
<1>3. AlvHears(single)'
  <2>1. PICK heard \in [Alive!Side -> Nat] : \A r \in Alive!Side :
               /\ HeardAt(r, m_lstRecvTime[r], heard[r])
               /\ Follows(link[r], heard[r], sentAt[Alive!Other(r)], Longest(single))
    BY DEF AlvIInv, AlvHears
  <2>2. ASSUME NEW r \in Alive!Side PROVE (HeardAt(r, m_lstRecvTime[r], heard[r]))'
    BY <2>1 DEF HeardAt, Clock
  <2>3. Follows(Append(link[o], m), heard[o], now, Longest(single))
    <3>1. link[o] \in Seq(AlvMessage) /\ heard[o] \in Nat /\ sentAt[s] \in Nat
      <4>1. heard[o] \in Nat
        BY <1>0
      <4>2. link[o] \in Seq(AlvMessage) /\ sentAt[s] \in 0..now
        BY <1>0, <1>a DEF AlvTypes
      <4> QED
        BY <1>0, <4>1, <4>2
    <3>2. Longest(single) \in Nat /\ now <= sentAt[s] + Longest(single)
      BY AlvGap
    <3>3. Follows(link[o], heard[o], sentAt[s], Longest(single))
      BY <1>0, <2>1
    <3> QED
      BY <3>1, <3>2, <3>3, FollowsAppend
  <2>4. Follows(link'[o], heard[o], sentAt'[s], Longest(single))
    BY <1>b, <2>3
  <2>5. Follows(link'[s], heard[s], sentAt'[o], Longest(single))
    BY <1>0, <1>b, <2>1 DEF o
  <2>6. ASSUME NEW r \in Alive!Side
        PROVE  (Follows(link[r], heard[r], sentAt[Alive!Other(r)], Longest(single)))'
    BY <1>0, <2>4, <2>5 DEF o, Follows, Longest, Alive!Other
  <2> QED
    BY <2>2, <2>6 DEF AlvHears
<1>4. \A r \in Alive!Side : OnItsWay(r, link'[r], now)
  <2>1. OnTime(m, now) /\ Carries(o, m)
    BY <1>0, AlvAssumed DEF OnTime, AlvMessage, o
  <2>2. OnItsWay(o, Append(link[o], m), now)
    BY <1>0, <2>1, OnItsWayAppend DEF AlvIInv
  <2>3. OnItsWay(o, link'[o], now)
    BY <1>b, <2>2
  <2>4. OnItsWay(s, link'[s], now)
    BY <1>b DEF AlvIInv
  <2> QED
    BY <1>0, <2>3, <2>4
<1>5. ASSUME NEW r \in Alive!Side PROVE OnItsWay(r, link[r], now)'
  BY <1>4, OnItsWayKept
<1> QED
  BY <1>1, <1>2, <1>3, <1>5 DEF AlvIInv, AlvRead

(* s hears the first message of its link, and answers a keep-alive.        *)
AlvHeard(s, m) ==
  /\ link[s] # <<>> /\ m = Head(link[s])
  /\ m_lstRecvTime' = [m_lstRecvTime EXCEPT ![s] = Clock(s, now)]
  /\ IF m.cmd = "Keep_Alive"
       THEN /\ link' = [[link EXCEPT ![s] = Tail(@)] EXCEPT ![Alive!Other(s)] =
                          Append(@, [cmd |-> "Keep_Alive_Ack", time |-> m.time, at |-> m.at, sent |-> now])]
            /\ m_lstSendTime' = [m_lstSendTime EXCEPT ![s] = Clock(s, now)]
            /\ sentAt' = [sentAt EXCEPT ![s] = now]
       ELSE /\ link' = [link EXCEPT ![s] = Tail(@)]
            /\ UNCHANGED <<m_lstSendTime, sentAt>>
  /\ IF m.cmd = "Keep_Alive_Ack"
       THEN /\ m_rtt' = [m_rtt EXCEPT ![s] = Alive!Minus(Clock(s, now), m.time)]
            /\ trip' = [trip EXCEPT ![s] = now - m.at]
       ELSE UNCHANGED <<m_rtt, trip>>
  /\ UNCHANGED <<now, offset, processed, read>>

LEMMA AlvReceives ==
  ASSUME NEW single \in BOOLEAN, AlvIInv(single), NEW s \in Alive!Side,
         AlvHeard(s, Head(link[s]))
  PROVE  AlvIInv(single)'
<1> DEFINE o == Alive!Other(s)  m == Head(link[s])
           ack == [cmd |-> "Keep_Alive_Ack", time |-> m.time, at |-> m.at, sent |-> now]
<1>0. /\ o \in Alive!Side /\ o # s /\ Alive!Other(o) = s /\ now \in Nat
      /\ \A r \in Alive!Side : r = s \/ r = o
  BY AlvSide DEF AlvIInv, AlvTypes
<1>a. AlvTypes
  BY DEF AlvIInv
<1>b. /\ OnItsWay(s, Tail(link[s]), now) /\ m \in AlvMessage /\ OnTime(m, now) /\ Carries(s, m)
  BY OnItsWayTail DEF AlvIInv, AlvHeard
<1>c. /\ m.cmd \in Alive!Command /\ m.time \in 0..(Word - 1) /\ m.at \in Nat /\ m.sent \in Nat
      /\ m.at <= m.sent /\ m.sent <= now /\ now <= m.sent + Delay
  BY <1>b DEF AlvMessage, OnTime
<1>d. ack \in AlvMessage
  BY <1>0, <1>c DEF AlvMessage, Alive!Command
<1>e. Clock(s, now) \in 0..(Word - 1)
  BY <1>0, <1>a, AlvClock DEF AlvTypes
<1>f. /\ m_lstRecvTime' = [m_lstRecvTime EXCEPT ![s] = Clock(s, now)]
      /\ UNCHANGED <<now, offset, processed, read>>
  BY DEF AlvHeard
<1>g. /\ link'[s] = Tail(link[s])
      /\ link'[o] = IF m.cmd = "Keep_Alive" THEN Append(link[o], ack) ELSE link[o]
      /\ link' \in [Alive!Side -> Seq(AlvMessage)]
  <2>1. link \in [Alive!Side -> Seq(AlvMessage)] /\ Tail(link[s]) \in Seq(AlvMessage)
    BY <1>a, <1>b DEF AlvTypes, OnItsWay
  <2>2. Append(link[o], ack) \in Seq(AlvMessage)
    BY <1>0, <1>d, <2>1, AppendProperties
  <2>3. \/ /\ m.cmd = "Keep_Alive"
           /\ link' = [[link EXCEPT ![s] = Tail(link[s])] EXCEPT ![o] = Append(link[o], ack)]
        \/ m.cmd # "Keep_Alive" /\ link' = [link EXCEPT ![s] = Tail(link[s])]
    BY <1>0, <2>1 DEF AlvHeard
  <2> HIDE DEF ack, o, m
  <2> QED
    BY <1>0, <2>1, <2>2, <2>3
<1>h. /\ sentAt'[s] = IF m.cmd = "Keep_Alive" THEN now ELSE sentAt[s]
      /\ m_lstSendTime'[s] = IF m.cmd = "Keep_Alive" THEN Clock(s, now) ELSE m_lstSendTime[s]
      /\ sentAt'[o] = sentAt[o] /\ m_lstSendTime'[o] = m_lstSendTime[o]
      /\ sentAt' \in [Alive!Side -> 0..now] /\ m_lstSendTime' \in [Alive!Side -> 0..(Word - 1)]
  <2>1. \/ /\ m.cmd = "Keep_Alive" /\ sentAt' = [sentAt EXCEPT ![s] = now]
           /\ m_lstSendTime' = [m_lstSendTime EXCEPT ![s] = Clock(s, now)]
        \/ m.cmd # "Keep_Alive" /\ UNCHANGED <<sentAt, m_lstSendTime>>
    BY DEF AlvHeard
  <2>2. /\ sentAt \in [Alive!Side -> 0..now] /\ m_lstSendTime \in [Alive!Side -> 0..(Word - 1)]
        /\ now \in 0..now
    BY <1>a DEF AlvTypes
  <2> HIDE DEF ack, o, m
  <2>3. CASE m.cmd = "Keep_Alive"
    <3>1. /\ sentAt' = [sentAt EXCEPT ![s] = now]
          /\ m_lstSendTime' = [m_lstSendTime EXCEPT ![s] = Clock(s, now)]
      BY <2>1, <2>3
    <3> QED
      BY <1>0, <1>e, <2>2, <2>3, <3>1
  <2>4. CASE m.cmd # "Keep_Alive"
    BY <2>1, <2>2, <2>4
  <2> QED
    BY <2>3, <2>4
<1>i. m_rtt' = trip' /\ trip' \in [Alive!Side -> 0..now] /\ m_rtt' \in [Alive!Side -> 0..(Word - 1)]
  <2>1. CASE m.cmd = "Keep_Alive_Ack"
    <3>1. m.time = Clock(s, m.at) /\ now - m.at <= 2 * Delay
      BY <1>0, <1>b, <1>c, <2>1, AlvAssumed DEF Carries
    <3>2. m.at \in 0..now /\ now - m.at < Word /\ now - m.at \in 0..(Word - 1) /\ now - m.at \in 0..now
      BY <1>0, <1>c, <3>1, AlvAssumed
    <3>3. Alive!Minus(Clock(s, now), m.time) = now - m.at
      <4> DEFINE at0 == m.at
      <4>1. at0 \in 0..now /\ now - at0 < Word /\ offset \in [Alive!Side -> 0..(Word - 1)]
        BY <1>a, <3>2 DEF AlvTypes
      <4> HIDE DEF at0
      <4>2. Alive!Minus(Clock(s, now), Clock(s, at0)) = now - at0
        BY <1>0, <4>1, AlvClock
      <4> QED
        BY <3>1, <4>2 DEF at0
    <3>4. /\ m_rtt' = [m_rtt EXCEPT ![s] = now - m.at]
          /\ trip' = [trip EXCEPT ![s] = now - m.at]
      BY <2>1, <3>3 DEF AlvHeard
    <3> HIDE DEF m, o, ack
    <3> QED
      BY <1>0, <1>a, <3>2, <3>4 DEF AlvTypes
  <2>2. CASE m.cmd # "Keep_Alive_Ack"
    BY <1>a, <2>2 DEF AlvHeard, AlvTypes
  <2> QED
    BY <2>1, <2>2
<1> HIDE DEF m, o, ack
<1>1. AlvTypes'
  BY <1>a, <1>e, <1>f, <1>g, <1>h, <1>i DEF AlvTypes
<1>2. AlvSends'
  <2>1. Gap(s, processed, read) \in Nat
    BY AlvAssumed DEF Gap
  <2>2. \A r \in Alive!Side :
          m_lstSendTime[r] = Clock(r, sentAt[r]) /\ now <= sentAt[r] + Gap(r, processed, read)
    BY DEF AlvIInv, AlvSends
  <2>3. \A r \in Alive!Side :
          m_lstSendTime'[r] = Clock(r, sentAt'[r]) /\ now <= sentAt'[r] + Gap(r, processed, read)
    BY <1>0, <1>h, <2>1, <2>2
  <2> QED
    BY <1>f, <2>3 DEF AlvSends, Clock, Gap
<1>3. AlvHears(single)'
  <2>1. PICK heard \in [Alive!Side -> Nat] : \A r \in Alive!Side :
               /\ HeardAt(r, m_lstRecvTime[r], heard[r])
               /\ Follows(link[r], heard[r], sentAt[Alive!Other(r)], Longest(single))
    BY DEF AlvIInv, AlvHears
  <2>a. PICK later : later = [heard EXCEPT ![s] = now]
    OBVIOUS
  <2>2. later \in [Alive!Side -> Nat] /\ later[s] = now /\ later[o] = heard[o]
    BY <1>0, <2>a
  <2>3. ASSUME NEW r \in Alive!Side PROVE (HeardAt(r, m_lstRecvTime[r], later[r]))'
    <3>1. now \in 0..now /\ m_lstRecvTime'[s] = Clock(s, now) /\ m_lstRecvTime'[o] = m_lstRecvTime[o]
      BY <1>0, <1>a, <1>f DEF AlvTypes
    <3>2. heard[o] \in 0..now /\ m_lstRecvTime[o] = Clock(o, heard[o])
      BY <1>0, <2>1 DEF HeardAt
    <3>3. later[r] \in 0..now /\ m_lstRecvTime'[r] = Clock(r, later[r])
      BY <1>0, <2>2, <3>1, <3>2
    <3> QED
      BY <1>f, <3>3 DEF HeardAt, Clock
  <2>4. Longest(single) \in Nat /\ now <= sentAt[s] + Longest(single)
        /\ sentAt[s] \in Nat /\ sentAt[o] \in 0..now
    BY <1>0, AlvGap
  <2>5. Follows(link'[s], later[s], sentAt'[o], Longest(single))
    <3>1. ASSUME Tail(link[s]) # <<>> PROVE Tail(link[s])[1].sent <= now + Longest(single)
      <4>1. Tail(link[s]) \in Seq(AlvMessage) /\ Len(Tail(link[s])) \in Nat /\ Len(Tail(link[s])) >= 1
        BY <1>b, <3>1, EmptySeq DEF OnItsWay
      <4>2. Tail(link[s])[1] \in AlvMessage /\ OnTime(Tail(link[s])[1], now)
        <5>1. 1 \in 1..Len(Tail(link[s]))
          BY <4>1
        <5>2. OnTime(Tail(link[s])[1], now)
          <6>1. \A k \in 1..Len(Tail(link[s])) : OnTime(Tail(link[s])[k], now)
            BY <1>b DEF OnItsWay
          <6> QED
            BY <5>1, <6>1
        <5>3. Tail(link[s])[1] \in AlvMessage
          BY <4>1, <5>1, ElementOfSeq
        <5> QED
          BY <5>2, <5>3
      <4>3. Tail(link[s])[1].sent \in Nat /\ Tail(link[s])[1].sent <= now
        BY <4>2 DEF OnTime, AlvMessage
      <4> QED
        <5>1. \A x, y, z \in Nat : x <= y => x <= y + z
          OBVIOUS
        <5> QED
          BY <1>0, <2>4, <4>3, <5>1
    <3> QED
      BY <1>0, <1>g, <1>h, <2>2, <2>4, <3>1 DEF Follows
  <2>6. Follows(link'[o], later[o], sentAt'[s], Longest(single))
    <3>1. Follows(link[o], heard[o], sentAt[s], Longest(single))
      BY <1>0, <2>1
    <3>2. CASE m.cmd = "Keep_Alive"
      <4>1. link[o] \in Seq(AlvMessage) /\ heard[o] \in Nat /\ ack.sent = now
        BY <1>0, <1>a DEF AlvTypes, ack
      <4>2. Follows(Append(link[o], ack), heard[o], now, Longest(single))
        BY <1>d, <2>4, <3>1, <4>1, FollowsAppend
      <4> QED
        BY <1>g, <1>h, <2>2, <3>2, <4>2
    <3>3. CASE m.cmd # "Keep_Alive"
      BY <1>g, <1>h, <2>2, <3>1, <3>3
    <3> QED
      BY <3>2, <3>3
  <2>7. ASSUME NEW r \in Alive!Side
        PROVE  (Follows(link[r], later[r], sentAt[Alive!Other(r)], Longest(single)))'
    <3>1. Follows(link'[r], later[r], sentAt'[Alive!Other(r)], Longest(single))
      BY <1>0, <2>5, <2>6 DEF o
    <3> QED
      BY <3>1 DEF Follows, Longest, Alive!Other
  <2> QED
    BY <2>2, <2>3, <2>7 DEF AlvHears
<1>4. \A r \in Alive!Side : OnItsWay(r, link'[r], now)
  <2>1. OnItsWay(s, link'[s], now)
    BY <1>b, <1>g
  <2>2. OnItsWay(o, link[o], now)
    BY <1>0 DEF AlvIInv
  <2>3. CASE m.cmd = "Keep_Alive"
    <3>1. OnTime(ack, now)
      BY <1>0, <1>c, AlvAssumed DEF OnTime, ack
    <3>2. ack.cmd = "Keep_Alive_Ack" /\ ack.sent = now /\ ack.at = m.at /\ ack.time = m.time
      BY DEF ack
    <3>3. m.sent = m.at /\ m.time = Clock(o, m.at)
      BY <1>b, <2>3 DEF Carries, o
    <3>4. Carries(o, ack)
      BY <1>c, <3>2, <3>3 DEF Carries
    <3> QED
      BY <1>0, <1>d, <1>g, <2>1, <2>2, <2>3, <3>1, <3>4, OnItsWayAppend
  <2>4. CASE m.cmd # "Keep_Alive"
    BY <1>0, <1>g, <2>1, <2>2, <2>4
  <2> QED
    BY <2>3, <2>4
<1>5. ASSUME NEW r \in Alive!Side PROVE OnItsWay(r, link[r], now)'
  BY <1>4, <1>f, OnItsWayKept
<1>6. AlvRead(single)'
  BY <1>f DEF AlvIInv, AlvRead, ReadAt, Clock
<1> QED
  BY <1>1, <1>2, <1>3, <1>5, <1>6 DEF AlvIInv, AlvRead

AlvAlive(s) == [cmd |-> "Keep_Alive", time |-> Clock(s, now), at |-> now, sent |-> now]
AlvOther(s) == [cmd |-> "other", time |-> 0, at |-> now, sent |-> now]

AlvFrame(s) ==
  /\ s \notin processed /\ processed' = processed \cup {s} /\ UNCHANGED read
  /\ IF Alive!Quiet(s, Clock(s, now)) THEN AlvSay(s, AlvAlive(s))
     ELSE UNCHANGED <<link, m_lstSendTime, sentAt>>
  /\ UNCHANGED <<now, offset, m_lstRecvTime, m_rtt, trip>>

AlvCalls(s) ==
  /\ AlvSay(s, AlvOther(s))
  /\ UNCHANGED <<now, offset, m_lstRecvTime, m_rtt, processed, read, trip>>

LEMMA AlvSaid ==
  ASSUME NEW single \in BOOLEAN, AlvIInv(single), NEW s \in Alive!Side, NEW m,
         m = AlvAlive(s) \/ m = AlvOther(s), AlvSay(s, m),
         UNCHANGED <<now, offset, m_lstRecvTime, m_rtt, trip>>,
         processed' \subseteq Alive!Side, read' \in 0..Word, AlvRead(single)',
         Gap(Alive!Other(s), processed', read') = Gap(Alive!Other(s), processed, read)
  PROVE  AlvIInv(single)'
<1>1. now \in Nat /\ Clock(s, now) \in 0..(Word - 1) /\ 0 \in 0..(Word - 1)
  BY AlvClock, AlvAssumed DEF AlvIInv, AlvTypes
<1>2. m \in AlvMessage /\ m.sent = now /\ m.at = now
  BY <1>1 DEF AlvAlive, AlvOther, AlvMessage, Alive!Command
<1>3. Carries(Alive!Other(s), m)
  BY AlvSide DEF Carries, AlvAlive, AlvOther
<1>4. m.at <= now
  BY <1>1, <1>2
<1> QED
  BY <1>2, <1>3, <1>4, AlvPut

(* Without a wrap in between, quiet is quiet.                              *)
LEMMA AlvQuiet ==
  ASSUME NEW single \in BOOLEAN, AlvIInv(single), NEW s \in Alive!Side, NEW t \in Nat,
         sentAt[s] <= t, t <= now
  PROVE  Alive!Quiet(s, Clock(s, t)) <=> t - sentAt[s] > Interval
<1>1. sentAt[s] \in 0..now /\ now \in Nat /\ now - sentAt[s] < Word
  BY AlvGap
<1>2. m_lstSendTime[s] = Clock(s, sentAt[s]) /\ offset \in [Alive!Side -> 0..(Word - 1)]
  BY DEF AlvIInv, AlvSends, AlvTypes
<1>3. sentAt[s] \in 0..t /\ t - sentAt[s] < Word
  BY <1>1, AlvAssumed
<1>4. Alive!Minus(Clock(s, t), Clock(s, sentAt[s])) = t - sentAt[s]
  BY <1>2, <1>3, AlvClock
<1> QED
  BY <1>2, <1>4 DEF Alive!Quiet

LEMMA AlvFrames ==
  ASSUME NEW single \in BOOLEAN, AlvIInv(single), NEW s \in Alive!Side,
         s = "client" => single, AlvFrame(s)
  PROVE  AlvIInv(single)'
<1>1. /\ processed' = processed \cup {s} /\ processed' \subseteq Alive!Side
      /\ read' = read /\ read' \in 0..Word /\ UNCHANGED <<now, offset>>
  BY DEF AlvFrame, AlvIInv, AlvTypes
<1>2. AlvRead(single)'
  <2>1. CASE single
    BY <1>1, <2>1 DEF AlvIInv, AlvRead
  <2>2. CASE ~single
    <3>1. "client" \in processed' <=> "client" \in processed
      BY <1>1, <2>2
    <3> QED
      BY <1>1, <2>2, <3>1 DEF AlvIInv, AlvRead, ReadAt, Clock
  <2> QED
    BY <2>1, <2>2
<1>3. Gap(Alive!Other(s), processed', read') = Gap(Alive!Other(s), processed, read)
  BY <1>1, AlvSide DEF Gap
<1>4. CASE Alive!Quiet(s, Clock(s, now))
  BY <1>1, <1>2, <1>3, <1>4, AlvSaid DEF AlvFrame
<1>5. CASE ~Alive!Quiet(s, Clock(s, now))
  <2>1. sentAt[s] \in 0..now /\ now \in Nat
    BY AlvGap
  <2>2. now - sentAt[s] <= Interval
    BY <1>5, <2>1, AlvQuiet, AlvAssumed
  <2>3. Gap(s, processed', read') >= Interval /\ Gap(s, processed', read') \in Nat
    BY AlvAssumed DEF Gap
  <2>4. now <= sentAt[s] + Gap(s, processed', read')
    BY <2>1, <2>2, <2>3, AlvAssumed
  <2>5. \A r \in Alive!Side : now <= sentAt[r] + Gap(r, processed', read')
    BY <1>3, <2>4 DEF AlvIInv, AlvSends, Alive!Side, Alive!Other
  <2> QED
    BY <1>1, <1>2, <1>5, <2>5, AlvQuietStep DEF AlvFrame
<1> QED
  BY <1>4, <1>5

LEMMA AlvCallsRight ==
  ASSUME NEW single \in BOOLEAN, AlvIInv(single), NEW s \in Alive!Side, AlvCalls(s)
  PROVE  AlvIInv(single)'
<1>1. UNCHANGED <<now, offset, processed, read>>
  BY DEF AlvCalls
<1>2. AlvRead(single)'
  BY <1>1 DEF AlvIInv, AlvRead, ReadAt, Clock
<1>3. processed' \subseteq Alive!Side /\ read' \in 0..Word
  BY <1>1 DEF AlvIInv, AlvTypes
<1> QED
  BY <1>1, <1>2, <1>3, AlvSaid DEF AlvCalls

(* FixedUpdate in two steps.                                               *)
LEMMA AlvReadsClock ==
  ASSUME AlvIInv(FALSE), AliveThreads!ReadClock
  PROVE  AlvIInv(FALSE)'
<1>1. /\ "client" \notin processed /\ read = Word /\ read' = Clock("client", now)
      /\ processed' = processed \cup {"client"}
      /\ UNCHANGED <<now, offset, m_lstSendTime, m_lstRecvTime, m_rtt, link, sentAt, trip>>
  BY DEF AliveThreads!ReadClock, AliveThreads!GetTickCount, Clock
<1>2. now \in Nat /\ Clock("client", now) \in 0..(Word - 1) /\ Word \in Nat
  BY AlvClock, AlvSide, AlvAssumed DEF AlvIInv, AlvTypes
<1>3. processed' \subseteq Alive!Side /\ read' \in 0..Word /\ read' # Word
  BY <1>1, <1>2, AlvSide DEF AlvIInv, AlvTypes
<1>4. ReadAt(now)'
  BY <1>1, <1>2 DEF ReadAt, Clock
<1>5. AlvRead(FALSE)'
  <2>1. PICK t \in Nat : t = now'
    BY <1>1, <1>2
  <2>2. ReadAt(t)'
    BY <1>1, <1>2, <2>1 DEF ReadAt, Clock
  <2> QED
    BY <2>2 DEF AlvRead
<1>6. \A s \in Alive!Side : Gap(s, processed', read') = Gap(s, processed, read)
  BY <1>1, <1>3, AlvSide, AlvAssumed DEF Gap
<1> QED
  BY <1>1, <1>3, <1>5, <1>6, AlvQuietStep DEF AlvIInv, AlvSends

LEMMA AlvUpdates ==
  ASSUME AlvIInv(FALSE), AliveThreads!FixedUpdate
  PROVE  AlvIInv(FALSE)'
<1>1. /\ read # Word /\ read' = Word /\ UNCHANGED <<now, offset, m_lstRecvTime, m_rtt, processed, trip>>
      /\ \/ AlvSay("client", AlvAlive("client"))
         \/ ~Alive!Quiet("client", read) /\ UNCHANGED <<link, m_lstSendTime, sentAt>>
  BY DEF AliveThreads!FixedUpdate, AliveThreads!Sends, AliveThreads!Noted, AliveThreads!Other,
     AliveThreads!GetTickCount, AliveThreads!Quiet, AliveThreads!Minus, AlvSay, AlvAlive, Clock,
     Alive!Other, Alive!Quiet, Alive!Minus
<1>2. Word \in Nat /\ "client" \in Alive!Side /\ Alive!Other("client") = "server"
  BY AlvAssumed DEF Alive!Side, Alive!Other
<1>3. processed' \subseteq Alive!Side /\ read' \in 0..Word /\ AlvRead(FALSE)'
  BY <1>1, <1>2 DEF AlvIInv, AlvTypes, AlvRead
<1>4. Gap("server", processed', read') = Gap("server", processed, read)
  BY <1>1 DEF Gap
<1>5. CASE AlvSay("client", AlvAlive("client"))
  BY <1>1, <1>2, <1>3, <1>4, <1>5, AlvSaid
<1>6. CASE ~Alive!Quiet("client", read) /\ UNCHANGED <<link, m_lstSendTime, sentAt>>
  <2>1. PICK t \in Nat : ReadAt(t)
    BY <1>1 DEF AlvIInv
  <2>2. sentAt["client"] \in 0..now /\ now \in Nat
    BY <1>2, AlvGap
  <2>3. t <= now /\ now <= t + 1 /\ ("client" \in processed => t = now)
        /\ read = Clock("client", t)
    BY <2>1, <2>2 DEF ReadAt
  <2>4. sentAt["client"] <= t => t - sentAt["client"] <= Interval
    <3> SUFFICES ASSUME sentAt["client"] <= t PROVE t - sentAt["client"] <= Interval
      OBVIOUS
    <3>1. Alive!Quiet("client", Clock("client", t)) <=> t - sentAt["client"] > Interval
      BY <1>2, <2>3, AlvQuiet
    <3> QED
      BY <1>6, <2>2, <2>3, <3>1, AlvAssumed
  <2>5. Gap("client", processed', read') = Interval + (IF "client" \in processed THEN 0 ELSE 1)
    BY <1>1, AlvAssumed DEF Gap
  <2>6. now <= sentAt["client"] + Gap("client", processed', read')
    BY <2>2, <2>3, <2>4, <2>5, AlvAssumed
  <2>7. \A s \in Alive!Side : now <= sentAt[s] + Gap(s, processed', read')
    BY <1>4, <2>6 DEF AlvIInv, AlvSends, Alive!Side
  <2> QED
    BY <1>1, <1>3, <1>6, <2>7, AlvQuietStep
<1> QED
  BY <1>1, <1>5, <1>6

-----------------------------------------------------------------------------
(* The two instances.                                                      *)

LEMMA AlvSteps ==
  ASSUME Alive!Next
  PROVE  \/ AlvTicks /\ now < MaxTime
         \/ read # Word
         \/ \E s \in Alive!Side : AlvFrame(s) \/ AlvCalls(s) \/ AlvHeard(s, Head(link[s]))
<1>1. CASE Alive!Tick
  BY <1>1 DEF Alive!Tick, AlvTicks
<1>2. CASE Alive!ReadClock \/ Alive!FixedUpdate
  BY <1>2 DEF Alive!ReadClock, Alive!FixedUpdate
<1>3. ASSUME NEW s \in Alive!Side, Alive!Process(s) PROVE AlvFrame(s)
  BY <1>3 DEF Alive!Process, Alive!Sends, Alive!Noted, Alive!GetTickCount, AlvFrame, AlvSay,
     AlvAlive, Clock
<1>4. ASSUME NEW s \in Alive!Side, Alive!SendOther(s) PROVE AlvCalls(s)
  BY <1>4 DEF Alive!SendOther, Alive!Sends, Alive!Noted, Alive!GetTickCount, AlvCalls, AlvSay,
     AlvOther, Clock
<1>5. ASSUME NEW s \in Alive!Side, Alive!Receive(s) PROVE AlvHeard(s, Head(link[s]))
  BY <1>5 DEF Alive!Receive, Alive!Sends, Alive!Noted, Alive!Heard, Alive!Echoed,
     Alive!GetTickCount, AlvHeard, Clock
<1> QED
  BY <1>1, <1>2, <1>3, <1>4, <1>5 DEF Alive!Next

LEMMA AlvThreadSteps ==
  ASSUME AliveThreads!Next
  PROVE  \/ AlvTicks \/ AliveThreads!ReadClock \/ AliveThreads!FixedUpdate
         \/ AlvFrame("server")
         \/ \E s \in Alive!Side : AlvCalls(s) \/ AlvHeard(s, Head(link[s]))
<1>0. AliveThreads!Side = Alive!Side
  BY DEF Alive!Side, AliveThreads!Side
<1>1. CASE AliveThreads!Tick
  BY <1>0, <1>1 DEF AliveThreads!Tick, AlvTicks
<1>2. ASSUME NEW s \in Alive!Side, AliveThreads!Process(s) PROVE AlvFrame("server")
  <2>1. s = "server"
    BY <1>2 DEF AliveThreads!Process, Alive!Side
  <2> QED
    BY <1>2, <2>1 DEF AliveThreads!Process, AliveThreads!Sends, AliveThreads!Noted,
       AliveThreads!GetTickCount, AliveThreads!Quiet, AliveThreads!Minus, AliveThreads!Other,
       AlvFrame, AlvSay, AlvAlive, Clock, Alive!Quiet, Alive!Minus, Alive!Other
<1>3. ASSUME NEW s \in Alive!Side, AliveThreads!SendOther(s) PROVE AlvCalls(s)
  BY <1>3 DEF AliveThreads!SendOther, AliveThreads!Sends, AliveThreads!Noted,
     AliveThreads!GetTickCount, AliveThreads!Other, AlvCalls, AlvSay, AlvOther, Clock, Alive!Other
<1>4. ASSUME NEW s \in Alive!Side, AliveThreads!Receive(s) PROVE AlvHeard(s, Head(link[s]))
  BY <1>4 DEF AliveThreads!Receive, AliveThreads!Sends, AliveThreads!Noted, AliveThreads!Heard,
     AliveThreads!Echoed, AliveThreads!GetTickCount, AliveThreads!Minus, AliveThreads!Other,
     AlvHeard, Clock, Alive!Minus, Alive!Other
<1> QED
  BY <1>0, <1>1, <1>2, <1>3, <1>4 DEF AliveThreads!Next

LEMMA AlvStep ==
  /\ AlvIInv(TRUE) /\ Alive!Next => AlvIInv(TRUE)'
  /\ AlvIInv(FALSE) /\ AliveThreads!Next => AlvIInv(FALSE)'
<1>1. ASSUME AlvIInv(TRUE), Alive!Next PROVE AlvIInv(TRUE)'
  <2>1. read = Word
    BY <1>1 DEF AlvIInv
  <2> QED
    BY <1>1, <2>1, AlvSteps, AlvTick, AlvFrames, AlvCallsRight, AlvReceives
<1>2. ASSUME AlvIInv(FALSE), AliveThreads!Next PROVE AlvIInv(FALSE)'
  <2>1. "server" \in Alive!Side /\ "server" # "client"
    BY DEF Alive!Side
  <2> QED
    BY <1>2, <2>1, AlvThreadSteps, AlvTick, AlvFrames, AlvCallsRight, AlvReceives,
       AlvReadsClock, AlvUpdates
<1> QED
  BY <1>1, <1>2

LEMMA AlvInit ==
  (Alive!Init => AlvIInv(TRUE)) /\ (AliveThreads!Init => AlvIInv(FALSE))
<1> DEFINE Starts == /\ now = 0 /\ offset \in [Alive!Side -> 0..(Word - 1)]
                     /\ m_lstSendTime = [s \in Alive!Side |-> Clock(s, 0)]
                     /\ m_lstRecvTime = [s \in Alive!Side |-> Clock(s, 0)]
                     /\ m_rtt = [s \in Alive!Side |-> 0] /\ trip = [s \in Alive!Side |-> 0]
                     /\ link = [s \in Alive!Side |-> <<>>]
                     /\ processed = {} /\ read = Word
                     /\ sentAt = [s \in Alive!Side |-> 0]
<1>1. Alive!Init => Starts
  BY AlvAssumed DEF Alive!Init, Alive!GetTickCount, Clock
<1>2. AliveThreads!Init => Starts
  BY AlvAssumed DEF AliveThreads!Init, AliveThreads!GetTickCount, AliveThreads!Side, Alive!Side, Clock
<1>3. ASSUME NEW single \in BOOLEAN, Starts PROVE AlvIInv(single)
  <2>1. Word \in Nat \ {0} /\ Interval \in Nat /\ Longest(single) \in Nat
    BY AlvAssumed
  <2>2. \A s \in Alive!Side : Clock(s, 0) \in 0..(Word - 1)
    BY <1>3, AlvClock
  <2>3. AlvTypes
    BY <1>3, <2>1, <2>2, EmptySeq DEF AlvTypes
  <2>4. AlvSends
    <3>1. \A s \in Alive!Side : Gap(s, processed, read) \in Nat
      BY <2>1 DEF Gap
    <3> QED
      BY <1>3, <3>1 DEF AlvSends
  <2>5. AlvHears(single)
    <3>1. PICK heard : heard = [s \in Alive!Side |-> 0]
      OBVIOUS
    <3>2. heard \in [Alive!Side -> Nat] /\ \A s \in Alive!Side : heard[s] = 0
      BY <3>1
    <3>3. ASSUME NEW s \in Alive!Side
          PROVE  /\ HeardAt(s, m_lstRecvTime[s], heard[s])
                 /\ Follows(link[s], heard[s], sentAt[Alive!Other(s)], Longest(single))
      BY <1>3, <3>2, AlvSide DEF HeardAt, Follows
    <3> QED
      BY <3>2, <3>3 DEF AlvHears
  <2>6. \A s \in Alive!Side : OnItsWay(s, link[s], now)
    BY <1>3, EmptySeq DEF OnItsWay
  <2> QED
    BY <1>3, <2>3, <2>4, <2>5, <2>6 DEF AlvIInv
<1> QED
  BY <1>1, <1>2, <1>3

(* No side is silent for as long as the timeout.                           *)
LEMMA AlvNeverDead ==
  ASSUME NEW single \in BOOLEAN, AlvIInv(single), NEW s \in Alive!Side
  PROVE  Alive!Minus(Clock(s, now), m_lstRecvTime[s]) <= Timeout
<1>1. PICK heard \in [Alive!Side -> Nat] : \A r \in Alive!Side :
             /\ HeardAt(r, m_lstRecvTime[r], heard[r])
             /\ Follows(link[r], heard[r], sentAt[Alive!Other(r)], Longest(single))
  BY DEF AlvIInv, AlvHears
<1> DEFINE h == heard[s]  o == Alive!Other(s)
<1>2. /\ h \in 0..now /\ now \in Nat /\ m_lstRecvTime[s] = Clock(s, h)
      /\ Follows(link[s], h, sentAt[o], Longest(single))
  BY <1>1 DEF HeardAt, AlvIInv, AlvTypes
<1>3. /\ Longest(single) \in Nat /\ now <= sentAt[o] + Longest(single) /\ sentAt[o] \in 0..now
  BY AlvSide, AlvGap
<1>4. Timeout >= Longest(single) + Delay /\ Timeout \in Nat /\ Delay \in Nat /\ Timeout < Word
  BY AlvAssumed
<1> HIDE DEF h, o
<1>5. now - h <= Timeout
  <2>1. CASE link[s] = <<>>
    BY <1>2, <1>3, <1>4, <2>1 DEF Follows
  <2>2. CASE link[s] # <<>>
    <3>1. link[s] \in Seq(AlvMessage) /\ Len(link[s]) \in Nat /\ Len(link[s]) >= 1
      BY <2>2, EmptySeq DEF AlvIInv, OnItsWay
    <3>2. link[s][1] \in AlvMessage /\ OnTime(link[s][1], now)
      BY <3>1, ElementOfSeq DEF AlvIInv, OnItsWay
    <3>3. link[s][1].sent \in Nat /\ now <= link[s][1].sent + Delay
      BY <3>2 DEF AlvMessage, OnTime
    <3>4. link[s][1].sent <= h + Longest(single)
      BY <1>2, <2>2 DEF Follows
    <3> QED
      BY <1>2, <1>3, <1>4, <3>3, <3>4
  <2> QED
    BY <2>1, <2>2
<1>6. Alive!Minus(Clock(s, now), Clock(s, h)) = now - h
  <2>1. offset \in [Alive!Side -> 0..(Word - 1)]
    BY DEF AlvIInv, AlvTypes
  <2>2. now - h < Word
    BY <1>2, <1>4, <1>5, AlvAssumed
  <2> QED
    BY <1>2, <2>1, <2>2, AlvClock
<1> QED
  BY <1>2, <1>5, <1>6

(* A keep-alive comes after a quiet interval.                              *)
LEMMA AlvAfterQuiet == AlvIInv(TRUE) /\ Alive!Next => Alive!SentAfterQuiet
<1> SUFFICES ASSUME AlvIInv(TRUE), Alive!Next, NEW r \in Alive!Side,
                    Len(link'[Alive!Other(r)]) > Len(link[Alive!Other(r)]),
                    link'[Alive!Other(r)][Len(link'[Alive!Other(r)])].cmd = "Keep_Alive"
             PROVE  now - sentAt[r] > Interval
  BY DEF Alive!SentAfterQuiet
<1> DEFINE o == Alive!Other(r)
<1>0. /\ o \in Alive!Side /\ link \in [Alive!Side -> Seq(AlvMessage)] /\ read = Word
      /\ sentAt[r] \in 0..now /\ now \in Nat
      /\ \A s \in Alive!Side : Alive!Other(s) = o => s = r
  BY AlvSide DEF AlvIInv, AlvTypes
<1>1. Len(link[o]) \in Nat
  BY <1>0, LenProperties
<1>2. link'[o] # link[o]
  BY <1>1
<1>3. ASSUME NEW s \in Alive!Side, NEW m, AlvSay(s, m)
      PROVE  s = r /\ m.cmd = "Keep_Alive"
  <2>1. s = r
    BY <1>0, <1>2, <1>3 DEF AlvSay
  <2>2. link'[o] = Append(link[o], m)
    BY <1>0, <1>3, <2>1 DEF AlvSay
  <2>3. Append(link[o], m)[Len(Append(link[o], m))] = m
    BY <1>0
  <2> QED
    BY <2>1, <2>2, <2>3
<1>4. ASSUME NEW s \in Alive!Side, AlvFrame(s) PROVE now - sentAt[r] > Interval
  <2>1. Alive!Quiet(s, Clock(s, now)) /\ s = r
    BY <1>2, <1>3, <1>4 DEF AlvFrame
  <2> QED
    <3>1. sentAt[r] <= now /\ now <= now
      BY <1>0
    <3>2. Alive!Quiet(r, Clock(r, now)) <=> now - sentAt[r] > Interval
      BY <1>0, <3>1, AlvQuiet
    <3> QED
      BY <2>1, <3>2
<1>5. ASSUME NEW s \in Alive!Side, AlvCalls(s) PROVE FALSE
  BY <1>3, <1>5 DEF AlvCalls, AlvOther
<1>6. ASSUME NEW s \in Alive!Side, AlvHeard(s, Head(link[s])) PROVE FALSE
  <2> DEFINE m == Head(link[s])
             ack == [cmd |-> "Keep_Alive_Ack", time |-> m.time, at |-> m.at, sent |-> now]
  <2>1. link[s] # <<>> /\ Alive!Other(s) # s /\ Alive!Other(s) \in Alive!Side
    BY <1>6, AlvSide DEF AlvHeard
  <2>2. Len(Tail(link[s])) = Len(link[s]) - 1
    BY <1>0, <2>1
  <2>3. link'[s] = Tail(link[s])
        /\ (link'[Alive!Other(s)] = link[Alive!Other(s)]
            \/ link'[Alive!Other(s)] = Append(link[Alive!Other(s)], ack))
    BY <1>0, <1>6, <2>1 DEF AlvHeard
  <2> HIDE DEF m, ack
  <2>4. o # s
    <3>1. Len(link[s]) \in Nat
      BY <1>0, LenProperties
    <3>2. ~(Len(link'[s]) > Len(link[s]))
      BY <2>2, <2>3, <3>1
    <3> QED
      BY <3>2
  <2>5. o = Alive!Other(s)
    BY <2>4 DEF Alive!Side, Alive!Other
  <2>6. link'[o] = Append(link[o], ack)
    BY <1>2, <2>3, <2>5
  <2>7. Append(link[o], ack)[Len(Append(link[o], ack))] = ack
    BY <1>0
  <2>8. ack.cmd = "Keep_Alive"
    BY <2>6, <2>7
  <2> QED
    BY <2>8 DEF ack
<1>7. ~AlvTicks
  BY <1>2 DEF AlvTicks
<1> QED
  BY <1>0, <1>4, <1>5, <1>6, <1>7, AlvSteps

LEMMA AlvIsRight ==
  /\ AlvIInv(TRUE) /\ now <= MaxTime /\ offset \in [Alive!Side -> Offset] =>
       Alive!TypeOK /\ Alive!NeverDead /\ Alive!RttIsTrip
  /\ AlvIInv(FALSE) => AliveThreads!NeverDead /\ AliveThreads!RttIsTrip
<1>1. ASSUME AlvIInv(TRUE), now <= MaxTime, offset \in [Alive!Side -> Offset]
      PROVE  Alive!TypeOK /\ Alive!NeverDead /\ Alive!RttIsTrip
  <2>1. Alive!NeverDead
    BY <1>1, AlvNeverDead DEF Alive!NeverDead, Alive!GetTickCount, Clock
  <2>2. ASSUME NEW s \in Alive!Side, NEW k \in DOMAIN link[s]
        PROVE  /\ link[s][k].cmd \in Alive!Command /\ link[s][k].time \in 0..(Word - 1)
               /\ {link[s][k].at, link[s][k].sent} \subseteq 0..now
    <3>1. link[s] \in Seq(AlvMessage) /\ k \in 1..Len(link[s]) /\ OnTime(link[s][k], now)
      BY <1>1 DEF AlvIInv, OnItsWay
    <3>2. link[s][k] \in AlvMessage
      BY <3>1, ElementOfSeq
    <3> QED
      BY <1>1, <3>1, <3>2 DEF AlvMessage, OnTime, AlvIInv, AlvTypes
  <2>3. AlvTypes /\ trip \in [Alive!Side -> 0..MaxTime] /\ now \in 0..MaxTime
    BY <1>1, AlvAssumed DEF AlvIInv, AlvTypes
  <2>4. Alive!TypeOK
    BY <1>1, <2>2, <2>3 DEF AlvTypes, Alive!TypeOK
  <2> QED
    BY <2>1, <2>3, <2>4 DEF AlvTypes, Alive!RttIsTrip
<1>2. ASSUME AlvIInv(FALSE) PROVE AliveThreads!NeverDead /\ AliveThreads!RttIsTrip
  <2>1. \A s \in Alive!Side : Alive!Minus(Clock(s, now), m_lstRecvTime[s]) <= Timeout
    BY <1>2, AlvNeverDead
  <2> QED
    BY <1>2, <2>1 DEF AliveThreads!NeverDead, AliveThreads!Side, Alive!Side, Clock, Alive!Minus,
       AliveThreads!Minus, AliveThreads!GetTickCount, AliveThreads!RttIsTrip, AlvIInv, AlvTypes
<1> QED
  BY <1>1, <1>2

-----------------------------------------------------------------------------
(* The keep-alive in the composition.                                      *)
KeepAliveIInv ==
  /\ moves = "alive" => AlvIInv(TRUE) /\ now <= MaxTime /\ offset \in [Alive!Side -> Offset]
  /\ moves = "alive_threads" => AlvIInv(FALSE)

LEMMA AlvUnchanged ==
  ASSUME UNCHANGED alive, NEW single \in BOOLEAN, AlvIInv(single)
  PROVE  AlvIInv(single)'
<1>1. AlvRead(single)'
  BY DEF alive, AlvIInv, AlvRead, ReadAt, Clock
<1>2. processed' \subseteq Alive!Side /\ read' \in 0..Word
      /\ \A s \in Alive!Side : now <= sentAt[s] + Gap(s, processed', read')
  BY DEF alive, AlvIInv, AlvTypes, AlvSends
<1> QED
  BY <1>1, <1>2, AlvQuietStep DEF alive

(* GHS_Player::process and recv, Client.FixedUpdate and RecvData: no side  *)
(* looks dead to the other as long as both live and the network delivers,  *)
(* also when the clocks wrap and when the client receives inside of        *)
(* FixedUpdate; m_rtt is the time between a keep-alive and its answer; and *)
(* without overlap a keep-alive is sent only after a quiet interval.       *)
THEOREM KeepAliveCorrect == Spec => KeepAliveTruthful
<1>1. Init => KeepAliveIInv
  <2> SUFFICES ASSUME Init PROVE KeepAliveIInv
    OBVIOUS
  <2>1. CASE moves = "alive"
    <3>1. Alive!Init
      BY <2>1 DEF Init
    <3>2. now <= MaxTime /\ offset \in [Alive!Side -> Offset]
      BY <3>1, AlvAssumed DEF Alive!Init
    <3> QED
      BY <2>1, <3>1, <3>2, AlvInit DEF KeepAliveIInv
  <2>2. CASE moves = "alive_threads"
    BY <2>2, AlvInit DEF KeepAliveIInv, Init
  <2> QED
    BY <2>1, <2>2 DEF KeepAliveIInv
<1>2. KeepAliveIInv /\ [Next]_vars
      => KeepAliveIInv' /\ [moves = "alive" => Alive!SentAfterQuiet]_alive
  <2> SUFFICES ASSUME KeepAliveIInv, [Next]_vars
               PROVE  KeepAliveIInv' /\ [moves = "alive" => Alive!SentAfterQuiet]_alive
    OBVIOUS
  <2>1. moves' = moves
    BY DEF Next, vars, SvrMoves, CliMoves, ThreadsMove, SelectMoves, PacketMoves, AliveMoves
  <2>2. (moves = "alive" /\ Alive!Next) \/ (moves = "alive_threads" /\ AliveThreads!Next)
        \/ UNCHANGED alive
    BY DEF Next, vars, SvrMoves, CliMoves, ThreadsMove, SelectMoves, PacketMoves, AliveMoves
  <2>3. CASE moves = "alive" /\ Alive!Next
    <3>1. AlvIInv(TRUE)' /\ Alive!SentAfterQuiet
      BY <2>3, AlvStep, AlvAfterQuiet DEF KeepAliveIInv
    <3>2. now' <= MaxTime /\ offset' = offset
      <4>1. now \in Nat /\ now <= MaxTime /\ read = Word /\ MaxTime \in Nat
        BY <2>3, AlvAssumed DEF KeepAliveIInv, AlvIInv, AlvTypes
      <4>2. CASE AlvTicks /\ now < MaxTime
        BY <4>1, <4>2 DEF AlvTicks
      <4>3. ASSUME NEW s \in Alive!Side,
                   AlvFrame(s) \/ AlvCalls(s) \/ AlvHeard(s, Head(link[s]))
            PROVE  now' = now /\ offset' = offset
        BY <4>3 DEF AlvFrame, AlvCalls, AlvHeard
      <4> QED
        BY <2>3, <4>1, <4>2, <4>3, AlvSteps
    <3> QED
      BY <2>1, <2>3, <3>1, <3>2 DEF KeepAliveIInv
  <2>4. CASE moves = "alive_threads" /\ AliveThreads!Next
    BY <2>1, <2>4, AlvStep DEF KeepAliveIInv
  <2>5. CASE UNCHANGED alive
    <3>1. now' = now /\ offset' = offset
      BY <2>5 DEF alive
    <3> QED
      BY <2>1, <2>5, <3>1, AlvUnchanged DEF KeepAliveIInv
  <2> QED
    BY <2>2, <2>3, <2>4, <2>5
<1>3. KeepAliveIInv =>
        /\ moves = "alive" => Alive!TypeOK /\ Alive!NeverDead /\ Alive!RttIsTrip
        /\ moves = "alive_threads" => AliveThreads!NeverDead /\ AliveThreads!RttIsTrip
  BY AlvIsRight DEF KeepAliveIInv
<1> QED
  BY <1>1, <1>2, <1>3, PTL DEF Spec, KeepAliveTruthful

-----------------------------------------------------------------------------
(* TcpSession with one connection and both threads at any place            *)
(* (TcpSession.tla).  The invariant is ThrIInv: where the listening thread *)
(* can be in which state of the session, and what is numbered there; whose *)
(* lock it is; and, once connected, the packets numbered one by one.       *)

ThrPlace == {"none", "defproc", "keepalive", "keepalive_push", "timeout", "flush", "read",
             "switch", "get", "reply", "reply_push", "test", "ended"}

ThrLast(b, last) == IF b = <<>> THEN last ELSE b[Len(b)]

ThrNumbered(b, last) ==
  /\ b # <<>> => b[1] = Threads!NextSeq(last)
  /\ \A k \in 2..Len(b) : b[k] = Threads!NextSeq(b[k - 1])
  /\ \A k \in 1..Len(b) : b[k] # 0

ThrClean == m_writeBuf = <<>> /\ m_seq = 0 /\ lastSent = 0 /\ lock = 2

ThrSends ==
  /\ ThrNumbered(m_writeBuf, lastSent)
  /\ lock = 2 => m_seq = ThrLast(m_writeBuf, lastSent)
  /\ lock # 2 => m_seq = Threads!NextSeq(ThrLast(m_writeBuf, lastSent))

ThrLock ==
  /\ mainAt = "push" <=> lock = 0
  /\ at[1] \in {"keepalive_push", "reply_push"} <=> lock = 1

ThrBefore ==
  /\ connects = 0 /\ m_state = "ZERO" /\ at[1] = "none" /\ ThrClean
  /\ told = "nothing" /\ ended = "no"
ThrConnecting ==
  /\ connects = 1 /\ socket /\ told = "nothing" /\ ended = "no" /\ ThrClean
  /\ \/ m_state = "CONNECTING" /\ at[1] \in {"defproc", "switch", "test"}
     \/ m_state = "WAITING_SEED" /\ at[1] \in {"defproc", "read", "switch", "test"}
ThrConnected ==
  /\ connects = 1 /\ socket /\ told = "connect" /\ ended = "no" /\ ThrSends
  /\ m_state = "CONNECTED" /\ at[1] \notin {"none", "ended"}
ThrFailed ==
  /\ connects = 1 /\ m_state = "DEAD"
  /\ \/ socket /\ told \in {"nothing", "connect"} /\ at[1] \in {"flush", "read", "switch"}
     \/ at[1] \in {"test", "ended"} /\ (ended = "protocol" \/ told = "refused")
        /\ told # "disconnect"
ThrAfter ==
  /\ connects = 1 /\ m_state = "ZERO" /\ told = "disconnect"
  /\ at[1] \in {"test", "defproc", "switch"}

ThrIInv ==
  /\ Threads!TypeOK /\ at \in [{1} -> ThrPlace] /\ crashed # "null" /\ ThrLock
  /\ ThrBefore \/ ThrConnecting \/ ThrConnected \/ ThrFailed \/ ThrAfter

LEMMA ThrAssumed ==
  /\ MaxSeq \in Nat \ {0} /\ MaxWrite \in Nat /\ MaxRead \in Nat
  /\ Threads!Listener = {1} /\ Threads!Main = 0 /\ Threads!Free = 2
<1>1. MaxSeq \in Nat \ {0} /\ MaxWrite \in Nat /\ MaxRead \in Nat
  BY NetAssumed DEF NetAssumption, Threads!TcpSessionAssumption
<1>2. Threads!Listener = {1} /\ Threads!Main = 0 /\ Threads!Free = 2
  BY DEF Threads!Listener, Threads!Main, Threads!Free
<1> QED
  BY <1>1, <1>2

LEMMA ThrNext == \A q \in 0..MaxSeq : Threads!NextSeq(q) \in 1..MaxSeq
BY ThrAssumed DEF Threads!NextSeq

LEMMA ThrSeq ==
  \A b \in Seq(0..MaxSeq) :
    /\ Len(b) \in Nat /\ (b # <<>> => Len(b) >= 1) /\ (b = <<>> => Len(b) = 0)
    /\ \A k \in 1..Len(b) : b[k] \in 0..MaxSeq
<1> SUFFICES ASSUME NEW b \in Seq(0..MaxSeq)
             PROVE  /\ Len(b) \in Nat /\ (b # <<>> => Len(b) >= 1) /\ (b = <<>> => Len(b) = 0)
                    /\ \A k \in 1..Len(b) : b[k] \in 0..MaxSeq
  OBVIOUS
<1>1. Len(b) \in Nat
  BY LenProperties
<1>2. b # <<>> => Len(b) \in Nat \ {0}
  BY EmptySeq
<1>3. b = <<>> => Len(b) = 0
  BY EmptySeq
<1>4. \A k \in 1..Len(b) : b[k] \in 0..MaxSeq
  BY ElementOfSeq
<1> QED
  BY <1>1, <1>2, <1>3, <1>4

(* A packet numbered after the last goes behind it. *)
LEMMA ThrAppended ==
  ASSUME NEW b \in Seq(0..MaxSeq), NEW last \in 0..MaxSeq, ThrNumbered(b, last),
         NEW q, q = Threads!NextSeq(ThrLast(b, last))
  PROVE  /\ Append(b, q) \in Seq(0..MaxSeq) /\ Append(b, q) # <<>>
         /\ ThrNumbered(Append(b, q), last) /\ ThrLast(Append(b, q), last) = q
<1> DEFINE n == Len(b)
<1>0. n \in Nat /\ (b # <<>> => n >= 1) /\ \A k \in 1..n : b[k] \in 0..MaxSeq
  BY ThrSeq
<1>1. ThrLast(b, last) \in 0..MaxSeq
  BY <1>0 DEF ThrLast
<1>2. q \in 1..MaxSeq /\ q \in 0..MaxSeq
  BY <1>1, ThrNext
<1>3. /\ Append(b, q) \in Seq(0..MaxSeq) /\ Len(Append(b, q)) = n + 1
      /\ Append(b, q)[n + 1] = q /\ \A k \in 1..n : Append(b, q)[k] = b[k]
  BY <1>0, <1>2
<1>4. Append(b, q) # <<>>
  BY <1>0, <1>3
<1>5. Append(b, q)[1] = Threads!NextSeq(last)
  <2>1. CASE b = <<>>
    BY <2>1, <1>3 DEF ThrLast
  <2>2. CASE b # <<>>
    BY <2>2, <1>0, <1>3 DEF ThrNumbered
  <2> QED
    BY <2>1, <2>2
<1>6. \A k \in 2..(n + 1) : Append(b, q)[k] = Threads!NextSeq(Append(b, q)[k - 1])
  <2> SUFFICES ASSUME NEW k \in 2..(n + 1)
               PROVE  Append(b, q)[k] = Threads!NextSeq(Append(b, q)[k - 1])
    OBVIOUS
  <2>1. CASE k \in 2..n
    <3>1. k - 1 \in 1..n /\ k \in 1..n
      BY <2>1, <1>0
    <3>2. b[k] = Threads!NextSeq(b[k - 1])
      BY <2>1 DEF ThrNumbered
    <3> QED
      BY <3>1, <3>2, <1>3
  <2>2. CASE k = n + 1
    <3>1. k - 1 \in 1..n /\ k - 1 = n /\ b # <<>>
      BY <2>2, <1>0
    <3>2. ThrLast(b, last) = b[n]
      BY <3>1 DEF ThrLast
    <3> QED
      BY <3>1, <3>2, <2>2, <1>3
  <2> QED
    BY <2>1, <2>2, <1>0
<1>7. \A k \in 1..(n + 1) : Append(b, q)[k] # 0
  BY <1>0, <1>2, <1>3 DEF ThrNumbered
<1>8. ThrNumbered(Append(b, q), last)
  BY <1>3, <1>5, <1>6, <1>7 DEF ThrNumbered
<1> QED
  BY <1>3, <1>4, <1>8 DEF ThrLast

LEMMA ThrRest ==
  ASSUME NEW b \in Seq(0..MaxSeq), NEW n \in 1..Len(b)
  PROVE  LET r == SubSeq(b, n + 1, Len(b)) IN
         /\ r \in Seq(0..MaxSeq) /\ Len(r) = Len(b) - n
         /\ \A k \in 1..(Len(b) - n) : r[k] = b[n + k]
<1>0. Len(b) \in Nat /\ \A k \in 1..Len(b) : b[k] \in 0..MaxSeq
  BY LenProperties
<1>1. \A k \in (n + 1)..Len(b) : b[k] \in 0..MaxSeq
  BY <1>0
<1>2. /\ SubSeq(b, n + 1, Len(b)) \in Seq(0..MaxSeq)
      /\ Len(SubSeq(b, n + 1, Len(b))) = IF n + 1 <= Len(b) THEN Len(b) - (n + 1) + 1 ELSE 0
      /\ \A k \in 1..(Len(b) - (n + 1) + 1) : SubSeq(b, n + 1, Len(b))[k] = b[n + 1 + k - 1]
  BY <1>0, <1>1, SubSeqProperties
<1>3. \A k \in 1..(Len(b) - n) : n + 1 + k - 1 = n + k
  BY <1>0
<1>4. Len(b) - (n + 1) + 1 = Len(b) - n /\ (n + 1 > Len(b) => Len(b) - n = 0)
  BY <1>0
<1>5. Len(SubSeq(b, n + 1, Len(b))) = Len(b) - n
  <2>1. CASE n + 1 <= Len(b)
    BY <2>1, <1>2, <1>4
  <2>2. CASE ~(n + 1 <= Len(b))
    <3>1. Len(b) - n = 0
      BY <2>2, <1>0
    <3> QED
      BY <3>1, <2>2, <1>2
  <2> QED
    BY <2>1, <2>2
<1>6. \A k \in 1..(Len(b) - n) : SubSeq(b, n + 1, Len(b))[k] = b[n + k]
  BY <1>2, <1>3, <1>4
<1> QED
  BY <1>2, <1>5, <1>6

(* When some are sent, the rest is numbered after the last of them. *)
LEMMA ThrFlushed ==
  ASSUME NEW b \in Seq(0..MaxSeq), NEW last \in 0..MaxSeq, ThrNumbered(b, last),
         NEW n \in 1..Len(b)
  PROVE  LET r == SubSeq(b, n + 1, Len(b)) IN
         ThrNumbered(r, b[n]) /\ ThrLast(r, b[n]) = ThrLast(b, last)
<1> DEFINE r == SubSeq(b, n + 1, Len(b))
           m == Len(b) - n
<1>0. /\ Len(b) \in Nat /\ n \in Nat /\ m \in Nat /\ m <= Len(b) /\ b # <<>>
  OBVIOUS
<1>1. r \in Seq(0..MaxSeq) /\ Len(r) = m /\ \A k \in 1..m : r[k] = b[n + k]
  BY <1>0, ThrRest
<1>2. \A k \in 1..m : n + k \in 2..Len(b) /\ n + k - 1 >= 1
  BY <1>0
<1>3. r # <<>> <=> m >= 1
  <2>1. (r # <<>> => Len(r) >= 1) /\ (r = <<>> => Len(r) = 0)
    BY <1>1, ThrSeq
  <2> QED
    BY <2>1, <1>0, <1>1
<1>4. r # <<>> => r[1] = Threads!NextSeq(b[n])
  <2> SUFFICES ASSUME r # <<>> PROVE r[1] = Threads!NextSeq(b[n])
    OBVIOUS
  <2>1. 1 \in 1..m /\ n + 1 \in 2..Len(b) /\ n + 1 - 1 = n
    BY <1>3, <1>0
  <2> QED
    BY <2>1, <1>1 DEF ThrNumbered
<1>5. ASSUME NEW k \in 2..m PROVE r[k] = Threads!NextSeq(r[k - 1])
  <2>1. k \in 1..m /\ k - 1 \in 1..m /\ n + k \in 2..Len(b) /\ n + k - 1 = n + (k - 1)
    BY <1>5, <1>0
  <2>2. b[n + k] = Threads!NextSeq(b[n + k - 1])
    BY <2>1 DEF ThrNumbered
  <2>3. r[k] = b[n + k] /\ r[k - 1] = b[n + (k - 1)]
    BY <2>1, <1>1
  <2> QED
    BY <2>1, <2>2, <2>3
<1>6. \A k \in 1..m : r[k] # 0
  BY <1>1, <1>2 DEF ThrNumbered
<1>7. ThrNumbered(r, b[n])
  BY <1>1, <1>4, <1>5, <1>6 DEF ThrNumbered
<1>8. ThrLast(r, b[n]) = ThrLast(b, last)
  <2>1. CASE m = 0
    <3>1. n = Len(b) /\ r = <<>>
      BY <2>1, <1>0, <1>3
    <3> QED
      BY <3>1, <1>0 DEF ThrLast
  <2>2. CASE m # 0
    <3>1. m \in 1..m /\ n + m = Len(b) /\ r # <<>>
      BY <2>2, <1>0, <1>3
    <3> QED
      BY <3>1, <1>0, <1>1 DEF ThrLast
  <2> QED
    BY <2>1, <2>2
<1> QED
  BY <1>7, <1>8

LEMMA ThrFlush ==
  ASSUME NEW b \in Seq(0..MaxSeq), lastSent \in 0..MaxSeq, Threads!Flush(b),
         crashed \in {"no", "send"}
  PROVE  /\ m_writeBuf' \in Seq(0..MaxSeq) /\ lastSent' \in 0..MaxSeq
         /\ crashed' \in {"no", "send"}
         /\ ThrNumbered(b, lastSent) =>
              /\ ThrNumbered(m_writeBuf', lastSent')
              /\ ThrLast(m_writeBuf', lastSent') = ThrLast(b, lastSent)
<1>1. CASE m_writeBuf' = b /\ UNCHANGED lastSent /\ crashed' \in {"no", "send"}
  BY <1>1
<1>2. ASSUME NEW n \in 1..Len(b), m_writeBuf' = SubSeq(b, n + 1, Len(b)), lastSent' = b[n],
             UNCHANGED crashed
      PROVE  /\ m_writeBuf' \in Seq(0..MaxSeq) /\ lastSent' \in 0..MaxSeq
             /\ crashed' \in {"no", "send"}
             /\ ThrNumbered(b, lastSent) =>
                  /\ ThrNumbered(m_writeBuf', lastSent')
                  /\ ThrLast(m_writeBuf', lastSent') = ThrLast(b, lastSent)
  <2>1. b[n] \in 0..MaxSeq /\ SubSeq(b, n + 1, Len(b)) \in Seq(0..MaxSeq)
    BY <1>2, ThrRest, LenProperties
  <2> QED
    BY <2>1, <1>2, ThrFlushed
<1> QED
  BY <1>1, <1>2 DEF Threads!Flush

-----------------------------------------------------------------------------
(* The steps of the main thread and the listening thread.                  *)

LEMMA ThrTypes ==
  ThrIInv =>
    /\ m_writeBuf \in Seq(0..MaxSeq) /\ lastSent \in 0..MaxSeq /\ m_seq \in 0..MaxSeq
    /\ m_readBuff \in Seq(Threads!Kind) /\ crashed \in {"no", "send"}
    /\ Threads!TypeOK /\ at \in [{1} -> ThrPlace] /\ ThrLock
    /\ ThrBefore \/ ThrConnecting \/ ThrConnected \/ ThrFailed \/ ThrAfter
BY DEF ThrIInv, Threads!TypeOK

LEMMA ThrTail ==
  m_readBuff \in Seq(Threads!Kind)
  /\ (m_readBuff' = m_readBuff \/ (m_readBuff # <<>> /\ m_readBuff' = Tail(m_readBuff)))
  => m_readBuff' \in Seq(Threads!Kind)
<1> SUFFICES ASSUME NEW b \in Seq(Threads!Kind), b # <<>> PROVE Tail(b) \in Seq(Threads!Kind)
  OBVIOUS
<1> QED
  BY HeadTailProperties

LEMMA ThrConnects == ThrIInv /\ Threads!Connect => ThrIInv'
<1> SUFFICES ASSUME ThrIInv, Threads!Connect PROVE ThrIInv'
  OBVIOUS
<1> USE ThrAssumed, ThrTypes
<1>1. ThrBefore /\ connects = 0 /\ connects' = 1
  BY DEF Threads!Connect, ThrBefore, ThrConnecting, ThrConnected, ThrFailed, ThrAfter
<1>2. /\ at' = [at EXCEPT ![1] = "defproc"] /\ at'[1] = "defproc" /\ at' \in [{1} -> ThrPlace]
  BY <1>1 DEF Threads!Connect, Threads!Goes, ThrPlace
<1>3. Threads!TypeOK'
  <2>1. /\ socket' = TRUE /\ m_state' = "CONNECTING" /\ remote' = "open" /\ silence' = FALSE
        /\ lastSent' = 0
        /\ UNCHANGED <<m_seq, m_writeBuf, m_readBuff, lock, mainAt, ended, crashed>>
    BY DEF Threads!Connect
  <2>2. 0 \in 0..MaxSeq /\ connects' \in 0..1
    BY <1>1
  <2> QED
    BY <2>1, <2>2 DEF Threads!TypeOK
<1>4. ThrLock'
  BY <1>1, <1>2 DEF Threads!Connect, ThrLock, ThrBefore
<1>5. ThrConnecting'
  BY <1>1, <1>2 DEF Threads!Connect, ThrConnecting, ThrBefore, ThrClean
<1> QED
  BY <1>2, <1>3, <1>4, <1>5 DEF ThrIInv, Threads!Connect

LEMMA ThrSendBegins == ThrIInv /\ Threads!SendBegin => ThrIInv'
<1> SUFFICES ASSUME ThrIInv, Threads!SendBegin PROVE ThrIInv'
  OBVIOUS
<1> USE ThrAssumed, ThrTypes
<1>1. ThrConnected /\ lock = 2 /\ lock' = 0 /\ mainAt' = "push" /\ UNCHANGED <<at, crashed>>
  BY DEF Threads!SendBegin, ThrBefore, ThrConnecting, ThrConnected, ThrFailed, ThrAfter
<1>2. m_seq' = Threads!NextSeq(m_seq) /\ m_seq' \in 0..MaxSeq
  <2>1. Threads!NextSeq(m_seq) \in 1..MaxSeq
    BY ThrNext
  <2> QED
    BY <2>1 DEF Threads!SendBegin
<1>3. Threads!TypeOK'
  BY <1>1, <1>2 DEF Threads!SendBegin, Threads!TypeOK, Threads!ghosts
<1>4. ThrLock'
  BY <1>1 DEF ThrLock
<1>5. ThrConnected'
  BY <1>1, <1>2 DEF Threads!SendBegin, ThrConnected, ThrSends, Threads!ghosts
<1> QED
  BY <1>1, <1>3, <1>4, <1>5 DEF ThrIInv

LEMMA ThrSendPushes == ThrIInv /\ Threads!SendPush => ThrIInv'
<1> SUFFICES ASSUME ThrIInv, Threads!SendPush PROVE ThrIInv'
  OBVIOUS
<1> USE ThrAssumed, ThrTypes
<1>1. /\ lock = 0 /\ lock' = 2 /\ mainAt = "push" /\ mainAt' = "idle"
      /\ m_writeBuf' = Append(m_writeBuf, m_seq)
      /\ UNCHANGED <<m_state, socket, m_seq, m_readBuff, at, connects, remote, silence,
                     lastSent, told, ended, crashed>>
  BY DEF Threads!SendPush, ThrLock, Threads!ghosts
<1>2. m_writeBuf' \in Seq(0..MaxSeq)
  BY <1>1
<1>3. Threads!TypeOK'
  BY <1>1, <1>2 DEF Threads!TypeOK
<1>4. ThrLock'
  BY <1>1 DEF ThrLock
<1>5. ASSUME ThrConnected PROVE ThrConnected'
  <2>1. ThrNumbered(m_writeBuf', lastSent) /\ ThrLast(m_writeBuf', lastSent) = m_seq
    BY <1>1, <1>5, ThrAppended DEF ThrConnected, ThrSends
  <2> QED
    BY <2>1, <1>1, <1>5 DEF ThrConnected, ThrSends
<1>6. ASSUME ThrFailed \/ ThrAfter PROVE (ThrFailed \/ ThrAfter)'
  BY <1>1, <1>6 DEF ThrFailed, ThrAfter
<1>7. ~ThrBefore /\ ~ThrConnecting
  BY <1>1 DEF ThrBefore, ThrConnecting, ThrClean
<1> QED
  BY <1>1, <1>3, <1>4, <1>5, <1>6, <1>7 DEF ThrIInv

(* Where the lock stays with whom it is.                                   *)
LEMMA ThrMoves ==
  ASSUME ThrIInv, NEW place \in ThrPlace, Threads!Goes(1, place)
  PROVE  at'[1] = place /\ at' \in [{1} -> ThrPlace]
BY ThrTypes DEF Threads!Goes

LEMMA ThrLockKept ==
  ASSUME ThrIInv, at[1] \notin {"keepalive_push", "reply_push"},
         at'[1] \notin {"keepalive_push", "reply_push"}, UNCHANGED <<lock, mainAt>>
  PROVE  ThrLock'
BY ThrTypes DEF ThrLock

LEMMA ThrDefProcs == ThrIInv /\ Threads!DefProc(1) => ThrIInv'
<1> SUFFICES ASSUME ThrIInv, Threads!DefProc(1) PROVE ThrIInv'
  OBVIOUS
<1> USE ThrAssumed, ThrTypes
<1>1. at[1] = "defproc" /\ UNCHANGED <<m_state, socket, m_seq, m_writeBuf, m_readBuff, lock, mainAt,
                connects, remote, silence, lastSent, told, ended, crashed>>
  BY DEF Threads!DefProc, Threads!session, Threads!ghosts
<1>2. PICK place \in {"keepalive", "timeout", "read", "switch"} :
        /\ Threads!Goes(1, place)
        /\ m_state = "CONNECTED" => place \in {"keepalive", "timeout"}
        /\ m_state = "WAITING_SEED" => place = "read"
        /\ m_state \notin {"CONNECTED", "WAITING_SEED"} => place = "switch"
  BY DEF Threads!DefProc
<1>3. at'[1] = place /\ at' \in [{1} -> ThrPlace]
  BY <1>2, ThrMoves DEF ThrPlace
<1>4. Threads!TypeOK'
  BY <1>1 DEF Threads!TypeOK
<1>5. ThrLock'
  BY <1>1, <1>2, <1>3, ThrLockKept
<1>6. (ThrConnecting \/ ThrConnected \/ ThrAfter)'
  BY <1>1, <1>2, <1>3 DEF ThrBefore, ThrConnecting, ThrConnected, ThrFailed, ThrAfter, ThrClean, ThrSends
<1> QED
  BY <1>1, <1>3, <1>4, <1>5, <1>6 DEF ThrIInv

LEMMA ThrSysBegins == ThrIInv /\ Threads!SysBegin(1) => ThrIInv'
<1> SUFFICES ASSUME ThrIInv, Threads!SysBegin(1) PROVE ThrIInv'
  OBVIOUS
<1> USE ThrAssumed, ThrTypes
<1>1. /\ at[1] \in {"keepalive", "reply"} /\ ThrConnected /\ m_state = "CONNECTED"
      /\ lock = 2 /\ lock' = 1
      /\ Threads!Goes(1, IF at[1] = "keepalive" THEN "keepalive_push" ELSE "reply_push")
      /\ m_seq' = Threads!NextSeq(m_seq)
      /\ UNCHANGED <<m_state, socket, m_writeBuf, m_readBuff, mainAt, connects, remote,
                     silence, lastSent, told, ended, crashed>>
  <2>1. at[1] \in {"keepalive", "reply"} /\ lock = 2
    BY DEF Threads!SysBegin
  <2>2. ThrConnected /\ m_state = "CONNECTED"
    BY <2>1 DEF ThrBefore, ThrConnecting, ThrConnected, ThrFailed, ThrAfter
  <2> QED
    BY <2>1, <2>2 DEF Threads!SysBegin, Threads!PushOf, Threads!ghosts
<1>2. at'[1] \in {"keepalive_push", "reply_push"} /\ at' \in [{1} -> ThrPlace]
  BY <1>1, ThrMoves DEF ThrPlace
<1>3. m_seq' \in 0..MaxSeq
  <2>1. Threads!NextSeq(m_seq) \in 1..MaxSeq
    BY ThrNext
  <2> QED
    BY <2>1, <1>1
<1>4. Threads!TypeOK'
  BY <1>1, <1>3 DEF Threads!TypeOK
<1>5. ThrLock'
  BY <1>1, <1>2 DEF ThrLock
<1>6. ThrConnected'
  BY <1>1, <1>2 DEF ThrConnected, ThrSends
<1> QED
  BY <1>1, <1>2, <1>4, <1>5, <1>6 DEF ThrIInv

LEMMA ThrSysPushes == ThrIInv /\ Threads!SysPush(1) => ThrIInv'
<1> SUFFICES ASSUME ThrIInv, Threads!SysPush(1) PROVE ThrIInv'
  OBVIOUS
<1> USE ThrAssumed, ThrTypes
<1>1. at[1] \in {"keepalive_push", "reply_push"} /\ ThrConnected /\ lock = 1 /\ mainAt # "push"
  <2>1. at[1] \in {"keepalive_push", "reply_push"}
    BY DEF Threads!SysPush
  <2> QED
    BY <2>1 DEF ThrLock, ThrBefore, ThrConnecting, ThrConnected, ThrFailed, ThrAfter
<1>2. /\ Threads!Flush(Append(m_writeBuf, m_seq)) /\ lock' = 2
      /\ Threads!Goes(1, IF at[1] = "keepalive_push" THEN "timeout" ELSE "get")
      /\ UNCHANGED <<m_state, socket, m_seq, m_readBuff, mainAt, connects, remote, silence,
                     told, ended>>
  BY <1>1 DEF Threads!SysPush, Threads!Back
<1>3. at'[1] \in {"timeout", "get"} /\ at' \in [{1} -> ThrPlace]
  BY <1>2, ThrMoves DEF ThrPlace
<1>4. /\ Append(m_writeBuf, m_seq) \in Seq(0..MaxSeq)
      /\ ThrNumbered(Append(m_writeBuf, m_seq), lastSent)
      /\ ThrLast(Append(m_writeBuf, m_seq), lastSent) = m_seq
  BY <1>1, ThrAppended DEF ThrConnected, ThrSends
<1>5. /\ m_writeBuf' \in Seq(0..MaxSeq) /\ lastSent' \in 0..MaxSeq
      /\ crashed' \in {"no", "send"} /\ ThrNumbered(m_writeBuf', lastSent')
      /\ ThrLast(m_writeBuf', lastSent') = m_seq
  BY <1>2, <1>4, ThrFlush
<1>6. Threads!TypeOK'
  BY <1>2, <1>5 DEF Threads!TypeOK
<1>7. ThrLock'
  BY <1>1, <1>2, <1>3 DEF ThrLock
<1>8. ThrConnected'
  BY <1>1, <1>2, <1>3, <1>5 DEF ThrConnected, ThrSends
<1> QED
  BY <1>3, <1>5, <1>6, <1>7, <1>8 DEF ThrIInv

LEMMA ThrTimesOut == ThrIInv /\ Threads!TimesOut(1) => ThrIInv'
<1> SUFFICES ASSUME ThrIInv, Threads!TimesOut(1) PROVE ThrIInv'
  OBVIOUS
<1> USE ThrAssumed, ThrTypes
<1>1. /\ at[1] = "timeout" /\ Threads!Goes(1, "flush")
      /\ UNCHANGED <<socket, m_seq, m_writeBuf, m_readBuff, lock, mainAt, connects, remote,
                     silence, lastSent, told, crashed>>
      /\ \/ m_state' = "DEAD" /\ ended' = "timeout"
         \/ UNCHANGED <<m_state, ended>>
  BY DEF Threads!TimesOut
<1>2. at'[1] = "flush" /\ at' \in [{1} -> ThrPlace]
  BY <1>1, ThrMoves DEF ThrPlace
<1>3. ThrConnected
  BY <1>1 DEF ThrBefore, ThrConnecting, ThrConnected, ThrFailed, ThrAfter
<1>4. Threads!TypeOK'
  BY <1>1 DEF Threads!TypeOK
<1>5. ThrLock'
  BY <1>1, <1>2, ThrLockKept
<1>6. (ThrConnected \/ ThrFailed)'
  BY <1>1, <1>2, <1>3 DEF ThrConnected, ThrFailed, ThrSends
<1> QED
  BY <1>1, <1>2, <1>4, <1>5, <1>6 DEF ThrIInv

LEMMA ThrFlushes == ThrIInv /\ Threads!FlushData(1) => ThrIInv'
<1> SUFFICES ASSUME ThrIInv, Threads!FlushData(1) PROVE ThrIInv'
  OBVIOUS
<1> USE ThrAssumed, ThrTypes
<1>1. /\ at[1] = "flush" /\ Threads!Goes(1, "read") /\ Threads!Flush(m_writeBuf)
      /\ UNCHANGED <<m_state, socket, m_seq, m_readBuff, lock, mainAt, connects, remote, silence,
                     told, ended>>
  BY DEF Threads!FlushData
<1>2. at'[1] = "read" /\ at' \in [{1} -> ThrPlace]
  BY <1>1, ThrMoves DEF ThrPlace
<1>3. ThrConnected \/ ThrFailed
  BY <1>1 DEF ThrBefore, ThrConnecting, ThrConnected, ThrFailed, ThrAfter
<1>4. /\ m_writeBuf' \in Seq(0..MaxSeq) /\ lastSent' \in 0..MaxSeq
      /\ crashed' \in {"no", "send"}
      /\ ThrNumbered(m_writeBuf, lastSent) =>
           /\ ThrNumbered(m_writeBuf', lastSent')
           /\ ThrLast(m_writeBuf', lastSent') = ThrLast(m_writeBuf, lastSent)
  BY <1>1, ThrFlush
<1>5. Threads!TypeOK'
  BY <1>1, <1>4 DEF Threads!TypeOK
<1>6. ThrLock'
  BY <1>1, <1>2, ThrLockKept
<1>7. ASSUME ThrConnected PROVE ThrConnected'
  BY <1>1, <1>2, <1>4, <1>7 DEF ThrConnected, ThrSends
<1>8. ASSUME ThrFailed PROVE ThrFailed'
  BY <1>1, <1>2, <1>8 DEF ThrFailed
<1> QED
  BY <1>2, <1>3, <1>4, <1>5, <1>6, <1>7, <1>8 DEF ThrIInv

LEMMA ThrArrivals == \A packets \in Threads!Arrivals : packets \in Seq(Threads!Kind)
<1> SUFFICES ASSUME NEW packets \in Threads!Arrivals PROVE packets \in Seq(Threads!Kind)
  OBVIOUS
<1>1. CASE packets \in {<<k>> : k \in Threads!Kind}
  <2>1. PICK k \in Threads!Kind : packets = <<k>>
    BY <1>1
  <2> QED
    BY <2>1
<1>2. CASE packets \in {<<k, l>> : k, l \in Threads!Kind}
  <2>1. PICK k \in Threads!Kind, l \in Threads!Kind : packets = <<k, l>>
    BY <1>2
  <2> QED
    BY <2>1
<1> QED
  BY <1>1, <1>2 DEF Threads!Arrivals

LEMMA ThrReads == ThrIInv /\ Threads!ReadData(1) => ThrIInv'
<1> SUFFICES ASSUME ThrIInv, Threads!ReadData(1) PROVE ThrIInv'
  OBVIOUS
<1> USE ThrAssumed, ThrTypes
<1>1. /\ at[1] = "read" /\ Threads!Goes(1, "switch")
      /\ UNCHANGED <<socket, m_seq, m_writeBuf, lock, mainAt, connects, remote, lastSent, told>>
  BY DEF Threads!ReadData
<1>2. at'[1] = "switch" /\ at' \in [{1} -> ThrPlace]
  BY <1>1, ThrMoves DEF ThrPlace
<1>3. ThrConnecting \/ ThrConnected \/ ThrFailed
  BY <1>1 DEF ThrBefore, ThrConnecting, ThrConnected, ThrFailed, ThrAfter
<1>4. socket
  BY <1>1, <1>3 DEF ThrConnecting, ThrConnected, ThrFailed
<1>5. /\ UNCHANGED crashed /\ m_readBuff' \in Seq(Threads!Kind) /\ silence' \in BOOLEAN
      /\ \/ UNCHANGED <<m_state, ended>>
         \/ m_state # "DEAD" /\ m_state' = "DEAD" /\ ended' = "exception"
  <2>1. \A packets \in Threads!Arrivals : m_readBuff \o packets \in Seq(Threads!Kind)
    BY ThrArrivals, ConcatProperties
  <2> QED
    BY <2>1, <1>4 DEF Threads!ReadData, Threads!TypeOK
<1>6. Threads!TypeOK'
  BY <1>1, <1>5 DEF Threads!TypeOK
<1>7. ThrLock'
  BY <1>1, <1>2, ThrLockKept
<1>8. CASE UNCHANGED <<m_state, ended>>
  <2>1. (ThrConnecting \/ ThrConnected \/ ThrFailed)'
    BY <1>1, <1>2, <1>3, <1>5, <1>8
       DEF ThrConnecting, ThrConnected, ThrFailed, ThrClean, ThrSends
  <2> QED
    BY <2>1, <1>2, <1>5, <1>6, <1>7 DEF ThrIInv
<1>9. CASE m_state # "DEAD" /\ m_state' = "DEAD" /\ ended' = "exception"
  <2>1. ThrFailed'
    BY <1>1, <1>2, <1>3, <1>4, <1>9 DEF ThrConnecting, ThrConnected, ThrFailed
  <2> QED
    BY <2>1, <1>2, <1>5, <1>6, <1>7 DEF ThrIInv
<1> QED
  BY <1>5, <1>8, <1>9

(* The switch of Process. *)
LEMMA ThrSwitchDead == ThrIInv /\ Threads!SwitchDead(1) => ThrIInv'
<1> SUFFICES ASSUME ThrIInv, Threads!SwitchDead(1) PROVE ThrIInv'
  OBVIOUS
<1> USE ThrAssumed, ThrTypes
<1>1. /\ at[1] = "switch" /\ m_state = "DEAD" /\ m_state' = "ZERO" /\ told' = "disconnect"
      /\ Threads!Goes(1, "test") /\ Threads!Reset
      /\ UNCHANGED <<lock, mainAt, connects, remote, silence, lastSent, ended>>
  BY DEF Threads!SwitchDead
<1>2. at'[1] = "test" /\ at' \in [{1} -> ThrPlace]
  BY <1>1, ThrMoves DEF ThrPlace
<1>3. ThrFailed /\ socket
  BY <1>1 DEF ThrBefore, ThrConnecting, ThrConnected, ThrFailed, ThrAfter
<1>4. m_readBuff' = <<>> /\ m_writeBuf' = <<>> /\ m_seq' = 0 /\ socket' = FALSE /\ UNCHANGED crashed
  BY <1>1, <1>3 DEF Threads!Reset
<1>5. Threads!TypeOK'
  <2>1. <<>> \in Seq(Threads!Kind) /\ <<>> \in Seq(0..MaxSeq) /\ 0 \in 0..MaxSeq
    BY EmptySeq
  <2> QED
    BY <2>1, <1>1, <1>4 DEF Threads!TypeOK
<1>6. ThrLock'
  BY <1>1, <1>2, ThrLockKept
<1>7. ThrAfter'
  BY <1>1, <1>2, <1>3 DEF ThrFailed, ThrAfter
<1> QED
  BY <1>2, <1>4, <1>5, <1>6, <1>7 DEF ThrIInv

LEMMA ThrSwitchWaiting == ThrIInv /\ Threads!SwitchWaiting(1) => ThrIInv'
<1> SUFFICES ASSUME ThrIInv, Threads!SwitchWaiting(1) PROVE ThrIInv'
  OBVIOUS
<1> USE ThrAssumed, ThrTypes
<1>1. /\ at[1] = "switch" /\ m_state = "WAITING_SEED" /\ Threads!Goes(1, "test")
      /\ UNCHANGED <<socket, m_seq, m_writeBuf, lock, mainAt, connects, remote, silence,
                     lastSent, crashed>>
  BY DEF Threads!SwitchWaiting
<1>2. at'[1] = "test" /\ at' \in [{1} -> ThrPlace]
  BY <1>1, ThrMoves DEF ThrPlace
<1>3. ThrConnecting
  BY <1>1 DEF ThrBefore, ThrConnecting, ThrConnected, ThrFailed, ThrAfter
<1>4. \/ UNCHANGED <<m_state, told, ended>>
      \/ m_state' = "DEAD" /\ ended' = "protocol" /\ UNCHANGED told
      \/ m_state' = "CONNECTED" /\ told' = "connect" /\ UNCHANGED ended
  BY DEF Threads!SwitchWaiting
<1>5. m_readBuff' \in Seq(Threads!Kind)
  <2>1. UNCHANGED m_readBuff \/ (m_readBuff # <<>> /\ m_readBuff' = Tail(m_readBuff))
    BY DEF Threads!SwitchWaiting
  <2> QED
    BY <2>1, ThrTail
<1>6. Threads!TypeOK'
  BY <1>1, <1>4, <1>5 DEF Threads!TypeOK
<1>7. ThrLock'
  BY <1>1, <1>2, ThrLockKept
<1>8. CASE UNCHANGED <<m_state, told, ended>>
  <2>1. ThrConnecting'
    BY <1>1, <1>2, <1>3, <1>8 DEF ThrConnecting, ThrClean
  <2> QED
    BY <2>1, <1>1, <1>2, <1>6, <1>7 DEF ThrIInv
<1>9. CASE m_state' = "DEAD" /\ ended' = "protocol" /\ UNCHANGED told
  <2>1. ThrFailed'
    BY <1>1, <1>2, <1>3, <1>9 DEF ThrConnecting, ThrFailed
  <2> QED
    BY <2>1, <1>1, <1>2, <1>6, <1>7 DEF ThrIInv
<1>10. CASE m_state' = "CONNECTED" /\ told' = "connect" /\ UNCHANGED ended
  <2>1. m_writeBuf' = <<>> /\ lastSent' = 0 /\ lock' = 2 /\ m_seq' = 0 /\ Len(m_writeBuf') = 0
    BY <1>1, <1>3, EmptySeq DEF ThrConnecting, ThrClean
  <2>2. ThrSends'
    BY <2>1 DEF ThrSends, ThrNumbered, ThrLast
  <2>3. ThrConnected'
    BY <2>2, <1>1, <1>2, <1>3, <1>10 DEF ThrConnecting, ThrConnected
  <2> QED
    BY <2>3, <1>1, <1>2, <1>6, <1>7 DEF ThrIInv
<1> QED
  BY <1>4, <1>8, <1>9, <1>10

LEMMA ThrSwitchConnecting == ThrIInv /\ Threads!SwitchConnecting(1) => ThrIInv'
<1> SUFFICES ASSUME ThrIInv, Threads!SwitchConnecting(1) PROVE ThrIInv'
  OBVIOUS
<1> USE ThrAssumed, ThrTypes
<1>1. /\ at[1] = "switch" /\ m_state = "CONNECTING" /\ Threads!Goes(1, "test")
      /\ UNCHANGED <<lock, mainAt, connects, remote, lastSent>>
  BY DEF Threads!SwitchConnecting
<1>2. at'[1] = "test" /\ at' \in [{1} -> ThrPlace]
  BY <1>1, ThrMoves DEF ThrPlace
<1>3. ThrConnecting /\ socket
  BY <1>1 DEF ThrBefore, ThrConnecting, ThrConnected, ThrFailed, ThrAfter
<1>4. ThrLock'
  BY <1>1, <1>2, ThrLockKept
<1>5. CASE Threads!Reset /\ m_state' = "DEAD" /\ told' = "refused" /\ ended' = "refused"
           /\ UNCHANGED silence
  <2>1. /\ m_readBuff' = <<>> /\ m_writeBuf' = <<>> /\ m_seq' = 0 /\ socket' = FALSE
        /\ UNCHANGED crashed
    BY <1>3, <1>5 DEF Threads!Reset
  <2>2. <<>> \in Seq(Threads!Kind) /\ <<>> \in Seq(0..MaxSeq) /\ 0 \in 0..MaxSeq
    BY EmptySeq
  <2>3. Threads!TypeOK'
    BY <2>1, <2>2, <1>1, <1>5 DEF Threads!TypeOK
  <2>4. ThrFailed'
    BY <1>1, <1>2, <1>3, <1>5 DEF ThrConnecting, ThrFailed
  <2> QED
    BY <2>1, <2>3, <2>4, <1>2, <1>4 DEF ThrIInv
<1>6. CASE /\ m_state' \in {"CONNECTING", "WAITING_SEED"} /\ silence' \in BOOLEAN
           /\ UNCHANGED <<socket, m_seq, m_writeBuf, m_readBuff, told, ended, crashed>>
  <2>1. Threads!TypeOK'
    BY <1>1, <1>6 DEF Threads!TypeOK
  <2>2. ThrConnecting'
    BY <1>1, <1>2, <1>3, <1>6 DEF ThrConnecting, ThrClean
  <2> QED
    BY <2>1, <2>2, <1>2, <1>4, <1>6 DEF ThrIInv
<1> QED
  BY <1>1, <1>5, <1>6 DEF Threads!SwitchConnecting, Threads!session, Threads!TypeOK

LEMMA ThrSwitchGoesOn ==
  ThrIInv /\ (Threads!SwitchConnected(1) \/ Threads!SwitchZero(1)) => ThrIInv'
<1> SUFFICES ASSUME ThrIInv, Threads!SwitchConnected(1) \/ Threads!SwitchZero(1) PROVE ThrIInv'
  OBVIOUS
<1> USE ThrAssumed, ThrTypes
<1>1. /\ at[1] = "switch" /\ m_state \in {"CONNECTED", "ZERO"}
      /\ Threads!Goes(1, IF m_state = "CONNECTED" THEN "get" ELSE "test")
      /\ UNCHANGED <<m_state, socket, m_seq, m_writeBuf, m_readBuff, lock, mainAt, connects,
                     remote, silence, lastSent, told, ended, crashed>>
  BY DEF Threads!SwitchConnected, Threads!SwitchZero, Threads!session, Threads!ghosts
<1>2. /\ at'[1] = IF m_state = "CONNECTED" THEN "get" ELSE "test"
      /\ at' \in [{1} -> ThrPlace]
  BY <1>1, ThrMoves DEF ThrPlace
<1>3. Threads!TypeOK'
  BY <1>1 DEF Threads!TypeOK
<1>4. ThrLock'
  BY <1>1, <1>2, ThrLockKept
<1>5. (ThrConnected \/ ThrAfter)'
  BY <1>1, <1>2 DEF ThrBefore, ThrConnecting, ThrConnected, ThrFailed, ThrAfter, ThrSends
<1> QED
  BY <1>1, <1>2, <1>3, <1>4, <1>5 DEF ThrIInv

LEMMA ThrGets == ThrIInv /\ Threads!GetPacket(1) => ThrIInv'
<1> SUFFICES ASSUME ThrIInv, Threads!GetPacket(1) PROVE ThrIInv'
  OBVIOUS
<1> USE ThrAssumed, ThrTypes
<1>1. /\ at[1] = "get"
      /\ UNCHANGED <<socket, m_seq, m_writeBuf, lock, mainAt, connects, remote, silence,
                     lastSent, crashed>>
  BY DEF Threads!GetPacket
<1>2. ThrConnected
  BY <1>1 DEF ThrBefore, ThrConnecting, ThrConnected, ThrFailed, ThrAfter
<1>3. PICK place \in {"test", "reply", "get"} :
        /\ Threads!Goes(1, place)
        /\ \/ m_state' = "DEAD" /\ ended' = "protocol" /\ UNCHANGED told /\ place = "test"
           \/ m_state' = "CONNECTED" /\ told' = "connect" /\ UNCHANGED ended
  BY <1>2 DEF Threads!GetPacket, ThrConnected
<1>4. at'[1] = place /\ at' \in [{1} -> ThrPlace]
  BY <1>3, ThrMoves DEF ThrPlace
<1>5. m_readBuff' \in Seq(Threads!Kind)
  <2>1. UNCHANGED m_readBuff \/ (m_readBuff # <<>> /\ m_readBuff' = Tail(m_readBuff))
    BY DEF Threads!GetPacket
  <2> QED
    BY <2>1, ThrTail
<1>6. Threads!TypeOK'
  BY <1>1, <1>3, <1>5 DEF Threads!TypeOK
<1>7. ThrLock'
  BY <1>1, <1>3, <1>4, ThrLockKept
<1>8. (ThrFailed \/ ThrConnected)'
  BY <1>1, <1>2, <1>3, <1>4 DEF ThrConnected, ThrFailed, ThrSends
<1> QED
  BY <1>1, <1>4, <1>6, <1>7, <1>8 DEF ThrIInv

LEMMA ThrTests == ThrIInv /\ Threads!ThreadTest(1) => ThrIInv'
<1> SUFFICES ASSUME ThrIInv, Threads!ThreadTest(1) PROVE ThrIInv'
  OBVIOUS
<1> USE ThrAssumed, ThrTypes
<1>1. /\ at[1] = "test" /\ Threads!Goes(1, IF m_state = "DEAD" THEN "ended" ELSE "defproc")
      /\ UNCHANGED <<m_state, socket, m_seq, m_writeBuf, m_readBuff, lock, mainAt, connects,
                     remote, silence, lastSent, told, ended, crashed>>
  BY DEF Threads!ThreadTest, Threads!session, Threads!ghosts
<1>2. /\ at'[1] = IF m_state = "DEAD" THEN "ended" ELSE "defproc"
      /\ at' \in [{1} -> ThrPlace]
  BY <1>1, ThrMoves DEF ThrPlace
<1>3. Threads!TypeOK'
  BY <1>1 DEF Threads!TypeOK
<1>4. ThrLock'
  BY <1>1, <1>2, ThrLockKept
<1>5. (ThrConnecting \/ ThrConnected \/ ThrFailed \/ ThrAfter)'
  BY <1>1, <1>2 DEF ThrBefore, ThrConnecting, ThrConnected, ThrFailed, ThrAfter, ThrClean, ThrSends
<1> QED
  BY <1>1, <1>2, <1>3, <1>4, <1>5 DEF ThrIInv

LEMMA ThrOutside ==
  ThrIInv /\ (Threads!RemoteCloses \/ Threads!TimePasses \/ UNCHANGED threads) => ThrIInv'
<1> SUFFICES ASSUME ThrIInv, Threads!RemoteCloses \/ Threads!TimePasses \/ UNCHANGED threads
             PROVE  ThrIInv'
  OBVIOUS
<1>1. /\ remote' \in {"open", "closed"} /\ silence' \in BOOLEAN
      /\ UNCHANGED <<m_state, socket, m_seq, m_writeBuf, m_readBuff, lock, at, mainAt, connects,
                     lastSent, told, ended, crashed>>
  BY ThrTypes DEF Threads!RemoteCloses, Threads!TimePasses, threads, Threads!session, Threads!ghosts,
     Threads!TypeOK
<1>2. Threads!TypeOK'
  BY <1>1, ThrTypes DEF Threads!TypeOK
<1>3. ThrLock' /\ (ThrBefore \/ ThrConnecting \/ ThrConnected \/ ThrFailed \/ ThrAfter)'
  BY <1>1, ThrTypes
     DEF ThrLock, ThrBefore, ThrConnecting, ThrConnected, ThrFailed, ThrAfter, ThrClean, ThrSends
<1> QED
  BY <1>1, <1>2, <1>3, ThrTypes DEF ThrIInv

LEMMA ThrStep == ThrIInv /\ [Threads!Next]_threads => ThrIInv'
<1> SUFFICES ASSUME ThrIInv, [Threads!Next]_threads PROVE ThrIInv'
  OBVIOUS
<1>1. ASSUME NEW i \in Threads!Listener, Threads!ListenThread(i) PROVE ThrIInv'
  <2>1. i = 1
    BY <1>1, ThrAssumed
  <2> QED
    BY <2>1, <1>1, ThrDefProcs, ThrSysBegins, ThrSysPushes, ThrTimesOut, ThrFlushes, ThrReads,
       ThrSwitchDead, ThrSwitchWaiting, ThrSwitchConnecting, ThrSwitchGoesOn, ThrGets, ThrTests
       DEF Threads!ListenThread, Threads!Switch
<1> QED
  BY <1>1, ThrConnects, ThrSendBegins, ThrSendPushes, ThrOutside DEF Threads!Next

LEMMA ThrInit == Threads!Init => ThrIInv
<1> SUFFICES ASSUME Threads!Init PROVE ThrIInv
  OBVIOUS
<1> USE ThrAssumed
<1>1. at \in [{1} -> ThrPlace] /\ at[1] = "none"
  BY DEF Threads!Init, ThrPlace
<1>2. Threads!TypeOK
  <2>1. <<>> \in Seq(Threads!Kind) /\ <<>> \in Seq(0..MaxSeq) /\ 0 \in 0..MaxSeq /\ 0 \in 0..1
    BY EmptySeq
  <2> QED
    BY <2>1 DEF Threads!Init, Threads!TypeOK
<1>3. ThrLock /\ ThrBefore /\ crashed # "null"
  BY <1>1 DEF Threads!Init, ThrLock, ThrBefore, ThrClean
<1> QED
  BY <1>1, <1>2, <1>3 DEF ThrIInv

LEMMA ThrIsRight ==
  ThrIInv => /\ Threads!TypeOK /\ Threads!SeqInOrder
             /\ Threads!SocketIsThere /\ Threads!UntoldIsProtocolError
<1> SUFFICES ASSUME ThrIInv
             PROVE  /\ Threads!TypeOK /\ Threads!SeqInOrder
                    /\ Threads!SocketIsThere /\ Threads!UntoldIsProtocolError
  OBVIOUS
<1> USE ThrAssumed, ThrTypes
<1>1. Threads!SeqInOrder
  <2> SUFFICES ASSUME connects = 1, m_state = "CONNECTED"
      PROVE  /\ m_writeBuf # <<>> => m_writeBuf[1] = Threads!NextSeq(lastSent)
             /\ \A k \in 2..Len(m_writeBuf) : m_writeBuf[k] = Threads!NextSeq(m_writeBuf[k - 1])
             /\ lock = 2 =>
                  m_seq = IF m_writeBuf = <<>> THEN lastSent ELSE m_writeBuf[Len(m_writeBuf)]
             /\ 0 \notin {m_writeBuf[k] : k \in DOMAIN m_writeBuf}
    BY DEF Threads!SeqInOrder
  <2>1. ThrSends
    BY DEF ThrBefore, ThrConnecting, ThrConnected, ThrFailed, ThrAfter
  <2>2. DOMAIN m_writeBuf = 1..Len(m_writeBuf)
    BY LenProperties
  <2> QED
    BY <2>1, <2>2 DEF ThrSends, ThrNumbered, ThrLast
<1>2. Threads!SocketIsThere
  BY DEF Threads!SocketIsThere
<1>3. Threads!UntoldIsProtocolError
  BY DEF Threads!UntoldIsProtocolError, ThrBefore, ThrConnecting, ThrConnected, ThrFailed, ThrAfter
<1> QED
  BY <1>1, <1>2, <1>3

(* Nobody speaks after the end: a thread at work on a session that ended   *)
(* has only tests to make.                                                 *)
LEMMA ThrTold == ThrIInv /\ [Threads!Next]_threads => Threads!ToldOnce
<1> SUFFICES ASSUME ThrIInv, [Threads!Next]_threads, told \in {"disconnect", "refused"},
                    connects' = connects
             PROVE  told' = told
  BY DEF Threads!ToldOnce
<1> USE ThrAssumed, ThrTypes
<1>1. /\ \/ m_state = "DEAD" /\ at[1] \in {"test", "ended"}
         \/ m_state = "ZERO" /\ at[1] \in {"test", "defproc", "switch"}
      /\ connects \in Nat
  BY DEF ThrBefore, ThrConnecting, ThrConnected, ThrFailed, ThrAfter, Threads!TypeOK
<1>2. ASSUME NEW i \in Threads!Listener, Threads!ListenThread(i) PROVE told' = told
  <2>1. i = 1
    BY <1>2
  <2> QED
    BY <2>1, <1>1, <1>2 DEF Threads!ListenThread, Threads!DefProc, Threads!SysBegin, Threads!SysPush,
       Threads!TimesOut, Threads!FlushData, Threads!ReadData, Threads!Switch, Threads!SwitchConnected,
       Threads!SwitchDead, Threads!SwitchWaiting, Threads!SwitchConnecting, Threads!SwitchZero,
       Threads!GetPacket, Threads!ThreadTest, Threads!ghosts
<1>3. ~Threads!Connect
  BY <1>1 DEF Threads!Connect
<1> QED
  BY <1>2, <1>3 DEF Threads!Next, threads, Threads!SendBegin, Threads!SendPush, Threads!RemoteCloses,
     Threads!TimePasses, Threads!ghosts

-----------------------------------------------------------------------------
(* TcpSession with any number of connections, when calls do not overlap.   *)
(* The invariant is AgnIInv: one listening thread at most is at work, and  *)
(* at which places depends on the state; a session that has ended is empty *)
(* when nobody is at work on it, but for the end nobody is told of.        *)

AgnIdle == {"none", "ended", "defproc"}

AgnClean == m_writeBuf = <<>> /\ m_readBuff = <<>> /\ m_seq = 0

AgnPlaced(place, state) ==
  /\ place \in {"keepalive", "keepalive_push", "timeout", "get", "reply", "reply_push"} =>
       state = "CONNECTED"
  /\ place = "flush" => state \in {"CONNECTED", "DEAD"}
  /\ place = "read" => state \in {"CONNECTED", "DEAD", "WAITING_SEED"}

AgnFresh ==
  ended # "protocol" =>
    /\ m_state = "CONNECTING" => AgnClean
    /\ crashed = "no" /\ m_state = "ZERO" => AgnClean
    /\ crashed = "no" /\ m_state = "DEAD"
       /\ (\A i \in ThreadsAgain!Listener : at[i] \notin {"flush", "read", "switch"}) => AgnClean

AgnIInv ==
  /\ at \in [ThreadsAgain!Listener -> ThrPlace]
  /\ \A i, j \in ThreadsAgain!Listener : at[i] \notin AgnIdle /\ at[j] \notin AgnIdle => i = j
  /\ mainAt = "push" =>
       m_state = "CONNECTED" /\ \A i \in ThreadsAgain!Listener : at[i] \in AgnIdle
  /\ \A i \in ThreadsAgain!Listener : AgnPlaced(at[i], m_state)
  /\ AgnFresh

(* A step of the one thread at work, or of one that begins when none is.   *)
AgnMoves(i, place) ==
  /\ at' \in [ThreadsAgain!Listener -> ThrPlace] /\ at'[i] = place
  /\ \A j \in ThreadsAgain!Listener : j # i => at'[j] = at[j] /\ at[j] \in AgnIdle

LEMMA AgnGoes ==
  ASSUME AgnIInv, NEW i \in ThreadsAgain!Listener, NEW place \in ThrPlace,
         ThreadsAgain!Goes(i, place), at[i] \notin AgnIdle \/ ThreadsAgain!Working = {}
  PROVE  AgnMoves(i, place)
<1>1. at \in [ThreadsAgain!Listener -> ThrPlace] /\ at' = [at EXCEPT ![i] = place]
  BY DEF AgnIInv, ThreadsAgain!Goes
<1>2. at' \in [ThreadsAgain!Listener -> ThrPlace] /\ at'[i] = place
  BY <1>1
<1>3. ASSUME NEW j \in ThreadsAgain!Listener, j # i PROVE at'[j] = at[j] /\ at[j] \in AgnIdle
  <2>1. at'[j] = at[j]
    BY <1>1, <1>3
  <2>2. at[j] \in AgnIdle
    BY <1>3 DEF AgnIInv, ThreadsAgain!Working, AgnIdle
  <2> QED
    BY <2>1, <2>2
<1> QED
  BY <1>2, <1>3 DEF AgnMoves

LEMMA AgnAfter ==
  ASSUME NEW i \in ThreadsAgain!Listener, NEW place \in ThrPlace, AgnMoves(i, place),
         mainAt' # "push", AgnPlaced(place, m_state'), AgnFresh'
  PROVE  AgnIInv'
<1>1. \A j, k \in ThreadsAgain!Listener : at'[j] \notin AgnIdle /\ at'[k] \notin AgnIdle => j = k
  BY DEF AgnMoves
<1>2. \A j \in ThreadsAgain!Listener : AgnPlaced(at'[j], m_state')
  BY DEF AgnMoves, AgnPlaced, AgnIdle
<1> QED
  BY <1>1, <1>2 DEF AgnIInv, AgnMoves

LEMMA AgnConnects == AgnIInv /\ ThreadsAgain!Connect => AgnIInv'
<1> SUFFICES ASSUME AgnIInv, ThreadsAgain!Connect PROVE AgnIInv'
  OBVIOUS
<1>1. /\ crashed = "no" /\ mainAt = "idle" /\ m_state \in {"ZERO", "DEAD"}
      /\ ThreadsAgain!Working = {} /\ m_state' = "CONNECTING"
      /\ at' = [at EXCEPT ![connects + 1] = "defproc"]
      /\ UNCHANGED <<m_seq, m_writeBuf, m_readBuff, mainAt, ended, crashed>>
  BY DEF ThreadsAgain!Connect, ThreadsAgain!Goes
<1>2. \A j \in ThreadsAgain!Listener : at[j] \in AgnIdle
  BY <1>1 DEF ThreadsAgain!Working, AgnIdle
<1>3. at' \in [ThreadsAgain!Listener -> ThrPlace]
  BY <1>1 DEF AgnIInv, ThrPlace
<1>4. \A j \in ThreadsAgain!Listener : at'[j] \in AgnIdle
  BY <1>1, <1>2 DEF AgnIInv, AgnIdle
<1>5. ended # "protocol" => AgnClean
  BY <1>1, <1>2 DEF AgnIInv, AgnFresh, AgnIdle
<1>6. AgnFresh'
  BY <1>1, <1>5 DEF AgnFresh, AgnClean
<1>7. \A j \in ThreadsAgain!Listener : AgnPlaced(at'[j], m_state')
  BY <1>4 DEF AgnPlaced, AgnIdle
<1> QED
  BY <1>1, <1>3, <1>4, <1>6, <1>7 DEF AgnIInv

LEMMA AgnSends == AgnIInv /\ (ThreadsAgain!SendBegin \/ ThreadsAgain!SendPush) => AgnIInv'
<1> SUFFICES ASSUME AgnIInv, ThreadsAgain!SendBegin \/ ThreadsAgain!SendPush PROVE AgnIInv'
  OBVIOUS
<1>1. /\ m_state = "CONNECTED" /\ \A i \in ThreadsAgain!Listener : at[i] \in AgnIdle
      /\ UNCHANGED <<m_state, at>>
  <2>1. CASE ThreadsAgain!SendBegin
    BY <2>1 DEF ThreadsAgain!SendBegin, ThreadsAgain!Working, AgnIdle
  <2>2. CASE ThreadsAgain!SendPush
    BY <2>2 DEF ThreadsAgain!SendPush, AgnIInv
  <2> QED
    BY <2>1, <2>2
<1> QED
  BY <1>1 DEF AgnIInv, AgnFresh

(* Steps that change nothing but the place. *)
LEMMA AgnPlain ==
  ASSUME AgnIInv, NEW i \in ThreadsAgain!Listener, NEW place \in ThrPlace,
         ThreadsAgain!Goes(i, place), at[i] \notin AgnIdle \/ ThreadsAgain!Working = {},
         mainAt # "push", AgnPlaced(place, m_state),
         at[i] \in {"flush", "read", "switch"} =>
           place \in {"flush", "read", "switch"} \/ m_state # "DEAD",
         UNCHANGED <<m_state, m_seq, m_writeBuf, m_readBuff, mainAt, ended, crashed>>
  PROVE  AgnIInv'
<1>1. AgnMoves(i, place)
  BY AgnGoes
<1>2. AgnFresh'
  <2>1. m_state = "DEAD" /\ (\A j \in ThreadsAgain!Listener : at'[j] \notin {"flush", "read", "switch"})
        => \A j \in ThreadsAgain!Listener : at[j] \notin {"flush", "read", "switch"}
    BY <1>1 DEF AgnMoves
  <2> QED
    BY <2>1 DEF AgnIInv, AgnFresh, AgnClean
<1> QED
  BY <1>1, <1>2, AgnAfter

(* Steps after which the session is connected: nothing has to be empty.    *)
LEMMA AgnConnected ==
  ASSUME AgnIInv, NEW i \in ThreadsAgain!Listener, NEW place \in ThrPlace,
         ThreadsAgain!Goes(i, place), at[i] \notin AgnIdle, UNCHANGED mainAt,
         m_state' = "CONNECTED"
  PROVE  AgnIInv'
<1>1. AgnMoves(i, place)
  BY AgnGoes
<1>2. AgnFresh' /\ AgnPlaced(place, m_state') /\ mainAt' # "push"
  BY DEF AgnFresh, AgnPlaced, AgnIInv
<1> QED
  BY <1>1, <1>2, AgnAfter

(* Steps after which the session has ended and a thread is about to close  *)
(* it.                                                                     *)
LEMMA AgnCloses ==
  ASSUME AgnIInv, NEW i \in ThreadsAgain!Listener, NEW place \in {"flush", "read", "switch"},
         ThreadsAgain!Goes(i, place), at[i] \notin AgnIdle, UNCHANGED mainAt, m_state' = "DEAD"
  PROVE  AgnIInv'
<1>0. place \in ThrPlace
  BY DEF ThrPlace
<1>1. AgnMoves(i, place)
  BY <1>0, AgnGoes
<1>2. AgnFresh' /\ AgnPlaced(place, m_state') /\ mainAt' # "push"
  BY <1>1 DEF AgnMoves, AgnFresh, AgnPlaced, AgnIInv
<1> QED
  BY <1>0, <1>1, <1>2, AgnAfter

(* Steps after which the session has ended in a protocol error.            *)
LEMMA AgnDead ==
  ASSUME AgnIInv, NEW i \in ThreadsAgain!Listener, ThreadsAgain!Goes(i, "test"),
         at[i] \notin AgnIdle, UNCHANGED mainAt, m_state' = "DEAD", ended' = "protocol"
  PROVE  AgnIInv'
<1>0. "test" \in ThrPlace
  BY DEF ThrPlace
<1>1. AgnMoves(i, "test")
  BY <1>0, AgnGoes
<1>2. AgnFresh' /\ AgnPlaced("test", m_state') /\ mainAt' # "push"
  BY <1>1 DEF AgnMoves, AgnFresh, AgnPlaced, AgnIInv
<1> QED
  BY <1>0, <1>1, <1>2, AgnAfter

LEMMA AgnListens ==
  ASSUME AgnIInv, NEW i \in ThreadsAgain!Listener,
         \/ ThreadsAgain!DefProc(i) \/ ThreadsAgain!SysBegin(i) \/ ThreadsAgain!SysPush(i)
         \/ ThreadsAgain!TimesOut(i) \/ ThreadsAgain!FlushData(i) \/ ThreadsAgain!ReadData(i)
  PROVE  AgnIInv'
<1>0. /\ at[i] \in ThrPlace /\ AgnPlaced(at[i], m_state)
      /\ mainAt = "push" => at[i] \in AgnIdle
  BY DEF AgnIInv
<1>1. CASE ThreadsAgain!DefProc(i)
  <2>1. /\ ThreadsAgain!Working = {} /\ mainAt = "idle" /\ at[i] = "defproc"
        /\ UNCHANGED <<m_state, m_seq, m_writeBuf, m_readBuff, mainAt, ended, crashed>>
    BY <1>1 DEF ThreadsAgain!DefProc, ThreadsAgain!session, ThreadsAgain!ghosts
  <2>2. PICK place \in {"keepalive", "timeout", "read", "switch"} :
          /\ ThreadsAgain!Goes(i, place)
          /\ m_state = "CONNECTED" => place \in {"keepalive", "timeout"}
          /\ m_state = "WAITING_SEED" => place = "read"
          /\ m_state \notin {"CONNECTED", "WAITING_SEED"} => place = "switch"
    BY <1>1 DEF ThreadsAgain!DefProc
  <2>3. place \in ThrPlace /\ AgnPlaced(place, m_state)
    BY <2>2 DEF ThrPlace, AgnPlaced
  <2> QED
    BY <2>1, <2>2, <2>3, AgnPlain
<1>2. CASE ThreadsAgain!SysBegin(i) \/ ThreadsAgain!SysPush(i)
  <2>1. /\ at[i] \in {"keepalive", "reply", "keepalive_push", "reply_push"}
        /\ UNCHANGED <<m_state, mainAt>>
    BY <1>2 DEF ThreadsAgain!SysBegin, ThreadsAgain!SysPush
  <2>2. m_state = "CONNECTED" /\ at[i] \notin AgnIdle
    BY <2>1, <1>0 DEF AgnPlaced, AgnIdle
  <2>3. PICK place \in ThrPlace : ThreadsAgain!Goes(i, place)
    BY <1>2, <2>1 DEF ThreadsAgain!SysBegin, ThreadsAgain!SysPush, ThreadsAgain!PushOf,
       ThreadsAgain!Back, ThrPlace
  <2> QED
    BY <2>1, <2>2, <2>3, AgnConnected
<1>3. CASE ThreadsAgain!TimesOut(i)
  <2>1. /\ at[i] = "timeout" /\ ThreadsAgain!Goes(i, "flush") /\ UNCHANGED mainAt
        /\ m_state' = "DEAD" \/ UNCHANGED m_state
    BY <1>3 DEF ThreadsAgain!TimesOut
  <2>2. m_state = "CONNECTED" /\ at[i] \notin AgnIdle /\ "flush" \in ThrPlace
    BY <2>1, <1>0 DEF AgnPlaced, AgnIdle, ThrPlace
  <2>3. CASE m_state' = "CONNECTED"
    BY <2>1, <2>2, <2>3, AgnConnected
  <2>4. CASE m_state' = "DEAD"
    BY <2>1, <2>2, <2>4, AgnCloses
  <2> QED
    BY <2>1, <2>2, <2>3, <2>4
<1>4. CASE ThreadsAgain!FlushData(i)
  <2>1. /\ at[i] = "flush" /\ ThreadsAgain!Goes(i, "read") /\ UNCHANGED <<m_state, mainAt>>
    BY <1>4 DEF ThreadsAgain!FlushData
  <2>2. m_state \in {"CONNECTED", "DEAD"} /\ at[i] \notin AgnIdle /\ "read" \in ThrPlace
    BY <2>1, <1>0 DEF AgnPlaced, AgnIdle, ThrPlace
  <2>3. CASE m_state' = "CONNECTED"
    BY <2>1, <2>2, <2>3, AgnConnected
  <2>4. CASE m_state' = "DEAD"
    BY <2>1, <2>2, <2>4, AgnCloses
  <2> QED
    BY <2>1, <2>2, <2>3, <2>4
<1>5. CASE ThreadsAgain!ReadData(i)
  <2>1. /\ at[i] = "read" /\ ThreadsAgain!Goes(i, "switch") /\ UNCHANGED mainAt
        /\ m_state' = "DEAD" \/ UNCHANGED m_state
    BY <1>5 DEF ThreadsAgain!ReadData
  <2>2. /\ m_state \in {"CONNECTED", "DEAD", "WAITING_SEED"} /\ at[i] \notin AgnIdle
        /\ "switch" \in ThrPlace
    BY <2>1, <1>0 DEF AgnPlaced, AgnIdle, ThrPlace
  <2>3. CASE m_state' = "WAITING_SEED"
    <3>1. AgnMoves(i, "switch")
      BY <2>1, <2>2, AgnGoes
    <3>2. AgnFresh' /\ AgnPlaced("switch", m_state') /\ mainAt' # "push"
      BY <2>1, <2>2, <2>3, <1>0 DEF AgnFresh, AgnPlaced
    <3> QED
      BY <2>2, <3>1, <3>2, AgnAfter
  <2>4. CASE m_state' = "CONNECTED"
    BY <2>1, <2>2, <2>4, AgnConnected
  <2>5. CASE m_state' = "DEAD"
    BY <2>1, <2>2, <2>5, AgnCloses
  <2> QED
    BY <2>1, <2>2, <2>3, <2>4, <2>5
<1> QED
  BY <1>1, <1>2, <1>3, <1>4, <1>5

LEMMA AgnSwitches ==
  ASSUME AgnIInv, NEW i \in ThreadsAgain!Listener, ThreadsAgain!Switch(i)
  PROVE  AgnIInv'
<1>0. /\ at[i] = "switch" /\ at[i] \notin AgnIdle /\ mainAt # "push" /\ mainAt' = mainAt
      /\ {"test", "get"} \subseteq ThrPlace
  BY DEF AgnIInv, ThreadsAgain!Switch, ThreadsAgain!SwitchConnected, ThreadsAgain!SwitchDead,
     ThreadsAgain!SwitchWaiting, ThreadsAgain!SwitchConnecting, ThreadsAgain!SwitchZero, AgnIdle,
     ThrPlace
<1>1. CASE ThreadsAgain!SwitchConnected(i)
  BY <1>0, <1>1, AgnConnected DEF ThreadsAgain!SwitchConnected, ThreadsAgain!session
<1>2. CASE ThreadsAgain!SwitchDead(i)
  <2>1. AgnMoves(i, "test")
    BY <1>0, <1>2, AgnGoes DEF ThreadsAgain!SwitchDead
  <2>2. AgnClean' \/ crashed' = "null"
    BY <1>2 DEF ThreadsAgain!SwitchDead, ThreadsAgain!Reset, AgnClean
  <2>3. m_state' = "ZERO"
    BY <1>2 DEF ThreadsAgain!SwitchDead
  <2>4. AgnFresh' /\ AgnPlaced("test", m_state')
    BY <2>2, <2>3 DEF AgnFresh, AgnPlaced
  <2> QED
    BY <1>0, <2>1, <2>4, AgnAfter
<1>3. CASE ThreadsAgain!SwitchWaiting(i)
  <2>1. /\ m_state = "WAITING_SEED" /\ ThreadsAgain!Goes(i, "test")
        /\ \/ m_state' = "WAITING_SEED" \/ m_state' = "CONNECTED"
           \/ m_state' = "DEAD" /\ ended' = "protocol"
    BY <1>3 DEF ThreadsAgain!SwitchWaiting
  <2>2. CASE m_state' = "WAITING_SEED"
    <3>1. AgnMoves(i, "test")
      BY <1>0, <2>1, AgnGoes
    <3>2. AgnFresh' /\ AgnPlaced("test", m_state')
      BY <2>2 DEF AgnFresh, AgnPlaced
    <3> QED
      BY <1>0, <3>1, <3>2, AgnAfter
  <2> QED
    BY <1>0, <2>1, <2>2, AgnConnected, AgnDead
<1>4. CASE ThreadsAgain!SwitchConnecting(i)
  <2>1. m_state = "CONNECTING" /\ ThreadsAgain!Goes(i, "test")
    BY <1>4 DEF ThreadsAgain!SwitchConnecting
  <2>2. AgnMoves(i, "test")
    BY <1>0, <2>1, AgnGoes
  <2>3. CASE m_state' = "DEAD" /\ ThreadsAgain!Reset
    <3>1. AgnClean' \/ crashed' = "null"
      BY <2>3 DEF ThreadsAgain!Reset, AgnClean
    <3>2. AgnFresh' /\ AgnPlaced("test", m_state')
      BY <3>1, <2>3 DEF AgnFresh, AgnPlaced
    <3> QED
      BY <1>0, <2>2, <3>2, AgnAfter
  <2>4. CASE m_state' = "WAITING_SEED"
    <3>1. AgnFresh' /\ AgnPlaced("test", m_state')
      BY <2>4 DEF AgnFresh, AgnPlaced
    <3> QED
      BY <1>0, <2>2, <3>1, AgnAfter
  <2>5. CASE UNCHANGED <<m_state, m_seq, m_writeBuf, m_readBuff, ended, crashed>>
    <3>1. AgnFresh' /\ AgnPlaced("test", m_state')
      BY <2>1, <2>5 DEF AgnIInv, AgnFresh, AgnPlaced, AgnClean
    <3> QED
      BY <1>0, <2>2, <3>1, AgnAfter
  <2> QED
    BY <1>4, <2>3, <2>4, <2>5 DEF ThreadsAgain!SwitchConnecting, ThreadsAgain!session
<1>5. CASE ThreadsAgain!SwitchZero(i)
  <2>1. /\ m_state = "ZERO" /\ ThreadsAgain!Goes(i, "test")
        /\ UNCHANGED <<m_state, m_seq, m_writeBuf, m_readBuff, ended, crashed>>
    BY <1>5 DEF ThreadsAgain!SwitchZero, ThreadsAgain!session, ThreadsAgain!ghosts
  <2>2. AgnPlaced("test", m_state)
    BY DEF AgnPlaced
  <2> QED
    BY <1>0, <2>1, <2>2, AgnPlain
<1> QED
  BY <1>1, <1>2, <1>3, <1>4, <1>5 DEF ThreadsAgain!Switch

LEMMA AgnGets ==
  ASSUME AgnIInv, NEW i \in ThreadsAgain!Listener,
         ThreadsAgain!GetPacket(i) \/ ThreadsAgain!ThreadTest(i)
  PROVE  AgnIInv'
<1>1. CASE ThreadsAgain!GetPacket(i)
  <2>1. at[i] = "get" /\ mainAt' = mainAt
    BY <1>1 DEF ThreadsAgain!GetPacket
  <2>2. m_state = "CONNECTED" /\ at[i] \notin AgnIdle
    BY <2>1 DEF AgnIInv, AgnPlaced, AgnIdle
  <2>3. PICK place \in {"test", "reply", "get"} :
          /\ ThreadsAgain!Goes(i, place)
          /\ \/ m_state' = "DEAD" /\ ended' = "protocol" /\ place = "test"
             \/ m_state' = "CONNECTED"
    BY <1>1, <2>2 DEF ThreadsAgain!GetPacket
  <2>4. place \in ThrPlace
    BY DEF ThrPlace
  <2> QED
    BY <2>1, <2>2, <2>3, <2>4, AgnConnected, AgnDead
<1>2. CASE ThreadsAgain!ThreadTest(i)
  <2>1. /\ at[i] = "test" /\ at[i] \notin AgnIdle /\ mainAt # "push"
        /\ UNCHANGED <<m_state, m_seq, m_writeBuf, m_readBuff, mainAt, ended, crashed>>
    BY <1>2 DEF AgnIInv, AgnIdle, ThreadsAgain!ThreadTest, ThreadsAgain!session, ThreadsAgain!ghosts
  <2>2. PICK place \in {"ended", "defproc"} : ThreadsAgain!Goes(i, place)
    BY <1>2 DEF ThreadsAgain!ThreadTest
  <2>3. place \in ThrPlace /\ AgnPlaced(place, m_state)
    BY <2>2 DEF ThrPlace, AgnPlaced
  <2> QED
    BY <2>1, <2>2, <2>3, AgnPlain
<1> QED
  BY <1>1, <1>2

LEMMA AgnStep == AgnIInv /\ [ThreadsAgain!Next]_threads => AgnIInv'
<1> SUFFICES ASSUME AgnIInv, [ThreadsAgain!Next]_threads PROVE AgnIInv'
  OBVIOUS
<1>1. CASE ThreadsAgain!RemoteCloses \/ ThreadsAgain!TimePasses \/ UNCHANGED threads
  <2>1. UNCHANGED <<m_state, m_seq, m_writeBuf, m_readBuff, at, mainAt, ended, crashed>>
    BY <1>1 DEF ThreadsAgain!RemoteCloses, ThreadsAgain!TimePasses, threads, ThreadsAgain!session,
       ThreadsAgain!ghosts
  <2> QED
    BY <2>1 DEF AgnIInv, AgnFresh, AgnClean
<1>2. ASSUME NEW i \in ThreadsAgain!Listener, ThreadsAgain!ListenThread(i) PROVE AgnIInv'
  BY <1>2, AgnListens, AgnSwitches, AgnGets DEF ThreadsAgain!ListenThread
<1> QED
  BY <1>1, <1>2, AgnConnects, AgnSends DEF ThreadsAgain!Next

LEMMA AgnInit == ThreadsAgain!Init => AgnIInv
BY DEF ThreadsAgain!Init, AgnIInv, AgnIdle, AgnPlaced, AgnFresh, AgnClean, ThrPlace

LEMMA AgnIsRight == AgnIInv => ThreadsAgain!FreshStart
BY DEF AgnIInv, AgnFresh, AgnClean, ThreadsAgain!FreshStart

-----------------------------------------------------------------------------
(* TcpSession in the composition.                                          *)
SessionThreadsIInv ==
  /\ moves = "threads" => ThrIInv
  /\ moves = "threads_again" => AgnIInv

(* TcpSession.SendPacket, Process, ListenThread, Connect: packets are      *)
(* numbered one after the other, whichever thread sends them; the socket   *)
(* of a first connection is not used after Reset; only the end after a     *)
(* protocol error is told to nobody, and nothing is told after an end; and *)
(* when calls do not overlap, a new connection starts with empty buffers.  *)
THEOREM SessionThreadsCorrect == Spec => SessionThreadsAgree
<1>1. Init => SessionThreadsIInv
  BY ThrInit, AgnInit DEF SessionThreadsIInv, Init
<1>2. SessionThreadsIInv /\ [Next]_vars
      => SessionThreadsIInv' /\ [moves = "threads" => Threads!ToldOnce]_threads
  <2> SUFFICES ASSUME SessionThreadsIInv, [Next]_vars
               PROVE  SessionThreadsIInv' /\ [moves = "threads" => Threads!ToldOnce]_threads
    OBVIOUS
  <2>1. moves' = moves
    BY DEF Next, vars, SvrMoves, CliMoves, ThreadsMove, SelectMoves, PacketMoves, AliveMoves
  <2>2. (moves = "threads" /\ Threads!Next) \/ (moves = "threads_again" /\ ThreadsAgain!Next)
        \/ UNCHANGED threads
    BY DEF Next, vars, SvrMoves, CliMoves, ThreadsMove, SelectMoves, PacketMoves, AliveMoves
  <2>3. CASE moves = "threads"
    BY <2>1, <2>2, <2>3, ThrStep, ThrTold DEF SessionThreadsIInv
  <2>4. CASE moves = "threads_again"
    BY <2>1, <2>2, <2>4, AgnStep DEF SessionThreadsIInv
  <2> QED
    BY <2>1, <2>3, <2>4 DEF SessionThreadsIInv
<1>3. SessionThreadsIInv =>
        /\ moves = "threads" =>
             /\ Threads!TypeOK /\ Threads!SeqInOrder
             /\ Threads!SocketIsThere /\ Threads!UntoldIsProtocolError
        /\ moves = "threads_again" => ThreadsAgain!FreshStart
  BY ThrIsRight, AgnIsRight DEF SessionThreadsIInv
<1> QED
  BY <1>1, <1>2, <1>3, PTL DEF Spec, SessionThreadsAgree
=============================================================================
