----------------------------- MODULE KeepAlive -----------------------------
(***************************************************************************)
(* The keep-alive between server (ghs_player.cpp) and Unity client         *)
(* (Client.cs): a side that has sent nothing for an interval sends its     *)
(* clock, the other side sends it back, and the difference is the round    *)
(* trip.  The clocks count milliseconds from the start of each machine and *)
(* wrap; all comparisons are differences of the wrapped numbers.           *)
(*                                                                         *)
(* The server does everything on one thread.  The client compares in       *)
(* FixedUpdate, on the main thread, while RecvData sends on another.       *)
(***************************************************************************)
EXTENDS Naturals, Sequences

CONSTANTS Word,         \* the numbers of UI32: 2^32 in the code
          Interval,     \* 10 * 1000
          Timeout,      \* 30 * 1000
          Delay,        \* the network delivers within this time
          Offset,       \* what the clocks may show at time 0
          Serial,       \* RecvData does not run inside FixedUpdate
          MaxTime       \* bound: time

KeepAliveAssumption ==
  /\ {Word, Interval, Timeout, Delay, MaxTime} \subseteq Nat
  /\ Word > Timeout /\ Word > 2 * Delay
  /\ Timeout >= Interval + Delay + (IF Serial THEN 1 ELSE 2)
  /\ Offset \subseteq 0..(Word - 1) /\ Serial \in BOOLEAN

Side == {"server", "client"}
Other(s) == IF s = "server" THEN "client" ELSE "server"

VARIABLES
  now,                  \* time
  offset,               \* side -> what its clock showed at time 0
  m_lstSendTime, m_lstRecvTime, m_rtt,
  link,                 \* side -> the messages on their way to it
  processed,            \* the sides that had a frame in this unit of time
  read,                 \* the clock FixedUpdate has read, or Word
  sentAt, trip          \* the time of the last send; the true last round trip

vars == <<now, offset, m_lstSendTime, m_lstRecvTime, m_rtt, link, processed, read,
          sentAt, trip>>

Minus(a, b) == (a + Word - b) % Word

GetTickCount(s) == (now + offset[s]) % Word

Init ==
  /\ now = 0 /\ offset \in [Side -> Offset]
  /\ m_lstSendTime = [s \in Side |-> GetTickCount(s)]
  /\ m_lstRecvTime = [s \in Side |-> GetTickCount(s)]
  /\ m_rtt = [s \in Side |-> 0] /\ trip = [s \in Side |-> 0]
  /\ link = [s \in Side |-> <<>>]
  /\ processed = {} /\ read = Word
  /\ sentAt = [s \in Side |-> 0]

(* Time goes on when every side has had its frame and nothing is overdue.  *)
(* It may go on inside of FixedUpdate.                                     *)
Tick ==
  /\ now < MaxTime
  /\ processed = Side
  /\ \A s \in Side : \A k \in DOMAIN link[s] : now < link[s][k].sent + Delay
  /\ now' = now + 1 /\ processed' = {}
  /\ UNCHANGED <<offset, m_lstSendTime, m_lstRecvTime, m_rtt, link, read, sentAt, trip>>

(* Deviation: send() forgets to note the time. *)
Noted_Not(s) == m_lstSendTime[s]

Noted(s) == GetTickCount(s)

(* send() of both programs: the time of the send is noted.  arrived is     *)
(* what is left in the links.                                              *)
Sends(s, cmd, time, at, arrived) ==
  /\ link' = [arrived EXCEPT ![Other(s)] =
               Append(@, [cmd |-> cmd, time |-> time, at |-> at, sent |-> now])]
  /\ m_lstSendTime' = [m_lstSendTime EXCEPT ![s] = Noted(s)]
  /\ sentAt' = [sentAt EXCEPT ![s] = now]

(* Deviation: the times are compared and not their difference. *)
Quiet_NoWrap(s, t) == t > m_lstSendTime[s] + Interval

Quiet(s, t) == Minus(t, m_lstSendTime[s]) > Interval

(* GHS_Player::process, and FixedUpdate where nothing runs inside it. *)
Process(s) ==
  /\ s \notin processed /\ (s = "client" => Serial)
  /\ processed' = processed \cup {s}
  /\ IF Quiet(s, GetTickCount(s))
       THEN Sends(s, "Keep_Alive", GetTickCount(s), now, link)
       ELSE UNCHANGED <<link, m_lstSendTime, sentAt>>
  /\ UNCHANGED <<now, offset, m_lstRecvTime, m_rtt, read, trip>>

(* FixedUpdate in two steps: it reads the clock and then the variable the  *)
(* other thread writes.                                                    *)
ReadClock ==
  /\ ~Serial /\ "client" \notin processed /\ read = Word
  /\ read' = GetTickCount("client") /\ processed' = processed \cup {"client"}
  /\ UNCHANGED <<now, offset, m_lstSendTime, m_lstRecvTime, m_rtt, link, sentAt, trip>>

FixedUpdate ==
  /\ read # Word
  /\ read' = Word
  /\ IF Quiet("client", read)
       THEN Sends("client", "Keep_Alive", GetTickCount("client"), now, link)
       ELSE UNCHANGED <<link, m_lstSendTime, sentAt>>
  /\ UNCHANGED <<now, offset, m_lstRecvTime, m_rtt, processed, trip>>

(* A message of the game. *)
SendOther(s) ==
  /\ \A k \in DOMAIN link[Other(s)] : link[Other(s)][k].cmd # "other"
  /\ Sends(s, "other", 0, now, link)
  /\ UNCHANGED <<now, offset, m_lstRecvTime, m_rtt, processed, read, trip>>

(* Deviation: the answer carries the clock of the side that answers. *)
Echoed_Own(s, m) == GetTickCount(s)

Echoed(s, m) == m.time

Heard(s, m) == GetTickCount(s)

(* GHS_Player::recv and RecvData. *)
Receive(s) ==
  /\ link[s] # <<>>
  /\ LET m == Head(link[s])
         rest == [link EXCEPT ![s] = Tail(@)] IN
       /\ m_lstRecvTime' = [m_lstRecvTime EXCEPT ![s] = Heard(s, m)]
       /\ IF m.cmd = "Keep_Alive"
            THEN Sends(s, "Keep_Alive_Ack", Echoed(s, m), m.at, rest)
            ELSE link' = rest /\ UNCHANGED <<m_lstSendTime, sentAt>>
       /\ IF m.cmd = "Keep_Alive_Ack"
            THEN /\ m_rtt' = [m_rtt EXCEPT ![s] = Minus(GetTickCount(s), m.time)]
                 /\ trip' = [trip EXCEPT ![s] = now - m.at]
            ELSE UNCHANGED <<m_rtt, trip>>
  /\ UNCHANGED <<now, offset, processed, read>>

Next ==
  \/ Tick \/ ReadClock \/ FixedUpdate
  \/ \E s \in Side : Process(s) \/ SendOther(s) \/ Receive(s)

Spec == Init /\ [][Next]_vars

-----------------------------------------------------------------------------
Command == {"Keep_Alive", "Keep_Alive_Ack", "other"}

(* Every variable has its type: all clocks fit the word. *)
TypeOK ==
  /\ now \in 0..MaxTime /\ offset \in [Side -> Offset]
  /\ m_lstSendTime \in [Side -> 0..(Word - 1)]
  /\ m_lstRecvTime \in [Side -> 0..(Word - 1)]
  /\ m_rtt \in [Side -> 0..(Word - 1)] /\ trip \in [Side -> 0..MaxTime]
  /\ \A s \in Side : \A k \in DOMAIN link[s] :
       /\ link[s][k].cmd \in Command /\ link[s][k].time \in 0..(Word - 1)
       /\ {link[s][k].at, link[s][k].sent} \subseteq 0..now
  /\ processed \subseteq Side /\ read \in 0..Word
  /\ sentAt \in [Side -> 0..now]

(* The branches that call a peer dead, were they filled in, would never    *)
(* run while both programs and the network do: no side is silent for as    *)
(* long as the timeout, also when the clocks wrap.                         *)
NeverDead ==
  \A s \in Side : Minus(GetTickCount(s), m_lstRecvTime[s]) <= Timeout

(* The round trip both sides show is the time between a keep-alive and its *)
(* answer, whatever the two clocks show.                                   *)
RttIsTrip == m_rtt = trip

(* A keep-alive is sent only by a side that has really been quiet, where   *)
(* FixedUpdate is not interrupted: a message that is sent after the clock  *)
(* was read makes the difference wrap.                                     *)
SentAfterQuiet ==
  \A s \in Side :
    Len(link'[Other(s)]) > Len(link[Other(s)])
      /\ link'[Other(s)][Len(link'[Other(s)])].cmd = "Keep_Alive"
    => now - sentAt[s] > Interval
OnlyWhenQuiet == [][SentAfterQuiet]_vars
=============================================================================
