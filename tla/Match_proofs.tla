---------------------------- MODULE Match_proofs ----------------------------
(***************************************************************************)
(* What the server and the Unity client promise together (Match.tla),      *)
(* proved for every number of users, sessions and messages, and before it  *)
(* what the server's lobby promises to any client.  What they do together  *)
(* rests on the order of the channel between them: the server tests        *)
(* nothing, so what keeps a player from being matched twice is that its    *)
(* client asks, cancels and asks again in turn, and that the requests      *)
(* arrive in this order.                                                   *)
(***************************************************************************)
EXTENDS Match, SequenceTheorems, TLAPS

-----------------------------------------------------------------------------
(* The lobby alone (Lobby.tla), proved for every number of sessions,       *)
(* messages and games, and clients that send anything.  Its four           *)
(* properties are inductive together with the types: that a start goes to  *)
(* players who are ready needs that the game object and the two pointers   *)
(* to the opponent agree, and that one of the two drives the ball needs    *)
(* that no older game has the number of a new one.                         *)

IInv ==
  /\ TypeOK
  /\ QueueAtMostOne
  /\ PlayerKnowsItsGame
  /\ StartOnlyWhenReady
  /\ OneDriver

-----------------------------------------------------------------------------
(* Sessions are numbered from 1, so none of them is the null pointer.      *)
LEMMA SessionNotNone == Session \subseteq Nat /\ None \notin Session
BY LobbyAssumption DEF Session, None

(* What the server makes is a message to a client. *)
LEMMA ServerMessages ==
  /\ \A cmd \in ServerCmd : FromServer(cmd) \in ToClientMsg /\ FromServer(cmd).cmd = cmd
  /\ \A b \in BOOLEAN : GameStart(b) \in ToClientMsg
BY DEF FromServer, GameStart, ToClientMsg, ServerCmd

(* send() keeps the channels channels. *)
LEMMA DeliverType ==
  ASSUME NEW chan \in [Session -> Seq(ToClientMsg)],
         NEW s \in Session, NEW m \in ToClientMsg
  PROVE  Deliver(chan, s, m) \in [Session -> Seq(ToClientMsg)]
<1>1. Append(chan[s], m) \in Seq(ToClientMsg)
  BY AppendProperties
<1> QED
  BY <1>1 DEF Deliver

(* The starts on the way go to sessions that are ready.                    *)
StartsAreReady(chan, ready) ==
  \A s \in Session : \A k \in 1..Len(chan[s]) :
    chan[s][k].cmd \in {"GameStart", "GameStartSer"} => ready[s]

(* It stays so when a message is sent that is no start, or is for a player *)
(* who is ready.                                                           *)
LEMMA DeliverReady ==
  ASSUME NEW chan \in [Session -> Seq(ToClientMsg)], NEW ready,
         StartsAreReady(chan, ready),
         NEW s \in Session, NEW m \in ToClientMsg,
         m.cmd \in {"GameStart", "GameStartSer"} => ready[s]
  PROVE  StartsAreReady(Deliver(chan, s, m), ready)
<1> DEFINE after == Deliver(chan, s, m)
<1> SUFFICES ASSUME NEW t \in Session, NEW k \in 1..Len(after[t]),
                    after[t][k].cmd \in {"GameStart", "GameStartSer"}
             PROVE  ready[t]
  BY DEF StartsAreReady
<1>1. CASE after[t] = chan[t]
  BY <1>1 DEF StartsAreReady
<1>2. CASE t = s /\ after[t] = Append(chan[t], m)
  <2>1. /\ Len(chan[t]) \in Nat
        /\ Len(Append(chan[t], m)) = Len(chan[t]) + 1
        /\ \A i \in 1..Len(chan[t]) : Append(chan[t], m)[i] = chan[t][i]
        /\ Append(chan[t], m)[Len(chan[t]) + 1] = m
    BY AppendProperties, LenProperties
  <2>2. CASE k \in 1..Len(chan[t])
    <3>1. after[t][k] = chan[t][k]
      BY <1>2, <2>1, <2>2
    <3> QED
      BY <2>2, <3>1 DEF StartsAreReady
  <2>3. CASE k \notin 1..Len(chan[t])
    <3>1. k = Len(chan[t]) + 1
      BY <1>2, <2>1, <2>3
    <3> QED
      BY <1>2, <2>1, <3>1
  <2> QED
    BY <2>2, <2>3
<1>3. after[t] = chan[t] \/ (t = s /\ after[t] = Append(chan[t], m))
  BY DEF Deliver
<1> QED
  BY <1>1, <1>2, <1>3

(* The only one in the queue is taken out of it. *)
LEMMA UnqueuedOnly ==
  ASSUME m_queue \in Seq(Session), Len(m_queue) = 1, NEW s \in Session, m_queue[1] = s
  PROVE  Unqueued(s) = << >>
<1>1. {i \in 1..Len(m_queue) : m_queue[i] = s} = {1}
  OBVIOUS
<1>2. Min({1}) = 1
  BY DEF Min
<1>3. SelectInSeq(m_queue, LAMBDA v : v = s) = 1
  BY <1>1, <1>2 DEF SelectInSeq
<1>4. \E i \in 1..Len(m_queue) : m_queue[i] = s
  OBVIOUS
<1>5. Unqueued(s) = RemoveAt(m_queue, SelectInSeq(m_queue, LAMBDA v : v = s))
  BY <1>4, Zenon DEF Unqueued, RemoveFirst
<1>6. Unqueued(s) = RemoveAt(m_queue, 1)
  BY <1>3, <1>5, Zenon
<1>7. RemoveAt(m_queue, 1) = SubSeq(m_queue, 1, 0) \o SubSeq(m_queue, 2, 1)
  BY DEF RemoveAt
<1>8. SubSeq(m_queue, 1, 0) = << >> /\ SubSeq(m_queue, 2, 1) = << >>
  BY SubSeqEmpty
<1> QED
  BY <1>6, <1>7, <1>8

(* To take somebody out of a queue of at most one leaves such a queue.     *)
LEMMA UnqueuedType ==
  ASSUME m_queue \in Seq(Session), Len(m_queue) <= 1, NEW s \in Session
  PROVE  Unqueued(s) \in Seq(Session) /\ Len(Unqueued(s)) <= 1
<1>1. CASE \E i \in 1..Len(m_queue) : m_queue[i] = s
  <2>1. Len(m_queue) \in Nat
    BY LenProperties
  <2>2. Len(m_queue) = 1 /\ m_queue[1] = s
    <3>1. PICK i \in 1..Len(m_queue) : m_queue[i] = s
      BY <1>1
    <3>2. Len(m_queue) = 1 /\ i = 1
      BY <2>1
    <3> QED
      BY <3>1, <3>2
  <2>3. Unqueued(s) = << >>
    BY <2>2, UnqueuedOnly
  <2> QED
    BY <2>3, EmptySeq
<1>2. CASE ~(\E i \in 1..Len(m_queue) : m_queue[i] = s)
  BY <1>2 DEF Unqueued, RemoveFirst
<1> QED
  BY <1>1, <1>2

-----------------------------------------------------------------------------
(* The initial states.                                                     *)
LEMMA InitInv == LobbyInit => IInv
<1> SUFFICES ASSUME LobbyInit PROVE IInv
  OBVIOUS
<1>1. << >> \in Seq(Session) /\ << >> \in Seq(Session \X Session)
      /\ << >> \in Seq(ToServerMsg) /\ << >> \in Seq(ToClientMsg)
      /\ Len(<< >>) = 0
  BY EmptySeq
<1>2. TypeOK
  BY <1>1 DEF LobbyInit, TypeOK, None
<1>3. QueueAtMostOne
  BY <1>1 DEF LobbyInit, QueueAtMostOne
<1>4. PlayerKnowsItsGame
  BY DEF LobbyInit, PlayerKnowsItsGame, None
<1>5. StartOnlyWhenReady
  BY <1>1 DEF LobbyInit, StartOnlyWhenReady
<1>6. OneDriver
  BY DEF LobbyInit, OneDriver
<1> QED
  BY <1>2, <1>3, <1>4, <1>5, <1>6 DEF IInv

(* The properties, as the channels to the clients are concerned with only  *)
(* one of them: what a step needs to show that leaves the players alone.   *)
LEMMA PlayersUntouched ==
  ASSUME IInv, UNCHANGED playerVars,
         nextSession' \in Nat, m_players' \subseteq Session,
         toServer' \in [Session -> Seq(ToServerMsg)],
         toClient' \in [Session -> Seq(ToClientMsg)],
         StartsAreReady(toClient', m_ready)
  PROVE  IInv'
<1>1. TypeOK'
  BY DEF IInv, TypeOK, playerVars
<1>2. QueueAtMostOne' /\ PlayerKnowsItsGame' /\ OneDriver'
  BY DEF IInv, QueueAtMostOne, PlayerKnowsItsGame, OneDriver, playerVars
<1>3. StartOnlyWhenReady'
  BY DEF StartsAreReady, StartOnlyWhenReady, playerVars
<1> QED
  BY <1>1, <1>2, <1>3 DEF IInv

(* What every handler of a message may use: it was sent by the session,    *)
(* and the channel it came from is shorter now.                            *)
LEMMA OnReadFacts ==
  ASSUME IInv, NEW s \in Session, NEW cmd, OnRead(s, cmd)
  PROVE  /\ nextSession' = nextSession /\ m_players' = m_players
         /\ toServer' \in [Session -> Seq(ToServerMsg)]
         /\ Head(toServer[s]) \in ToServerMsg
         /\ Head(toServer[s]).cmd = cmd
         /\ StartsAreReady(toClient, m_ready)
<1>1. toServer[s] \in Seq(ToServerMsg) /\ toServer[s] # << >>
  BY DEF IInv, TypeOK, OnRead
<1>2. Tail(toServer[s]) \in Seq(ToServerMsg) /\ Head(toServer[s]) \in ToServerMsg
  BY <1>1, HeadTailProperties
<1> QED
  BY <1>2 DEF IInv, TypeOK, OnRead, StartsAreReady, StartOnlyWhenReady

(* A position or a shot that is passed on is a message to a client. *)
LEMMA Relayed ==
  ASSUME NEW m \in ToServerMsg, m.cmd \in {"SynchPos", "GameShot"}
  PROVE  m \in ToClientMsg
<1>1. PICK c \in PlayerCmd, f \in Session : m = [cmd |-> c, from |-> f]
  BY DEF ToServerMsg
<1>2. c \in ServerCmd
  BY <1>1 DEF ServerCmd
<1> QED
  BY <1>1, <1>2 DEF ToClientMsg

-----------------------------------------------------------------------------
(* The handlers that only send.                                            *)
LEMMA SendersKeep ==
  ASSUME IInv, NEW s \in Session,
         \/ RecvKeepAlive(s) \/ RecvKeepAliveAck(s)
         \/ RecvSynchPos(s) \/ RecvGameShot(s)
  PROVE  IInv'
<1>0. /\ toClient \in [Session -> Seq(ToClientMsg)]
      /\ nextSession \in Nat /\ m_players \subseteq Session
      /\ m_other \in [Session -> Session \cup {None}]
  BY DEF IInv, TypeOK
<1>1. CASE RecvKeepAlive(s)
  <2>1. OnRead(s, "KeepAlive") /\ UNCHANGED playerVars
        /\ toClient' = Deliver(toClient, s, FromServer("KeepAliveAck"))
    BY <1>1 DEF RecvKeepAlive
  <2>2. FromServer("KeepAliveAck") \in ToClientMsg
        /\ FromServer("KeepAliveAck").cmd = "KeepAliveAck"
    BY DEF FromServer, ToClientMsg, ServerCmd
  <2>3. toClient' \in [Session -> Seq(ToClientMsg)]
    BY <1>0, <2>1, <2>2, DeliverType
  <2>4. StartsAreReady(toClient', m_ready)
    BY <1>0, <2>1, <2>2, DeliverReady, OnReadFacts
  <2> QED
    BY <1>0, <2>1, <2>3, <2>4, OnReadFacts, PlayersUntouched
<1>2. CASE RecvKeepAliveAck(s)
  <2>1. OnRead(s, "KeepAliveAck") /\ UNCHANGED playerVars /\ toClient' = toClient
    BY <1>2 DEF RecvKeepAliveAck
  <2> QED
    BY <1>0, <2>1, OnReadFacts, PlayersUntouched
<1>3. ASSUME NEW cmd \in {"SynchPos", "GameShot"}, OnRead(s, cmd), UNCHANGED playerVars,
             \/ toClient' = toClient
             \/ m_other[s] # None /\ toClient' = Deliver(toClient, m_other[s], Head(toServer[s]))
      PROVE  IInv'
  <2>1. CASE toClient' = toClient
    BY <1>0, <1>3, <2>1, OnReadFacts, PlayersUntouched
  <2>2. CASE m_other[s] # None /\ toClient' = Deliver(toClient, m_other[s], Head(toServer[s]))
    <3>1. Head(toServer[s]) \in ToClientMsg
          /\ Head(toServer[s]).cmd \notin {"GameStart", "GameStartSer"}
      BY <1>3, OnReadFacts, Relayed
    <3>2. m_other[s] \in Session
      BY <1>0, <2>2
    <3>3. toClient' \in [Session -> Seq(ToClientMsg)]
      BY <1>0, <2>2, <3>1, <3>2, DeliverType
    <3>4. StartsAreReady(toClient', m_ready)
      BY <1>0, <1>3, <2>2, <3>1, <3>2, DeliverReady, OnReadFacts
    <3> QED
      BY <1>0, <1>3, <3>3, <3>4, OnReadFacts, PlayersUntouched
  <2> QED
    BY <1>3, <2>1, <2>2
<1>4. CASE RecvSynchPos(s)
  BY <1>3, <1>4 DEF RecvSynchPos
<1>5. CASE RecvGameShot(s)
  <2>1. m_game[s] # None => m_other[s] # None
    BY DEF IInv, PlayerKnowsItsGame
  <2> QED
    BY <1>3, <1>5, <2>1 DEF RecvGameShot, Target
<1> QED
  BY <1>1, <1>2, <1>4, <1>5

(* A new game for two sessions, or for one session with itself.            *)
LEMMA MakeGameKeeps ==
  ASSUME IInv, NEW p1 \in Session, NEW p2 \in Session, MakeGame(p1, p2)
  PROVE  /\ m_games' \in Seq(Session \X Session)
         /\ m_game' \in [Session -> Nat]
         /\ m_other' \in [Session -> Session \cup {None}]
         /\ m_bSer' \in [Session -> BOOLEAN]
         /\ toClient' \in [Session -> Seq(ToClientMsg)]
         /\ StartsAreReady(toClient', m_ready)
         /\ PlayerKnowsItsGame'
         /\ OneDriver'
<1>0. /\ m_games \in Seq(Session \X Session)
      /\ m_game \in [Session -> Nat]
      /\ m_other \in [Session -> Session \cup {None}]
      /\ m_bSer \in [Session -> BOOLEAN]
      /\ toClient \in [Session -> Seq(ToClientMsg)]
      /\ StartsAreReady(toClient, m_ready)
      /\ PlayerKnowsItsGame /\ OneDriver
  BY DEF IInv, TypeOK, StartsAreReady, StartOnlyWhenReady
<1> DEFINE n == Len(m_games) + 1
<1>1. /\ Len(m_games) \in Nat /\ Len(m_games') = n /\ n \in Nat /\ n # None
      /\ m_games' \in Seq(Session \X Session)
      /\ m_games'[n] = <<p1, p2>>
      /\ \A i \in 1..Len(m_games) : m_games'[i] = m_games[i]
  BY <1>0, AppendProperties, LenProperties DEF MakeGame, None
<1>2. /\ m_game' \in [Session -> Nat]
      /\ \A s \in Session : m_game'[s] = IF s \in {p1, p2} THEN n ELSE m_game[s]
  BY <1>0, <1>1 DEF MakeGame, InitGame
<1>3. /\ m_other' \in [Session -> Session \cup {None}]
      /\ m_other'[p2] = p1 /\ m_other'[p1] = p2
      /\ \A s \in Session \ {p1, p2} : m_other'[s] = m_other[s]
  BY <1>0 DEF MakeGame, InitOther
<1>4. /\ m_bSer' \in [Session -> BOOLEAN]
      /\ m_bSer'[p2] = FALSE
      /\ p1 # p2 => m_bSer'[p1] = TRUE
      /\ \A s \in Session \ {p1, p2} : m_bSer'[s] = m_bSer[s]
  BY <1>0, Zenon DEF MakeGame, InitRole
<1>5. /\ toClient' \in [Session -> Seq(ToClientMsg)]
      /\ StartsAreReady(toClient', m_ready)
  <2>1. FromServer("GameInit") \in ToClientMsg
        /\ FromServer("GameInit").cmd = "GameInit"
    BY DEF FromServer, ToClientMsg, ServerCmd
  <2> DEFINE once == Deliver(toClient, p1, FromServer("GameInit"))
  <2>2. once \in [Session -> Seq(ToClientMsg)] /\ StartsAreReady(once, m_ready)
    BY <1>0, <2>1, DeliverType, DeliverReady
  <2>3. toClient' = Deliver(once, p2, FromServer("GameInit"))
    BY DEF MakeGame
  <2> HIDE DEF once
  <2> QED
    BY <2>1, <2>2, <2>3, DeliverType, DeliverReady
<1>6. PlayerKnowsItsGame'
  <2> SUFFICES ASSUME NEW s \in Session
               PROVE  /\ m_game'[s] = None <=> m_other'[s] = None
                      /\ m_game'[s] # None =>
                           /\ m_game'[s] \in 1..Len(m_games')
                           /\ m_games'[m_game'[s]] \in {<<s, m_other'[s]>>, <<m_other'[s], s>>}
    BY DEF PlayerKnowsItsGame
  <2>1. CASE s \in {p1, p2}
    <3>1. m_game'[s] = n
      BY <1>2, <2>1
    <3>2. m_other'[s] \in Session /\ <<p1, p2>> \in {<<s, m_other'[s]>>, <<m_other'[s], s>>}
      BY <1>3, <2>1
    <3> QED
      BY <1>1, <3>1, <3>2, SessionNotNone DEF None
  <2>2. CASE s \notin {p1, p2}
    <3>1. m_game'[s] = m_game[s] /\ m_other'[s] = m_other[s]
      BY <1>2, <1>3, <2>2
    <3>2. /\ m_game[s] = None <=> m_other[s] = None
          /\ m_game[s] # None =>
               /\ m_game[s] \in 1..Len(m_games)
               /\ m_games[m_game[s]] \in {<<s, m_other[s]>>, <<m_other[s], s>>}
      BY <1>0 DEF PlayerKnowsItsGame
    <3>3. m_game[s] # None =>
            m_game[s] \in 1..n /\ m_games'[m_game[s]] = m_games[m_game[s]]
      BY <1>1, <3>2
    <3> QED
      BY <1>1, <3>1, <3>2, <3>3
  <2> QED
    BY <2>1, <2>2
<1>7. OneDriver'
  <2> SUFFICES ASSUME NEW s \in Session, NEW t \in Session, s # t,
                      m_game'[s] # None, m_game'[s] = m_game'[t]
               PROVE  m_bSer'[s] # m_bSer'[t]
    BY DEF OneDriver
  <2>1. \A u \in Session : m_game[u] # n
    BY <1>0, <1>1 DEF PlayerKnowsItsGame, None
  <2>2. CASE s \in {p1, p2} /\ t \in {p1, p2}
    BY <1>4, <2>2
  <2>3. CASE s \notin {p1, p2} /\ t \notin {p1, p2}
    BY <1>0, <1>2, <1>4, <2>3 DEF OneDriver
  <2> QED
    BY <1>2, <2>1, <2>2, <2>3
<1> QED
  BY <1>1, <1>2, <1>3, <1>4, <1>5, <1>6, <1>7

(* enqueue(), with or without a match.                                     *)
LEMMA AutoMatchKeeps ==
  ASSUME IInv, NEW s \in Session, RecvAutoMatch(s)
  PROVE  IInv'
<1>0. m_queue \in Seq(Session) /\ Len(m_queue) <= 1 /\ Len(m_queue) \in Nat
  BY LenProperties DEF IInv, TypeOK, QueueAtMostOne
<1>1. /\ OnRead(s, "AutoMatch") /\ m_ready' = m_ready
      /\ nextSession \in Nat /\ m_players \subseteq Session
      /\ m_ready \in [Session -> BOOLEAN]
  BY DEF RecvAutoMatch, IInv, TypeOK
<1> DEFINE q == Append(m_queue, s)
<1>2. q \in Seq(Session) /\ Len(q) = Len(m_queue) + 1
  BY <1>0, AppendProperties
<1>3. CASE Len(q) >= 2
  <2>1. m_queue' = SubSeq(q, 3, Len(q)) /\ MakeGame(q[1], q[2])
    BY <1>3 DEF RecvAutoMatch, Queued, Enough
  <2>2. Len(q) = 2 /\ q[1] \in Session /\ q[2] \in Session
    BY <1>0, <1>2, <1>3, ElementOfSeq
  <2>3. m_queue' = << >>
    BY <2>1, <2>2, SubSeqEmpty
  <2>4. m_queue' \in Seq(Session) /\ Len(m_queue') <= 1
    BY <2>3, EmptySeq
  <2> HIDE DEF q
  <2>5. /\ m_games' \in Seq(Session \X Session)
        /\ m_game' \in [Session -> Nat]
        /\ m_other' \in [Session -> Session \cup {None}]
        /\ m_bSer' \in [Session -> BOOLEAN]
        /\ toClient' \in [Session -> Seq(ToClientMsg)]
        /\ StartsAreReady(toClient', m_ready)
        /\ PlayerKnowsItsGame' /\ OneDriver'
    BY <2>1, <2>2, MakeGameKeeps
  <2>6. TypeOK'
    BY <1>1, <2>4, <2>5, OnReadFacts DEF TypeOK
  <2> QED
    BY <1>1, <2>4, <2>5, <2>6
       DEF IInv, QueueAtMostOne, StartsAreReady, StartOnlyWhenReady
<1>4. CASE ~(Len(q) >= 2)
  <2>1. /\ m_queue' = q
        /\ UNCHANGED <<m_games, m_game, m_other, m_bSer, toClient>>
    BY <1>4 DEF RecvAutoMatch, Queued, Enough
  <2>2. m_queue' \in Seq(Session) /\ Len(m_queue') <= 1
    BY <1>0, <1>2, <1>4, <2>1
  <2>3. TypeOK'
    BY <1>1, <2>1, <2>2, OnReadFacts DEF IInv, TypeOK
  <2> QED
    BY <1>1, <2>1, <2>2, <2>3
       DEF IInv, QueueAtMostOne, StartOnlyWhenReady, PlayerKnowsItsGame, OneDriver
<1> QED
  BY <1>3, <1>4

(* unqueue().                                                              *)
LEMMA UAutoMatchKeeps ==
  ASSUME IInv, NEW s \in Session, RecvUAutoMatch(s)
  PROVE  IInv'
<1>1. /\ OnRead(s, "UAutoMatch") /\ m_queue' = Unqueued(s)
      /\ UNCHANGED <<m_games, m_game, m_other, m_ready, m_bSer, toClient>>
  BY DEF RecvUAutoMatch
<1>2. m_queue' \in Seq(Session) /\ Len(m_queue') <= 1
  BY <1>1, UnqueuedType DEF IInv, TypeOK, QueueAtMostOne
<1>3. TypeOK'
  BY <1>1, <1>2, OnReadFacts DEF IInv, TypeOK
<1> QED
  BY <1>1, <1>2, <1>3
     DEF IInv, QueueAtMostOne, StartOnlyWhenReady, PlayerKnowsItsGame, OneDriver

(* A ready message: the start, if there is one, goes to the two of the     *)
(* game object, and these are the sender and the opponent that was tested. *)
LEMMA GameReadyKeeps ==
  ASSUME IInv, NEW s \in Session, RecvGameReady(s)
  PROVE  IInv'
<1> DEFINE ready == [m_ready EXCEPT ![s] = TRUE]
<1>0. /\ toClient \in [Session -> Seq(ToClientMsg)]
      /\ m_other \in [Session -> Session \cup {None}]
      /\ m_ready \in [Session -> BOOLEAN] /\ m_bSer \in [Session -> BOOLEAN]
      /\ nextSession \in Nat /\ m_players \subseteq Session
  BY DEF IInv, TypeOK
<1>1. /\ OnRead(s, "GameReady") /\ m_ready' = ready
      /\ toClient' = IF OpponentReady(s, ready) THEN Start(m_games[m_game[s]]) ELSE toClient
      /\ UNCHANGED <<m_queue, m_games, m_game, m_other, m_bSer>>
  BY DEF RecvGameReady
<1>2. /\ ready \in [Session -> BOOLEAN] /\ ready[s]
      /\ \A t \in Session : m_ready[t] => ready[t]
  BY <1>0
<1>3. StartsAreReady(toClient, ready)
  BY <1>1, <1>2, OnReadFacts DEF StartsAreReady
<1> HIDE DEF ready
<1>4. /\ toClient' \in [Session -> Seq(ToClientMsg)]
      /\ StartsAreReady(toClient', ready)
  <2>1. CASE ~OpponentReady(s, ready)
    BY <1>0, <1>1, <1>3, <2>1
  <2>2. CASE OpponentReady(s, ready)
    <3> DEFINE t == m_other[s]
               g == m_games[m_game[s]]
               once == Deliver(toClient, g[1], GameStart(m_bSer[g[1]]))
    <3>1. t \in Session /\ ready[t] /\ t # None
      BY <1>0, <2>2 DEF OpponentReady
    <3>2. g \in {<<s, t>>, <<t, s>>}
      BY <3>1 DEF IInv, PlayerKnowsItsGame
    <3>3. /\ g[1] \in Session /\ g[2] \in Session
          /\ ready[g[1]] /\ ready[g[2]]
      BY <1>2, <3>1, <3>2
    <3>4. toClient' = Deliver(once, g[2], GameStart(m_bSer[g[2]]))
      BY <1>1, <2>2 DEF Start
    <3> HIDE DEF g
    <3>5. m_bSer[g[1]] \in BOOLEAN /\ m_bSer[g[2]] \in BOOLEAN
      BY <1>0, <3>3
    <3>6. GameStart(m_bSer[g[1]]) \in ToClientMsg /\ GameStart(m_bSer[g[2]]) \in ToClientMsg
      BY <3>5, ServerMessages
    <3>7. once \in [Session -> Seq(ToClientMsg)] /\ StartsAreReady(once, ready)
      BY <1>0, <1>3, <3>3, <3>6, DeliverType, DeliverReady
    <3> HIDE DEF once
    <3> QED
      BY <3>3, <3>4, <3>6, <3>7, DeliverType, DeliverReady
  <2> QED
    BY <2>1, <2>2
<1>5. TypeOK'
  BY <1>1, <1>2, <1>4, OnReadFacts DEF IInv, TypeOK
<1> QED
  BY <1>1, <1>4, <1>5
     DEF IInv, QueueAtMostOne, PlayerKnowsItsGame, OneDriver, StartsAreReady,
         StartOnlyWhenReady

-----------------------------------------------------------------------------
(* Connections that come and go, the keep-alive, and the clients: none of  *)
(* them touches the players.                                               *)
LEMMA TableKeeps ==
  ASSUME IInv, NEW s \in Session, OnCon(s) \/ OnDisCon(s)
  PROVE  IInv'
<1>0. /\ nextSession \in Nat /\ m_players \subseteq Session
      /\ toServer \in [Session -> Seq(ToServerMsg)]
      /\ toClient \in [Session -> Seq(ToClientMsg)]
      /\ StartsAreReady(toClient, m_ready)
  BY DEF IInv, TypeOK, StartsAreReady, StartOnlyWhenReady
<1>1. nextSession' \in Nat /\ m_players' \subseteq Session
  <2>1. s + 1 \in Nat
    BY SessionNotNone
  <2>2. \/ nextSession' = s + 1 /\ m_players' = m_players \cup {s}
        \/ nextSession' = nextSession /\ m_players' = m_players \ {s}
    BY Zenon DEF OnCon, OnDisCon
  <2> QED
    BY <1>0, <2>1, <2>2
<1>2. toServer' \in [Session -> Seq(ToServerMsg)]
  <2>1. << >> \in Seq(ToServerMsg)
    BY EmptySeq
  <2> QED
    BY <1>0, <2>1 DEF OnCon, OnDisCon
<1>3. toClient' = toClient /\ UNCHANGED playerVars
  BY DEF OnCon, OnDisCon
<1> QED
  BY <1>0, <1>1, <1>2, <1>3, PlayersUntouched

LEMMA ProcessKeeps ==
  ASSUME IInv, NEW idle, Process(idle)
  PROVE  IInv'
<1>0. /\ nextSession \in Nat /\ m_players \subseteq Session
      /\ toServer \in [Session -> Seq(ToServerMsg)]
      /\ toClient \in [Session -> Seq(ToClientMsg)]
      /\ StartsAreReady(toClient, m_ready)
  BY DEF IInv, TypeOK, StartsAreReady, StartOnlyWhenReady
<1> DEFINE m == FromServer("KeepAlive")
<1>1. m \in ToClientMsg /\ m.cmd = "KeepAlive"
  BY DEF FromServer, ToClientMsg, ServerCmd
<1>2. /\ nextSession' = nextSession /\ m_players' = m_players
      /\ toServer' = toServer /\ UNCHANGED playerVars
      /\ toClient' = [s \in Session |->
                        IF s \in idle THEN Append(toClient[s], m) ELSE toClient[s]]
  BY DEF Process
<1> HIDE DEF m
<1>3. toClient' \in [Session -> Seq(ToClientMsg)]
  BY <1>0, <1>1, <1>2, AppendProperties
<1>4. StartsAreReady(toClient', m_ready)
  <2> SUFFICES ASSUME NEW s \in Session, NEW k \in 1..Len(toClient'[s]),
                      toClient'[s][k].cmd \in {"GameStart", "GameStartSer"}
               PROVE  m_ready[s]
    BY DEF StartsAreReady
  <2>1. CASE s \notin idle
    BY <1>0, <1>2, <2>1 DEF StartsAreReady
  <2>2. CASE s \in idle
    <3>1. /\ toClient'[s] = Append(toClient[s], m)
          /\ toClient[s] \in Seq(ToClientMsg)
      BY <1>0, <1>2, <2>2
    <3>2. /\ Len(toClient[s]) \in Nat
          /\ Len(toClient'[s]) = Len(toClient[s]) + 1
          /\ \A i \in 1..Len(toClient[s]) : toClient'[s][i] = toClient[s][i]
          /\ toClient'[s][Len(toClient[s]) + 1] = m
      BY <1>1, <3>1, AppendProperties, LenProperties
    <3>3. CASE k \in 1..Len(toClient[s])
      BY <1>0, <3>2, <3>3 DEF StartsAreReady
    <3>4. CASE k = Len(toClient[s]) + 1
      BY <1>1, <3>2, <3>4
    <3> QED
      BY <3>2, <3>3, <3>4
  <2> QED
    BY <2>1, <2>2
<1> QED
  BY <1>0, <1>2, <1>3, <1>4, PlayersUntouched

LEMMA ClientsKeep ==
  ASSUME IInv, NEW s \in Session,
         ClientTakes(s) \/ \E cmd \in ClientCmd : ClientSends(s, cmd)
  PROVE  IInv'
<1>0. /\ nextSession \in Nat /\ m_players \subseteq Session
      /\ toServer \in [Session -> Seq(ToServerMsg)]
      /\ toClient \in [Session -> Seq(ToClientMsg)]
      /\ StartsAreReady(toClient, m_ready)
  BY DEF IInv, TypeOK, StartsAreReady, StartOnlyWhenReady
<1>1. ASSUME NEW cmd \in ClientCmd, ClientSends(s, cmd)
      PROVE  IInv'
  <2>1. Append(toServer[s], Msg(cmd, s)) \in Seq(ToServerMsg)
    <3>1. Msg(cmd, s) \in ToServerMsg
      BY LobbyAssumption DEF Msg, ToServerMsg
    <3> QED
      BY <1>0, <3>1, AppendProperties
  <2>2. toServer' \in [Session -> Seq(ToServerMsg)]
    BY <1>0, <1>1, <2>1 DEF ClientSends
  <2> QED
    BY <1>0, <1>1, <2>2, PlayersUntouched DEF ClientSends
<1>2. ASSUME ClientTakes(s)
      PROVE  IInv'
  <2>1. toClient[s] \in Seq(ToClientMsg) /\ toClient[s] # << >>
        /\ toClient' = [toClient EXCEPT ![s] = Tail(@)]
        /\ UNCHANGED <<nextSession, m_players, playerVars, toServer>>
    BY <1>0, <1>2 DEF ClientTakes
  <2>2. /\ Tail(toClient[s]) \in Seq(ToClientMsg)
        /\ Len(toClient[s]) \in Nat
        /\ Len(Tail(toClient[s])) = Len(toClient[s]) - 1
        /\ \A k \in 1..Len(Tail(toClient[s])) : Tail(toClient[s])[k] = toClient[s][k + 1]
    BY <2>1, HeadTailProperties, LenProperties
  <2>3. toClient' \in [Session -> Seq(ToClientMsg)]
    BY <1>0, <2>1, <2>2
  <2>4. StartsAreReady(toClient', m_ready)
    <3> SUFFICES ASSUME NEW t \in Session, NEW k \in 1..Len(toClient'[t]),
                        toClient'[t][k].cmd \in {"GameStart", "GameStartSer"}
                 PROVE  m_ready[t]
      BY DEF StartsAreReady
    <3>1. CASE t # s
      BY <1>0, <2>1, <3>1 DEF StartsAreReady
    <3>2. CASE t = s
      <4>1. toClient'[s] = Tail(toClient[s])
        BY <1>0, <2>1
      <4>2. toClient'[s][k] = toClient[s][k + 1] /\ k + 1 \in 1..Len(toClient[s])
        BY <2>2, <3>2, <4>1
      <4> QED
        BY <1>0, <3>2, <4>2 DEF StartsAreReady
    <3> QED
      BY <3>1, <3>2
  <2> QED
    BY <1>0, <2>1, <2>3, <2>4, PlayersUntouched
<1> QED
  BY <1>1, <1>2

-----------------------------------------------------------------------------
(* Every step of the server and of arbitrary clients keeps the invariant.  *)
LEMMA StepInv == IInv /\ [LobbyNext]_lobbyVars => IInv'
<1> SUFFICES ASSUME IInv, [LobbyNext]_lobbyVars
             PROVE  IInv'
  OBVIOUS
<1>1. CASE UNCHANGED lobbyVars
  <2>1. TypeOK'
    BY <1>1 DEF IInv, TypeOK, lobbyVars, playerVars
  <2> QED
    BY <1>1, <2>1 DEF IInv, lobbyVars, playerVars, QueueAtMostOne,
                      PlayerKnowsItsGame, StartOnlyWhenReady, OneDriver
<1>2. ASSUME NEW idle, Process(idle)
      PROVE  IInv'
  BY <1>2, ProcessKeeps
<1>3. ASSUME NEW s \in Session, Recv(s)
      PROVE  IInv'
  BY <1>3, SendersKeep, AutoMatchKeeps, UAutoMatchKeeps, GameReadyKeeps DEF Recv
<1>4. ASSUME NEW s \in Session,
             \/ OnCon(s) \/ OnDisCon(s) \/ ClientTakes(s)
             \/ \E cmd \in ClientCmd : ClientSends(s, cmd)
      PROVE  IInv'
  BY <1>4, TableKeeps, ClientsKeep
<1> QED
  BY <1>1, <1>2, <1>3, <1>4 DEF LobbyNext

(* All of it holds in every state of the server.                           *)
THEOREM Invariance == LobbySpec => []IInv
BY InitInv, StepInv, PTL DEF LobbySpec

(* The queue never holds two players: one match per request is enough.     *)
THEOREM QueueStaysShort == LobbySpec => []QueueAtMostOne
<1>1. IInv => QueueAtMostOne
  BY DEF IInv
<1> QED
  BY <1>1, Invariance, PTL

(* m_game, m_other and the game objects agree, for clients that send what  *)
(* they like and leave when they like: no null pointer is followed.        *)
THEOREM GamesAgree == LobbySpec => []PlayerKnowsItsGame
<1>1. IInv => PlayerKnowsItsGame
  BY DEF IInv
<1> QED
  BY <1>1, Invariance, PTL

(* GameStart goes only to clients that have sent GameReady.                *)
THEOREM NobodyStartsUnready == LobbySpec => []StartOnlyWhenReady
<1>1. IInv => StartOnlyWhenReady
  BY DEF IInv
<1> QED
  BY <1>1, Invariance, PTL

(* Of the two players of a game one drives the ball and one follows.       *)
THEOREM OneOfTwoDrives == LobbySpec => []OneDriver
<1>1. IInv => OneDriver
  BY DEF IInv
<1> QED
  BY <1>1, Invariance, PTL

(* The variables of the server have their types.                           *)
THEOREM TypeCorrect == LobbySpec => []TypeOK
<1>1. IInv => TypeOK
  BY DEF IInv
<1> QED
  BY <1>1, Invariance, PTL

-----------------------------------------------------------------------------
(* Server and client together: the invariant.                              *)

(* Who has a session: serials are given out in order, each to one user.    *)
SessionsInOrder ==
  /\ nextSession \in Nat \ {0}
  /\ \A s \in m_players : s < nextSession
  /\ \A u \in User : Online(u) => sess[u] < nextSession
  /\ \A u, v \in User : Online(u) /\ sess[u] = sess[v] => u = v

(* A session that nobody has yet has left no trace on the server. *)
InQueue(s) == \E i \in 1..Len(m_queue) : m_queue[i] = s

FreshSessions ==
  \A s \in Session : s >= nextSession =>
    toServer[s] = <<>> /\ toClient[s] = <<>> /\ ~InQueue(s) /\ m_game[s] = None

(* A button assigns the state after it, and assigns it at once without     *)
(* GuiRace; a client only cancels where it may.                            *)
ButtonStates ==
  /\ gui \in [User -> {Idle, "WaitingToMatch", "WaitingToStart", "Connected"}]
  /\ ~MayCancel => \A u \in User : gui[u] # "Connected"
  /\ ~GuiRace => \A u \in User : gui[u] = Idle

(* What is on the way from a session was sent by its client. *)
SentBy(s) ==
  {m \in ToServerMsg : m.from = s /\ (~MayCancel => m.cmd # "UAutoMatch")}
SignedBySender == \A s \in Session : toServer[s] \in Seq(SentBy(s))

(* The requests c on the way from one client, oldest first: between two    *)
(* for a match there is a cancellation; there is one before each of them;  *)
(* there is one behind each of them.                                       *)
Sent(c, cmd) == \E k \in 1..Len(c) : c[k].cmd = cmd

Alternate(c) ==
  \A i, j \in 1..Len(c) :
    i < j /\ c[i].cmd = "AutoMatch" /\ c[j].cmd = "AutoMatch" =>
      \E k \in 1..Len(c) : i < k /\ k < j /\ c[k].cmd = "UAutoMatch"

CancelledBefore(c) ==
  \A j \in 1..Len(c) : c[j].cmd = "AutoMatch" =>
    \E k \in 1..Len(c) : k < j /\ c[k].cmd = "UAutoMatch"

CancelledBehind(c) ==
  \A i \in 1..Len(c) : c[i].cmd = "AutoMatch" =>
    \E k \in 1..Len(c) : i < k /\ c[k].cmd = "UAutoMatch"

(* A client that may ask for a match, now or when its button is done. *)
MayAsk(u) ==
  /\ Online(u)
  /\ (m_state[u] = "Connected" /\ gui[u] = Idle) \/ gui[u] = "Connected"

(* Who may ask is not in the queue any more when the request arrives. *)
AsksInTurn ==
  /\ \A s \in m_players :
       /\ Alternate(toServer[s])
       /\ InQueue(s) => CancelledBefore(toServer[s])
  /\ \A u \in User : MayAsk(u) /\ sess[u] \in m_players =>
       /\ CancelledBehind(toServer[sess[u]])
       /\ InQueue(sess[u]) => Sent(toServer[sess[u]], "UAutoMatch")

(* What holds whatever the users may do. *)
Base ==
  /\ IInv
  /\ ClientTypeOK
  /\ SessionsInOrder
  /\ FreshSessions
  /\ ButtonStates
  /\ SignedBySender

MatchInv == Base /\ AsksInTurn

(* The last request of a client is not cancelled. *)
StillAsks(c) ==
  \E i \in 1..Len(c) :
    /\ c[i].cmd = "AutoMatch"
    /\ \A k \in 1..Len(c) : i < k => c[k].cmd # "UAutoMatch"

(* Who waits has asked, or was queued and has not cancelled.  The answer   *)
(* is on the way, or, where a button may write over it, was given.         *)
Answered(s) ==
  IF GuiRace THEN m_game[s] # None ELSE Sent(toClient[s], "GameInit")

StillWaits(s) ==
  \/ StillAsks(toServer[s])
  \/ /\ ~Sent(toServer[s], "UAutoMatch")
     /\ InQueue(s) \/ Answered(s)

(* A client that shows that it waits, or is about to. *)
Waiting(u) ==
  (m_state[u] = "WaitingToMatch" /\ gui[u] = Idle) \/ gui[u] = "WaitingToMatch"

WaitersWait ==
  \A u \in User : Waiting(u) /\ sess[u] \in m_players => StillWaits(sess[u])

(* Without "Cancel Match": who asks, waits or may ask has no game. *)
GamelessAsk ==
  /\ \A s \in Session : InQueue(s) => m_game[s] = None
  /\ \A s \in m_players : Sent(toServer[s], "AutoMatch") => m_game[s] = None
  /\ \A u \in User : MayAsk(u) /\ sess[u] \in m_players => m_game[sess[u]] = None

(* Two opponents point to each other and are in one game. *)
OneOpponent ==
  \A s \in Session : m_other[s] # None =>
    m_other[s] # s /\ m_other[m_other[s]] = s /\ m_game[m_other[s]] = m_game[s]

(* The session is in a game of two who are ready, and has the role bSer. *)
Starting(s, bSer) ==
  m_other[s] # None /\ m_ready[s] /\ m_ready[m_other[s]] /\ m_bSer[s] = bSer

(* The messages to a client that are true of its player. *)
TrueTo(s) ==
  {m \in ToClientMsg :
     /\ m.cmd = "GameStart" => Starting(s, FALSE)
     /\ m.cmd = "GameStartSer" => Starting(s, TRUE)
     /\ m.cmd \in {"GameShot", "SynchPos"} => m_other[s] # None /\ m.from = m_other[s]}

InboxTrue == \A s \in Session : toClient[s] \in Seq(TrueTo(s))

RunningTrue ==
  \A u \in User : m_state[u] = "GameRunning" /\ Online(u) =>
    Starting(sess[u], drives[u])

OnceInv == GamelessAsk /\ OneOpponent /\ InboxTrue /\ RunningTrue

-----------------------------------------------------------------------------
(* The channels.                                                           *)

(* One message more at the end of the requests. *)
LEMMA AppendRequest ==
  ASSUME NEW T, NEW c \in Seq(T), NEW m \in T
  PROVE  /\ \A cmd : Sent(Append(c, m), cmd) <=> Sent(c, cmd) \/ m.cmd = cmd
         /\ Alternate(c) /\ (m.cmd = "AutoMatch" => CancelledBehind(c))
              => Alternate(Append(c, m))
         /\ CancelledBefore(c) /\ (m.cmd = "AutoMatch" => Sent(c, "UAutoMatch"))
              => CancelledBefore(Append(c, m))
         /\ CancelledBehind(c) /\ m.cmd # "AutoMatch" => CancelledBehind(Append(c, m))
         /\ m.cmd = "UAutoMatch" => CancelledBehind(Append(c, m))
         /\ StillAsks(c) /\ m.cmd # "UAutoMatch" => StillAsks(Append(c, m))
         /\ m.cmd = "AutoMatch" => StillAsks(Append(c, m))
<1> DEFINE d == Append(c, m)
           n == Len(c)
<1>1. /\ n \in Nat /\ Len(d) = n + 1
      /\ \A i \in 1..n : d[i] = c[i]
      /\ d[n + 1] = m
  BY AppendProperties, LenProperties
<1>2. 1..Len(d) = (1..n) \cup {n + 1} /\ n + 1 \notin 1..n
  BY <1>1
<1>3. \A i \in 1..n : i < n + 1
  BY <1>1
<1> HIDE DEF d, n
<1>4. \A cmd : Sent(d, cmd) <=> Sent(c, cmd) \/ m.cmd = cmd
  BY <1>1, <1>2 DEF Sent, n
<1>5. Alternate(c) /\ (m.cmd = "AutoMatch" => CancelledBehind(c)) => Alternate(d)
  BY <1>1, <1>2, <1>3 DEF Alternate, CancelledBehind, n
<1>6. CancelledBefore(c) /\ (m.cmd = "AutoMatch" => Sent(c, "UAutoMatch"))
        => CancelledBefore(d)
  BY <1>1, <1>2, <1>3 DEF CancelledBefore, Sent, n
<1>7. CancelledBehind(c) /\ m.cmd # "AutoMatch" => CancelledBehind(d)
  BY <1>1, <1>2, <1>3 DEF CancelledBehind, n
<1>8. m.cmd = "UAutoMatch" => CancelledBehind(d)
  BY <1>1, <1>2, <1>3 DEF CancelledBehind
<1>9. StillAsks(c) /\ m.cmd # "UAutoMatch" => StillAsks(d)
  BY <1>1, <1>2, <1>3 DEF StillAsks, n
<1>10. m.cmd = "AutoMatch" => StillAsks(d)
  BY <1>1, <1>2, <1>3 DEF StillAsks
<1> QED
  BY <1>4, <1>5, <1>6, <1>7, <1>8, <1>9, <1>10 DEF d

(* The oldest request taken. *)
LEMMA TakeRequest ==
  ASSUME NEW T, NEW c \in Seq(T), c # << >>
  PROVE  /\ Sent(c, Head(c).cmd)
         /\ \A cmd : Sent(Tail(c), cmd) => Sent(c, cmd)
         /\ \A cmd : Sent(c, cmd) /\ Head(c).cmd # cmd => Sent(Tail(c), cmd)
         /\ Alternate(c) => Alternate(Tail(c))
         /\ CancelledBefore(c) /\ Head(c).cmd # "UAutoMatch" => CancelledBefore(Tail(c))
         /\ Alternate(c) /\ Head(c).cmd = "AutoMatch" => CancelledBefore(Tail(c))
         /\ CancelledBefore(c) => Head(c).cmd # "AutoMatch"
         /\ CancelledBehind(c) => CancelledBehind(Tail(c))
         /\ CancelledBehind(c) /\ Head(c).cmd = "AutoMatch" => Sent(Tail(c), "UAutoMatch")
         /\ StillAsks(c) =>
              StillAsks(Tail(c)) \/ (Head(c).cmd = "AutoMatch" /\ ~Sent(Tail(c), "UAutoMatch"))
<1> DEFINE d == Tail(c)
           n == Len(d)
<1>1. /\ n \in Nat /\ Len(c) = n + 1
      /\ \A i \in 1..n : d[i] = c[i + 1]
      /\ Head(c) = c[1]
  BY HeadTailProperties, LenProperties
<1>2. /\ \A i \in 1..n : i + 1 \in 1..Len(c)
      /\ \A i \in 1..Len(c) : i = 1 \/ (i - 1 \in 1..n /\ d[i - 1] = c[i])
      /\ 1 \in 1..Len(c)
  <2>1. \A i \in 1..Len(c) : i = 1 \/ (i - 1 \in 1..n /\ (i - 1) + 1 = i)
    BY <1>1
  <2> QED
    BY <1>1, <2>1
<1> HIDE DEF d, n
<1>3. \A cmd : Sent(d, cmd) => Sent(c, cmd)
  BY <1>1, <1>2 DEF Sent, n
<1>4. \A cmd : Sent(c, cmd) /\ Head(c).cmd # cmd => Sent(d, cmd)
  BY <1>1, <1>2 DEF Sent, n
<1>5. Alternate(c) => Alternate(d)
  <2> SUFFICES ASSUME Alternate(c), NEW i \in 1..n, NEW j \in 1..n, i < j,
                      d[i].cmd = "AutoMatch", d[j].cmd = "AutoMatch"
               PROVE  \E k \in 1..n : i < k /\ k < j /\ d[k].cmd = "UAutoMatch"
    BY DEF Alternate, n
  <2>1. i + 1 < j + 1 /\ c[i + 1].cmd = "AutoMatch" /\ c[j + 1].cmd = "AutoMatch"
    BY <1>1
  <2>2. PICK k \in 1..Len(c) : i + 1 < k /\ k < j + 1 /\ c[k].cmd = "UAutoMatch"
    BY <1>2, <2>1 DEF Alternate
  <2>3. k - 1 \in 1..n /\ i < k - 1 /\ k - 1 < j /\ d[k - 1] = c[k]
    BY <1>1, <1>2, <2>2
  <2> QED
    BY <2>2, <2>3
<1>6. ASSUME NEW j \in 1..n,
             \E k \in 1..Len(c) : k < j + 1 /\ k # 1 /\ c[k].cmd = "UAutoMatch"
      PROVE  \E k \in 1..n : k < j /\ d[k].cmd = "UAutoMatch"
  <2>1. PICK k \in 1..Len(c) : k < j + 1 /\ k # 1 /\ c[k].cmd = "UAutoMatch"
    BY <1>6
  <2>2. k - 1 \in 1..n /\ k - 1 < j /\ d[k - 1] = c[k]
    BY <1>1, <1>2, <2>1
  <2> QED
    BY <2>1, <2>2
<1>7. CancelledBefore(c) /\ Head(c).cmd # "UAutoMatch" => CancelledBefore(d)
  BY <1>1, <1>2, <1>6 DEF CancelledBefore, n
<1>8. Alternate(c) /\ Head(c).cmd = "AutoMatch" => CancelledBefore(d)
  <2> SUFFICES ASSUME Alternate(c), c[1].cmd = "AutoMatch",
                      NEW j \in 1..n, d[j].cmd = "AutoMatch"
               PROVE  \E k \in 1..n : k < j /\ d[k].cmd = "UAutoMatch"
    BY <1>1 DEF CancelledBefore, n
  <2>1. 1 < j + 1 /\ j + 1 \in 1..Len(c) /\ c[j + 1].cmd = "AutoMatch"
    BY <1>1
  <2>2. PICK k \in 1..Len(c) : 1 < k /\ k < j + 1 /\ c[k].cmd = "UAutoMatch"
    BY <1>2, <2>1 DEF Alternate
  <2> QED
    BY <1>6, <2>2
<1>9. CancelledBefore(c) => Head(c).cmd # "AutoMatch"
  BY <1>1, <1>2 DEF CancelledBefore
<1>10. CancelledBehind(c) => CancelledBehind(d)
  <2> SUFFICES ASSUME CancelledBehind(c), NEW i \in 1..n, d[i].cmd = "AutoMatch"
               PROVE  \E k \in 1..n : i < k /\ d[k].cmd = "UAutoMatch"
    BY DEF CancelledBehind, n
  <2>1. PICK k \in 1..Len(c) : i + 1 < k /\ c[k].cmd = "UAutoMatch"
    BY <1>1, <1>2 DEF CancelledBehind
  <2>2. k - 1 \in 1..n /\ i < k - 1 /\ d[k - 1] = c[k]
    BY <1>1, <1>2, <2>1
  <2> QED
    BY <2>1, <2>2
<1>11. CancelledBehind(c) /\ Head(c).cmd = "AutoMatch" => Sent(d, "UAutoMatch")
  BY <1>1, <1>2 DEF CancelledBehind, Sent, n
<1>12. StillAsks(c) =>
         StillAsks(d) \/ (Head(c).cmd = "AutoMatch" /\ ~Sent(d, "UAutoMatch"))
  <2> SUFFICES ASSUME NEW i \in 1..Len(c), c[i].cmd = "AutoMatch",
                      \A k \in 1..Len(c) : i < k => c[k].cmd # "UAutoMatch"
               PROVE  StillAsks(d) \/ (c[1].cmd = "AutoMatch" /\ ~Sent(d, "UAutoMatch"))
    BY <1>1 DEF StillAsks
  <2>1. CASE i = 1
    <3>1. \A k \in 1..n : i < k + 1 /\ d[k] = c[k + 1]
      BY <1>1, <2>1
    <3> QED
      BY <1>2, <2>1, <3>1 DEF Sent, n
  <2>2. CASE i # 1
    <3>1. i - 1 \in 1..n /\ d[i - 1] = c[i]
      BY <1>2, <2>2
    <3>2. \A k \in 1..n : i - 1 < k => i < k + 1 /\ d[k] = c[k + 1]
      BY <1>1
    <3>3. \A k \in 1..n : i - 1 < k => d[k].cmd # "UAutoMatch"
      BY <1>2, <3>2
    <3> QED
      BY <3>1, <3>3 DEF StillAsks, n
  <2> QED
    BY <2>1, <2>2
<1>13. Sent(c, Head(c).cmd)
  BY <1>1, <1>2 DEF Sent
<1> QED
  BY <1>3, <1>4, <1>5, <1>6, <1>7, <1>8, <1>9, <1>10, <1>11, <1>12, <1>13 DEF d

(* Nothing was requested. *)
LEMMA NoRequest ==
  /\ Alternate(<< >>) /\ CancelledBefore(<< >>) /\ CancelledBehind(<< >>)
  /\ \A cmd : ~Sent(<< >>, cmd)
<1>1. 1..Len(<< >>) = {}
  OBVIOUS
<1> QED
  BY <1>1 DEF Alternate, CancelledBefore, CancelledBehind, Sent

(* Sequences of fewer values. *)
LEMMA SeqOfSubset ==
  ASSUME NEW S, NEW T, S \subseteq T
  PROVE  Seq(S) \subseteq Seq(T)
BY SeqDef

(* Elements and sequences.                                                 *)
LEMMA SeqOfElements ==
  ASSUME NEW S, NEW T, NEW c \in Seq(T), \A k \in 1..Len(c) : c[k] \in S
  PROVE  c \in Seq(S)
<1>1. PICK n \in Nat : c \in [1..n -> T]
  BY SeqDef
<1>2. Len(c) = n /\ c = [k \in 1..n |-> c[k]]
  BY <1>1, LenProperties
<1>3. c \in [1..n -> S]
  BY <1>2
<1> QED
  BY <1>3, SeqDef

(* A client takes from its inbox, or loses it: nothing is added to any. *)
InboxShrinks ==
  /\ toClient' \in [Session -> Seq(ToClientMsg)]
  /\ \A s \in Session :
       \/ toClient'[s] = toClient[s]
       \/ toClient[s] # << >> /\ toClient'[s] = Tail(toClient[s])
       \/ toClient'[s] = << >>

LEMMA ShrinkKeeps ==
  ASSUME InboxShrinks, NEW s \in Session, NEW S, toClient[s] \in Seq(S)
  PROVE  toClient'[s] \in Seq(S)
<1>1. toClient[s] # << >> => Tail(toClient[s]) \in Seq(S)
  BY HeadTailProperties
<1>2. << >> \in Seq(S)
  BY EmptySeq
<1> QED
  BY <1>1, <1>2 DEF InboxShrinks

(* The steps of the clients leave the players alone. *)
LEMMA ClientKeepsLobby ==
  ASSUME IInv, UNCHANGED playerVars,
         nextSession' \in Nat, m_players' \subseteq Session,
         toServer' \in [Session -> Seq(ToServerMsg)],
         InboxShrinks
  PROVE  IInv'
<1> DEFINE Ok(s) == {m \in ToClientMsg : m.cmd \in {"GameStart", "GameStartSer"} => m_ready[s]}
<1>1. /\ toClient \in [Session -> Seq(ToClientMsg)]
      /\ toClient' \in [Session -> Seq(ToClientMsg)]
      /\ StartOnlyWhenReady
  BY DEF IInv, TypeOK, InboxShrinks
<1>2. ASSUME NEW s \in Session
      PROVE  toClient[s] \in Seq(Ok(s))
  <2>1. toClient[s] \in Seq(ToClientMsg)
    BY <1>1
  <2>2. \A k \in 1..Len(toClient[s]) : toClient[s][k] \in Ok(s)
    BY <1>1, <2>1, ElementOfSeq DEF StartOnlyWhenReady
  <2> HIDE DEF Ok
  <2> QED
    BY <2>1, <2>2, SeqOfElements
<1>3. StartsAreReady(toClient', m_ready)
  <2> SUFFICES ASSUME NEW s \in Session, NEW k \in 1..Len(toClient'[s]),
                      toClient'[s][k].cmd \in {"GameStart", "GameStartSer"}
               PROVE  m_ready[s]
    BY DEF StartsAreReady
  <2>1. toClient'[s] \in Seq(Ok(s))
    <3>1. toClient[s] \in Seq(Ok(s))
      BY <1>2
    <3> HIDE DEF Ok
    <3> QED
      BY <3>1, ShrinkKeeps
  <2>2. toClient'[s][k] \in Ok(s)
    <3> HIDE DEF Ok
    <3> QED
      BY <2>1, ElementOfSeq
  <2> QED
    BY <2>2
<1> QED
  BY <1>1, <1>3, PlayersUntouched

(* What enqueue() does to the queue, and when it makes a game. *)
LEMMA EnqueueEffect ==
  ASSUME IInv, NEW s \in Session, RecvAutoMatch(s)
  PROVE  \/ /\ \A t : ~InQueue(t)
            /\ \A t : InQueue(t)' <=> t = s
            /\ UNCHANGED <<m_games, m_game, m_other, m_bSer, toClient>>
         \/ \E p \in Session :
              /\ \A t : InQueue(t) <=> t = p
              /\ \A t : ~InQueue(t)'
              /\ MakeGame(p, s)
<1> DEFINE q == Append(m_queue, s)
<1>1. m_queue \in Seq(Session) /\ Len(m_queue) <= 1 /\ Len(m_queue) \in Nat
  BY LenProperties DEF IInv, TypeOK, QueueAtMostOne
<1>2. /\ q \in Seq(Session) /\ Len(q) = Len(m_queue) + 1
      /\ \A i \in 1..Len(m_queue) : q[i] = m_queue[i]
      /\ q[Len(m_queue) + 1] = s
  BY <1>1, AppendProperties
<1>3. IF Len(q) >= 2
      THEN m_queue' = SubSeq(q, 3, Len(q)) /\ MakeGame(q[1], q[2])
      ELSE m_queue' = q /\ UNCHANGED <<m_games, m_game, m_other, m_bSer, toClient>>
  BY DEF RecvAutoMatch, Queued, Enough
<1> HIDE DEF q
<1>4. CASE Len(m_queue) = 0
  <2>1. Len(q) = 1 /\ q[1] = s /\ 1..Len(m_queue) = {}
    BY <1>2, <1>4
  <2>2. m_queue' = q /\ UNCHANGED <<m_games, m_game, m_other, m_bSer, toClient>>
    BY <1>3, <2>1
  <2>3. \A t : ~InQueue(t)
    BY <2>1 DEF InQueue
  <2>4. \A t : InQueue(t)' <=> t = s
    <3>1. m_queue' = q
      BY <2>2
    <3>2. Len(m_queue') = 1 /\ m_queue'[1] = s
      BY <2>1, <3>1, Zenon
    <3>3. 1..Len(m_queue') = {1}
      BY <3>2
    <3> QED
      BY <3>2, <3>3 DEF InQueue
  <2> QED
    BY <2>2, <2>3, <2>4
<1>5. CASE Len(m_queue) = 1
  <2>1. /\ Len(q) = 2 /\ q[1] = m_queue[1] /\ q[2] = s /\ m_queue[1] \in Session
        /\ 1..Len(m_queue) = {1}
    BY <1>1, <1>2, <1>5, ElementOfSeq
  <2>2. m_queue' = << >> /\ MakeGame(m_queue[1], s)
    BY <1>3, <2>1, SubSeqEmpty
  <2>3. \A t : InQueue(t) <=> t = m_queue[1]
    BY <2>1 DEF InQueue
  <2>4. \A t : ~InQueue(t)'
    BY <2>2 DEF InQueue
  <2> QED
    BY <2>1, <2>2, <2>3, <2>4
<1>6. Len(m_queue) = 0 \/ Len(m_queue) = 1
  <2>1. Len(m_queue) \in Nat /\ Len(m_queue) <= 1
    BY <1>1
  <2>2. \A n \in Nat : n <= 1 => n = 0 \/ n = 1
    OBVIOUS
  <2> QED
    BY <2>1, <2>2, Zenon
<1> QED
  BY <1>4, <1>5, <1>6, Zenon

(* unqueue() takes the session out, and nobody else. *)
LEMMA UnqueueEffect ==
  ASSUME IInv, NEW s \in Session, RecvUAutoMatch(s)
  PROVE  \A t : InQueue(t)' <=> InQueue(t) /\ t # s
<1>1. m_queue \in Seq(Session) /\ Len(m_queue) <= 1 /\ m_queue' = Unqueued(s)
  BY DEF IInv, TypeOK, QueueAtMostOne, RecvUAutoMatch
<1>2. Len(m_queue) \in Nat /\ Len(m_queue) <= 1
  BY <1>1, LenProperties
<1>3. CASE \E i \in 1..Len(m_queue) : m_queue[i] = s
  <2>1. Len(m_queue) = 1 /\ m_queue[1] = s
    <3>1. PICK i \in 1..Len(m_queue) : m_queue[i] = s
      BY <1>3
    <3>2. Len(m_queue) = 1 /\ i = 1
      BY <1>2, <3>1
    <3> QED
      BY <3>1, <3>2
  <2>2. Unqueued(s) = << >>
    BY <1>1, <2>1, UnqueuedOnly
  <2>3. \A t : ~InQueue(t)'
    BY <1>1, <2>2 DEF InQueue
  <2>4. \A t : InQueue(t) => t = s
    BY <2>1 DEF InQueue
  <2> QED
    BY <2>3, <2>4
<1>4. CASE ~(\E i \in 1..Len(m_queue) : m_queue[i] = s)
  <2>1. m_queue' = m_queue
    BY <1>1, <1>4 DEF Unqueued, RemoveFirst
  <2> QED
    BY <1>4, <2>1 DEF InQueue
<1> QED
  BY <1>3, <1>4

-----------------------------------------------------------------------------
(* What the steps do to the channels.                                      *)

(* A client that is online sends a message. *)
Says(u, cmd) ==
  /\ Online(u)
  /\ cmd \in PlayerCmd /\ (cmd = "UAutoMatch" => MayCancel)
  /\ toServer' = [toServer EXCEPT ![sess[u]] = Append(@, Msg(cmd, sess[u]))]
  /\ UNCHANGED <<nextSession, m_players, playerVars, sess>>

LEMMA SaysEffect ==
  ASSUME Base, NEW u \in User, NEW cmd, Says(u, cmd)
  PROVE  /\ sess[u] \in Session /\ sess[u] < nextSession
         /\ Msg(cmd, sess[u]) \in SentBy(sess[u]) /\ Msg(cmd, sess[u]).cmd = cmd
         /\ toServer[sess[u]] \in Seq(SentBy(sess[u]))
         /\ toServer'[sess[u]] = Append(toServer[sess[u]], Msg(cmd, sess[u]))
         /\ \A t \in Session \ {sess[u]} : toServer'[t] = toServer[t]
         /\ toServer' \in [Session -> Seq(ToServerMsg)]
         /\ SignedBySender'
<1> DEFINE s == sess[u]
           m == Msg(cmd, s)
<1>1. s \in Session /\ s < nextSession
  BY DEF Base, ClientTypeOK, SessionsInOrder, Says, Online
<1>2. m \in SentBy(s) /\ m.cmd = cmd
  BY <1>1 DEF Says, Msg, SentBy, ToServerMsg
<1>3. /\ toServer \in [Session -> Seq(ToServerMsg)]
      /\ \A t \in Session : toServer[t] \in Seq(SentBy(t))
      /\ toServer' = [toServer EXCEPT ![s] = Append(toServer[s], m)]
  BY DEF Base, IInv, TypeOK, SignedBySender, Says
<1> HIDE DEF m, s
<1>4. Append(toServer[s], m) \in Seq(SentBy(s)) /\ SentBy(s) \subseteq ToServerMsg
  <2>1. SentBy(s) \subseteq ToServerMsg
    BY DEF SentBy
  <2> QED
    BY <1>1, <1>2, <1>3, <2>1, AppendProperties
<1>5. Append(toServer[s], m) \in Seq(ToServerMsg)
  BY <1>4, SeqOfSubset
<1>6. /\ toServer'[s] = Append(toServer[s], m)
      /\ \A t \in Session \ {s} : toServer'[t] = toServer[t]
      /\ toServer' \in [Session -> Seq(ToServerMsg)]
  BY <1>1, <1>3, <1>5
<1>7. SignedBySender'
  <2> SUFFICES ASSUME NEW t \in Session PROVE toServer'[t] \in Seq(SentBy(t))
    BY DEF SignedBySender, SentBy
  <2> QED
    BY <1>3, <1>4, <1>6
<1> QED
  BY <1>1, <1>2, <1>3, <1>6, <1>7 DEF s, m

(* The server takes the oldest message of a session in its table. *)
LEMMA ReadEffect ==
  ASSUME Base, NEW s \in Session, NEW cmd, OnRead(s, cmd)
  PROVE  /\ s \in m_players /\ s < nextSession
         /\ toServer[s] \in Seq(SentBy(s)) /\ toServer[s] # << >>
         /\ Head(toServer[s]) \in SentBy(s) /\ Head(toServer[s]).cmd = cmd
         /\ toServer'[s] = Tail(toServer[s])
         /\ \A t \in Session \ {s} : toServer'[t] = toServer[t]
         /\ SignedBySender'
<1>1. /\ s \in m_players /\ toServer[s] # << >> /\ Head(toServer[s]).cmd = cmd
      /\ toServer' = [toServer EXCEPT ![s] = Tail(toServer[s])]
      /\ toServer \in [Session -> Seq(ToServerMsg)]
      /\ \A t \in Session : toServer[t] \in Seq(SentBy(t))
      /\ s < nextSession
  BY DEF Base, IInv, TypeOK, SignedBySender, SessionsInOrder, OnRead
<1>2. Tail(toServer[s]) \in Seq(SentBy(s)) /\ Head(toServer[s]) \in SentBy(s)
  BY <1>1, HeadTailProperties
<1>3. toServer'[s] = Tail(toServer[s])
      /\ \A t \in Session \ {s} : toServer'[t] = toServer[t]
  BY <1>1
<1>4. SignedBySender'
  <2> SUFFICES ASSUME NEW t \in Session PROVE toServer'[t] \in Seq(SentBy(t))
    BY DEF SignedBySender, SentBy
  <2> QED
    BY <1>1, <1>2, <1>3
<1> QED
  BY <1>1, <1>2, <1>3, <1>4

(* What send() adds goes to sessions in the table, and nothing is lost. *)
InboxGrows(after) ==
  \A t \in Session :
    /\ t \notin m_players => after[t] = toClient[t]
    /\ \A cmd : Sent(toClient[t], cmd) => Sent(after[t], cmd)

LEMMA DeliverEffect ==
  ASSUME NEW chan \in [Session -> Seq(ToClientMsg)], InboxGrows(chan),
         NEW s \in Session, NEW m \in ToClientMsg
  PROVE  /\ Deliver(chan, s, m) \in [Session -> Seq(ToClientMsg)]
         /\ InboxGrows(Deliver(chan, s, m))
         /\ s \in m_players => Sent(Deliver(chan, s, m)[s], m.cmd)
         /\ \A cmd : Sent(chan[s], cmd) => Sent(Deliver(chan, s, m)[s], cmd)
         /\ \A t \in Session \ {s} : Deliver(chan, s, m)[t] = chan[t]
<1> DEFINE after == Deliver(chan, s, m)
<1>1. after \in [Session -> Seq(ToClientMsg)]
  BY DeliverType
<1>2. /\ s \notin m_players => after[s] = chan[s]
      /\ s \in m_players => after[s] = Append(chan[s], m)
      /\ \A t \in Session \ {s} : after[t] = chan[t]
  BY DEF Deliver
<1>3. \A cmd : Sent(Append(chan[s], m), cmd) <=> Sent(chan[s], cmd) \/ m.cmd = cmd
  BY AppendRequest
<1> HIDE DEF after
<1>4. InboxGrows(after)
  BY <1>2, <1>3 DEF InboxGrows
<1> QED
  BY <1>1, <1>2, <1>3, <1>4 DEF after

(* The two who are matched are told so. *)
LEMMA MakeGameInbox ==
  ASSUME IInv, NEW p \in Session, NEW s \in Session, MakeGame(p, s)
  PROVE  /\ InboxGrows(toClient')
         /\ \A t \in {p, s} \cap m_players : Sent(toClient'[t], "GameInit")
         /\ \A t \in Session \ {p, s} : toClient'[t] = toClient[t]
<1> DEFINE m == FromServer("GameInit")
           once == Deliver(toClient, p, m)
<1>1. /\ toClient \in [Session -> Seq(ToClientMsg)]
      /\ InboxGrows(toClient)
      /\ m \in ToClientMsg /\ m.cmd = "GameInit"
      /\ toClient' = Deliver(once, s, m)
  BY ServerMessages DEF IInv, TypeOK, InboxGrows, MakeGame, ServerCmd
<1> HIDE DEF m
<1>2. /\ once \in [Session -> Seq(ToClientMsg)] /\ InboxGrows(once)
  BY <1>1, DeliverEffect
<1>3. p \in m_players => Sent(once[p], m.cmd)
  BY <1>1, DeliverEffect, Zenon
<1>4. \A t \in Session \ {p} : once[t] = toClient[t]
  BY <1>1 DEF Deliver
<1> HIDE DEF once
<1>5. /\ InboxGrows(toClient')
      /\ \A t \in Session \ {s} : toClient'[t] = once[t]
  BY <1>1, <1>2, DeliverEffect
<1>6. /\ s \in m_players => Sent(toClient'[s], m.cmd)
      /\ \A cmd : Sent(once[s], cmd) => Sent(toClient'[s], cmd)
  BY <1>1, <1>2, DeliverEffect, Zenon
<1> QED
  BY <1>1, <1>2, <1>3, <1>4, <1>5, <1>6

(* No handler loses a message to a client. *)
LEMMA RecvInbox ==
  ASSUME Base, NEW s \in Session, Recv(s)
  PROVE  InboxGrows(toClient')
<1>0. /\ toClient \in [Session -> Seq(ToClientMsg)]
      /\ m_other \in [Session -> Session \cup {None}]
      /\ m_bSer \in [Session -> BOOLEAN] /\ m_ready \in [Session -> BOOLEAN]
      /\ IInv
  BY DEF Base, IInv, TypeOK
<1>1. InboxGrows(toClient)
  BY DEF InboxGrows
<1>2. CASE RecvKeepAlive(s)
  <2>1. FromServer("KeepAliveAck") \in ToClientMsg
    BY ServerMessages DEF ServerCmd
  <2> QED
    BY <1>0, <1>1, <1>2, <2>1, DeliverEffect DEF RecvKeepAlive
<1>3. CASE RecvKeepAliveAck(s) \/ RecvUAutoMatch(s)
  BY <1>1, <1>3 DEF RecvKeepAliveAck, RecvUAutoMatch
<1>4. ASSUME NEW cmd \in {"SynchPos", "GameShot"}, OnRead(s, cmd),
             \/ toClient' = toClient
             \/ m_other[s] # None /\ toClient' = Deliver(toClient, m_other[s], Head(toServer[s]))
      PROVE  InboxGrows(toClient')
  <2>1. Head(toServer[s]) \in ToClientMsg
    BY <1>0, <1>4, OnReadFacts, Relayed
  <2>2. CASE toClient' = toClient
    BY <1>1, <2>2
  <2>3. CASE m_other[s] # None /\ toClient' = Deliver(toClient, m_other[s], Head(toServer[s]))
    <3>1. m_other[s] \in Session
      BY <1>0, <2>3
    <3> QED
      BY <1>0, <1>1, <2>1, <2>3, <3>1, DeliverEffect
  <2> QED
    BY <1>4, <2>2, <2>3
<1>5. CASE RecvSynchPos(s)
  BY <1>4, <1>5 DEF RecvSynchPos
<1>6. CASE RecvGameShot(s)
  <2>1. m_game[s] # None => m_other[s] # None
    BY <1>0 DEF IInv, PlayerKnowsItsGame
  <2> QED
    BY <1>4, <1>6, <2>1 DEF RecvGameShot, Target
<1>7. CASE RecvAutoMatch(s)
  <2>1. CASE UNCHANGED toClient
    BY <1>1, <2>1
  <2>2. ASSUME NEW p \in Session, MakeGame(p, s) PROVE InboxGrows(toClient')
    BY <1>0, <2>2, MakeGameInbox
  <2> QED
    BY <1>0, <1>7, <2>1, <2>2, EnqueueEffect
<1>8. CASE RecvGameReady(s)
  <2>1. CASE toClient' = toClient
    BY <1>1, <2>1
  <2>2. CASE m_other[s] # None /\ toClient' = Start(m_games[m_game[s]])
    <3> DEFINE g == m_games[m_game[s]]
               once == Deliver(toClient, g[1], GameStart(m_bSer[g[1]]))
    <3>1. g \in {<<s, m_other[s]>>, <<m_other[s], s>>}
      BY <1>0, <2>2 DEF IInv, PlayerKnowsItsGame
    <3>2. g[1] \in Session /\ g[2] \in Session
      BY <1>0, <2>2, <3>1
    <3>3. toClient' = Deliver(once, g[2], GameStart(m_bSer[g[2]]))
      BY <2>2 DEF Start
    <3> HIDE DEF g
    <3>4. GameStart(m_bSer[g[1]]) \in ToClientMsg /\ GameStart(m_bSer[g[2]]) \in ToClientMsg
      BY <1>0, <3>2, ServerMessages
    <3>5. once \in [Session -> Seq(ToClientMsg)] /\ InboxGrows(once)
      BY <1>0, <1>1, <3>2, <3>4, DeliverEffect
    <3> HIDE DEF once
    <3> QED
      BY <3>2, <3>3, <3>4, <3>5, DeliverEffect
  <2> QED
    BY <1>8, <2>1, <2>2 DEF RecvGameReady, OpponentReady
<1> QED
  BY <1>2, <1>3, <1>5, <1>6, <1>7, <1>8 DEF Recv

-----------------------------------------------------------------------------
(* What the steps of a client amount to: it sends a message, or it sends   *)
(* nothing; who did not may ask for a match may do so only after it has    *)
(* cancelled.                                                              *)
Speaks(u, cmd) ==
  /\ Says(u, cmd)
  /\ cmd = "AutoMatch" => MayAsk(u) /\ ~MayAsk(u)'
  /\ MayAsk(u)' => MayAsk(u) \/ cmd = "UAutoMatch"
  /\ \A v \in User \ {u} : MayAsk(v)' => MayAsk(v)

Listens ==
  /\ UNCHANGED <<nextSession, m_players, playerVars, toServer>>
  /\ \A v \in User : sess'[v] \in {sess[v], None} /\ (MayAsk(v)' => MayAsk(v))

ClientStep(u) ==
  \/ PressAutomatch(u) \/ PressCancel(u) \/ PressReady(u)
  \/ PressDisconnect(u) \/ ButtonAssigns(u)
  \/ RecvData(u) \/ ClientClose(u) \/ KeepsAlive(u)
  \/ \E cmd \in {"GameShot", "SynchPos"} : Plays(u, cmd)

ClientEffect(u) ==
  /\ ClientTypeOK' /\ ButtonStates' /\ InboxShrinks
  /\ Listens \/ \E cmd : Speaks(u, cmd)

(* The states a button leads to. *)
LEMMA States ==
  /\ Idle \notin State /\ "Connected" \in State /\ "Disconnected" \in State
  /\ {"WaitingToMatch", "WaitingToStart", "GameInit", "GameRunning"} \subseteq State
BY DEF Idle, State

LEMMA PressEffect ==
  ASSUME Base, NEW u \in User, NEW now, NEW cmd, NEW next, Press(u, now, cmd, next),
         \/ now = "Connected" /\ cmd = "AutoMatch" /\ next = "WaitingToMatch"
         \/ now = "WaitingToMatch" /\ cmd = "UAutoMatch" /\ next = "Connected" /\ MayCancel
         \/ now = "GameInit" /\ cmd = "GameReady" /\ next = "WaitingToStart"
  PROVE  /\ ClientTypeOK' /\ ButtonStates' /\ InboxShrinks
         /\ Speaks(u, cmd)
<1>1. /\ m_state \in [User -> State] /\ sess \in [User -> Session \cup {None}]
      /\ gui \in [User -> State \cup {Idle}]
      /\ drives \in [User -> BOOLEAN] /\ started \in [User -> BOOLEAN]
      /\ toClient \in [Session -> Seq(ToClientMsg)]
  BY DEF Base, IInv, TypeOK, ClientTypeOK
<1>2. /\ gui \in [User -> {Idle, "WaitingToMatch", "WaitingToStart", "Connected"}]
      /\ ~MayCancel => \A v \in User : gui[v] # "Connected"
      /\ ~GuiRace => \A v \in User : gui[v] = Idle
  BY DEF Base, ButtonStates
<1>3. /\ m_state[u] = now /\ gui[u] = Idle /\ Online(u)
      /\ toServer' = [toServer EXCEPT ![sess[u]] = Append(@, Msg(cmd, sess[u]))]
      /\ UNCHANGED <<nextSession, m_players, playerVars, toClient, sess, drives, started>>
      /\ next \in {"WaitingToMatch", "WaitingToStart", "Connected"}
      /\ next = "Connected" => MayCancel
      /\ cmd \in {"AutoMatch", "UAutoMatch", "GameReady"}
  BY DEF Press, gameVars
<1>4. \/ GuiRace /\ gui' = [gui EXCEPT ![u] = next] /\ m_state' = m_state
      \/ ~GuiRace /\ m_state' = [m_state EXCEPT ![u] = next] /\ gui' = gui
  BY DEF Press
<1>5. InboxShrinks
  BY <1>1, <1>3 DEF InboxShrinks
<1>6. /\ m_state' \in [User -> State]
      /\ gui' \in [User -> {Idle, "WaitingToMatch", "WaitingToStart", "Connected"}]
      /\ \A v \in User \ {u} : m_state'[v] = m_state[v] /\ gui'[v] = gui[v]
      /\ \/ GuiRace /\ gui'[u] = next /\ m_state'[u] = m_state[u]
         \/ ~GuiRace /\ m_state'[u] = next /\ gui'[u] = gui[u]
  <2>1. CASE GuiRace /\ gui' = [gui EXCEPT ![u] = next] /\ m_state' = m_state
    BY <1>1, <1>2, <1>3, <2>1
  <2>2. CASE ~GuiRace /\ m_state' = [m_state EXCEPT ![u] = next] /\ gui' = gui
    <3>1. next \in State
      BY <1>3, States
    <3> QED
      BY <1>1, <1>2, <2>2, <3>1
  <2> QED
    BY <1>4, <2>1, <2>2
<1>7. ButtonStates'
  BY <1>2, <1>3, <1>6 DEF ButtonStates
<1>8. ClientTypeOK'
  BY <1>1, <1>3, <1>6, States DEF ClientTypeOK
<1>9. Says(u, cmd)
  BY <1>3 DEF Says, PlayerCmd
<1>10. \A v \in User \ {u} : MayAsk(v)' => MayAsk(v)
  BY <1>3, <1>6 DEF MayAsk, Online
<1>11. /\ cmd = "AutoMatch" => MayAsk(u) /\ ~MayAsk(u)'
       /\ MayAsk(u)' => MayAsk(u) \/ cmd = "UAutoMatch"
  BY <1>3, <1>6 DEF MayAsk, Online, Idle
<1> QED
  BY <1>5, <1>7, <1>8, <1>9, <1>10, <1>11 DEF Speaks

LEMMA ClientStepEffect ==
  ASSUME Base, NEW u \in User, ClientStep(u)
  PROVE  ClientEffect(u)
<1>1. /\ m_state \in [User -> State] /\ sess \in [User -> Session \cup {None}]
      /\ gui \in [User -> State \cup {Idle}]
      /\ drives \in [User -> BOOLEAN] /\ started \in [User -> BOOLEAN]
      /\ toClient \in [Session -> Seq(ToClientMsg)]
      /\ toServer \in [Session -> Seq(ToServerMsg)]
  BY DEF Base, IInv, TypeOK, ClientTypeOK
<1>2. /\ gui \in [User -> {Idle, "WaitingToMatch", "WaitingToStart", "Connected"}]
      /\ ~MayCancel => \A v \in User : gui[v] # "Connected"
      /\ ~GuiRace => \A v \in User : gui[v] = Idle
  BY DEF Base, ButtonStates
<1>3. CASE PressAutomatch(u) \/ PressCancel(u) \/ PressReady(u)
  BY <1>3, PressEffect DEF PressAutomatch, PressCancel, PressReady, ClientEffect
<1>4. CASE ButtonAssigns(u)
  <2>1. /\ gui[u] # Idle
        /\ m_state' = [m_state EXCEPT ![u] = gui[u]]
        /\ gui' = [gui EXCEPT ![u] = Idle]
        /\ UNCHANGED <<nextSession, m_players, playerVars, toServer, toClient, sess, drives, started>>
    BY <1>4 DEF ButtonAssigns, lobbyVars, gameVars
  <2>2. InboxShrinks
    BY <1>1, <2>1 DEF InboxShrinks
  <2>3. /\ m_state' \in [User -> State]
        /\ gui' \in [User -> {Idle, "WaitingToMatch", "WaitingToStart", "Connected"}]
        /\ \A v \in User \ {u} : m_state'[v] = m_state[v] /\ gui'[v] = gui[v]
        /\ m_state'[u] = gui[u] /\ gui'[u] = Idle
    BY <1>1, <1>2, <2>1, States
  <2>4. ButtonStates'
    BY <1>2, <2>3 DEF ButtonStates, Idle
  <2>5. ClientTypeOK'
    BY <1>1, <2>1, <2>3, States DEF ClientTypeOK
  <2>6. \A v \in User : MayAsk(v)' => MayAsk(v)
    BY <2>1, <2>3 DEF MayAsk, Online, Idle
  <2> QED
    BY <2>1, <2>2, <2>4, <2>5, <2>6 DEF Listens, ClientEffect
<1>5. CASE PressDisconnect(u) \/ ClientClose(u)
  <2>1. /\ m_state' = [m_state EXCEPT ![u] = "Disconnected"]
        /\ sess' = [sess EXCEPT ![u] = None]
        /\ UNCHANGED <<nextSession, m_players, playerVars, toServer, gui, drives, started>>
    BY <1>5 DEF PressDisconnect, ClientClose, gameVars
  <2>2. InboxShrinks
    <3>1. << >> \in Seq(ToClientMsg)
      BY EmptySeq
    <3>2. \/ toClient' = [s \in Session |-> IF s = sess[u] THEN << >> ELSE toClient[s]]
          \/ toClient' = [toClient EXCEPT ![sess[u]] = << >>]
      BY <1>5 DEF PressDisconnect, ClientClose
    <3> QED
      BY <1>1, <3>1, <3>2 DEF InboxShrinks
  <2>3. /\ m_state' \in [User -> State] /\ sess' \in [User -> Session \cup {None}]
        /\ \A v \in User \ {u} : m_state'[v] = m_state[v] /\ sess'[v] = sess[v]
        /\ sess'[u] = None
    BY <1>1, <2>1, States
  <2>4. ButtonStates'
    BY <1>2, <2>1 DEF ButtonStates
  <2>5. ClientTypeOK'
    BY <1>1, <2>1, <2>3 DEF ClientTypeOK
  <2>6. \A v \in User : MayAsk(v)' => MayAsk(v)
    BY <2>1, <2>3 DEF MayAsk, Online
  <2> QED
    BY <2>1, <2>2, <2>3, <2>4, <2>5, <2>6 DEF Listens, ClientEffect
<1>6. ASSUME NEW cmd \in {"GameShot", "SynchPos", "KeepAlive"},
             Online(u), UNCHANGED <<nextSession, m_players, playerVars, toClient, clientVars>>,
             toServer' = [toServer EXCEPT ![sess[u]] = Append(@, Msg(cmd, sess[u]))]
      PROVE  ClientEffect(u)
  <2>1. UNCHANGED <<m_state, sess, gui, drives, started>>
    BY <1>6 DEF clientVars, gameVars
  <2>2. InboxShrinks /\ ClientTypeOK' /\ ButtonStates'
    BY <1>1, <1>2, <1>6, <2>1 DEF InboxShrinks, ClientTypeOK, ButtonStates
  <2>3. \A v \in User : MayAsk(v)' <=> MayAsk(v)
    BY <2>1 DEF MayAsk, Online
  <2>4. Says(u, cmd)
    BY <1>6, <2>1 DEF Says, PlayerCmd
  <2> QED
    BY <2>2, <2>3, <2>4 DEF Speaks, ClientEffect
<1>7. CASE \E cmd \in {"GameShot", "SynchPos"} : Plays(u, cmd)
  BY <1>6, <1>7 DEF Plays
<1>8. CASE KeepsAlive(u)
  <2>1. toServer' = [toServer EXCEPT ![sess[u]] = Append(@, Msg("KeepAlive", sess[u]))]
    <3>1. toServer' = [toServer EXCEPT ![sess[u]] = <<Msg("KeepAlive", sess[u])>>]
      BY <1>8 DEF KeepsAlive
    <3>2. sess[u] \in Session /\ toServer[sess[u]] = << >>
      BY <1>1, <1>8 DEF KeepsAlive, NothingOnTheWay, Online
    <3>3. Append(<< >>, Msg("KeepAlive", sess[u])) = <<Msg("KeepAlive", sess[u])>>
      OBVIOUS
    <3> QED
      BY <3>1, <3>2, <3>3
  <2> QED
    BY <1>6, <1>8, <2>1 DEF KeepsAlive
<1>9. CASE RecvData(u)
  <2> DEFINE s == sess[u]
             cmd == Head(toClient[s]).cmd
  <2>1. /\ s \in Session /\ toClient[s] # << >>
        /\ toClient' = [toClient EXCEPT ![s] = Tail(@)]
        /\ m_state' = [m_state EXCEPT ![u] = StateAfter(cmd, @)]
        /\ drives' = [drives EXCEPT ![u] =
                        cmd = "GameStartSer" \/ (cmd # "GameStart" /\ @)]
        /\ started' = [started EXCEPT ![u] = @ \/ cmd \in {"GameStart", "GameStartSer"}]
        /\ UNCHANGED <<nextSession, m_players, playerVars, sess, gui>>
        /\ Online(u)
    BY <1>1, <1>9 DEF RecvData, Online
  <2>2. \/ toServer' = [toServer EXCEPT ![s] = Append(@, Msg("KeepAliveAck", s))]
        \/ toServer' = toServer
    BY <1>9 DEF RecvData
  <2> HIDE DEF cmd
  <2>3. /\ Tail(toClient[s]) \in Seq(ToClientMsg)
    BY <1>1, <2>1, HeadTailProperties
  <2>4. InboxShrinks
    BY <1>1, <2>1, <2>3 DEF InboxShrinks
  <2>5. StateAfter(cmd, m_state[u]) \in {m_state[u], "GameInit", "GameRunning"}
    BY DEF StateAfter
  <2>6. /\ m_state' \in [User -> State]
        /\ drives' \in [User -> BOOLEAN] /\ started' \in [User -> BOOLEAN]
        /\ \A v \in User : m_state'[v] \in {m_state[v], "GameInit", "GameRunning"}
    <3>1. m_state' \in [User -> State]
          /\ \A v \in User : m_state'[v] \in {m_state[v], "GameInit", "GameRunning"}
      BY <1>1, <2>1, <2>5, States
    <3>2. drives' \in [User -> BOOLEAN] /\ started' \in [User -> BOOLEAN]
      BY <1>1, <2>1, Zenon
    <3> QED
      BY <3>1, <3>2
  <2>7. ClientTypeOK' /\ ButtonStates'
    BY <1>1, <1>2, <2>1, <2>6 DEF ClientTypeOK, ButtonStates
  <2>8. \A v \in User : MayAsk(v)' => MayAsk(v)
    BY <2>1, <2>6 DEF MayAsk, Online
  <2>9. CASE toServer' = toServer
    BY <2>1, <2>4, <2>7, <2>8, <2>9 DEF Listens, ClientEffect
  <2>10. CASE toServer' = [toServer EXCEPT ![s] = Append(@, Msg("KeepAliveAck", s))]
    <3>1. Says(u, "KeepAliveAck")
      BY <2>1, <2>10 DEF Says, PlayerCmd
    <3>2. Speaks(u, "KeepAliveAck")
      BY <2>8, <3>1 DEF Speaks
    <3> QED
      BY <2>4, <2>7, <3>2 DEF ClientEffect
  <2> QED
    BY <2>2, <2>9, <2>10
<1> QED
  BY <1>3, <1>4, <1>5, <1>7, <1>8, <1>9 DEF ClientStep

-----------------------------------------------------------------------------
(* The types, the sessions and the channels.                               *)

(* A session that nobody has yet is not in the table. *)
LEMMA FreshUnknown ==
  ASSUME Base, NEW t \in Session, t >= nextSession
  PROVE  t \notin m_players /\ \A s \in m_players : s # t
<1>1. t \in Nat /\ nextSession \in Nat /\ \A s \in m_players : s < nextSession /\ s \in Nat
  BY SessionNotNone DEF Base, IInv, TypeOK, SessionsInOrder
<1> QED
  BY <1>1

LEMMA SpeaksKeepsBase ==
  ASSUME Base, NEW u \in User, NEW cmd, Says(u, cmd),
         ClientTypeOK', ButtonStates', InboxShrinks
  PROVE  Base'
<1>1. /\ nextSession \in Nat /\ m_players \subseteq Session
      /\ SessionsInOrder /\ FreshSessions /\ IInv
  BY DEF Base, IInv, TypeOK
<1>2. UNCHANGED <<nextSession, m_players, playerVars, sess>>
  BY DEF Says
<1>3. SessionsInOrder'
  BY <1>1, <1>2 DEF SessionsInOrder, Online
<1>4. IInv'
  BY <1>1, <1>2, SaysEffect, ClientKeepsLobby
<1>5. FreshSessions'
  <2> SUFFICES ASSUME NEW s \in Session, s >= nextSession
               PROVE  /\ toServer'[s] = << >> /\ toClient'[s] = << >>
                      /\ ~InQueue(s)' /\ m_game'[s] = None
    BY <1>2 DEF FreshSessions
  <2>1. /\ toServer[s] = << >> /\ toClient[s] = << >> /\ ~InQueue(s) /\ m_game[s] = None
    BY <1>1 DEF FreshSessions
  <2>2. s # sess[u]
    BY <1>1, SaysEffect, SessionNotNone
  <2>3. toServer'[s] = << >>
    BY <2>1, <2>2, SaysEffect
  <2>4. toClient'[s] = << >>
    BY <2>1 DEF InboxShrinks
  <2> QED
    BY <1>2, <2>1, <2>3, <2>4 DEF InQueue, playerVars
<1> QED
  BY <1>3, <1>4, <1>5, SaysEffect DEF Base

LEMMA ListensKeepsBase ==
  ASSUME Base, Listens, ClientTypeOK', ButtonStates', InboxShrinks
  PROVE  Base'
<1>1. /\ nextSession \in Nat /\ m_players \subseteq Session
      /\ toServer \in [Session -> Seq(ToServerMsg)]
      /\ SessionsInOrder /\ FreshSessions /\ IInv /\ SignedBySender
  BY DEF Base, IInv, TypeOK
<1>2. /\ UNCHANGED <<nextSession, m_players, playerVars, toServer>>
      /\ \A v \in User : sess'[v] \in {sess[v], None}
  BY DEF Listens
<1>3. SessionsInOrder'
  BY <1>1, <1>2 DEF SessionsInOrder, Online
<1>4. IInv'
  BY <1>1, <1>2, ClientKeepsLobby
<1>5. FreshSessions'
  BY <1>1, <1>2 DEF FreshSessions, InboxShrinks, InQueue, playerVars
<1>6. SignedBySender'
  BY <1>1, <1>2 DEF SignedBySender, SentBy
<1> QED
  BY <1>3, <1>4, <1>5, <1>6 DEF Base

LEMMA ConnectKeepsBase ==
  ASSUME Base, NEW u \in User, PressConnect(u)
  PROVE  Base'
<1>1. /\ nextSession \in Nat /\ m_players \subseteq Session
      /\ toServer \in [Session -> Seq(ToServerMsg)]
      /\ SessionsInOrder /\ FreshSessions /\ IInv /\ SignedBySender
      /\ ButtonStates /\ ClientTypeOK
  BY DEF Base, IInv, TypeOK
<1> DEFINE s == nextSession
<1>2. /\ s \in Session /\ nextSession' = s + 1 /\ m_players' = m_players \cup {s}
      /\ UNCHANGED <<playerVars, toServer, toClient, gui, drives, started>>
      /\ sess' = [sess EXCEPT ![u] = s]
      /\ m_state' = [m_state EXCEPT ![u] = "Connected"]
      /\ OnCon(s) /\ s # None
  BY SessionNotNone DEF PressConnect, OnCon, gameVars
<1>3. IInv'
  BY <1>1, <1>2, TableKeeps
<1>4. ClientTypeOK' /\ ButtonStates'
  BY <1>1, <1>2, States DEF ClientTypeOK, ButtonStates
<1>5. SessionsInOrder'
  <2>1. /\ sess'[u] = s /\ \A v \in User \ {u} : sess'[v] = sess[v]
        /\ \A v \in User : sess[v] \in Session \cup {None}
    BY <1>1, <1>2 DEF ClientTypeOK
  <2>2. \A v \in User \ {u} : Online(v) => sess[v] < s
    BY <1>1 DEF SessionsInOrder
  <2>3. \A v \in User : Online(v)' => sess'[v] < nextSession'
    <3> SUFFICES ASSUME NEW v \in User, Online(v)' PROVE sess'[v] < s + 1
      BY <1>2
    <3>1. sess[v] \in Nat
      <4>1. Session \cup {None} \subseteq Nat
        BY SessionNotNone DEF None
      <4> QED
        BY <2>1, <4>1
    <3> QED
      BY <1>1, <2>1, <2>2, <3>1 DEF Online
  <2>4. \A v \in m_players' : v < nextSession'
    <3> SUFFICES ASSUME NEW v \in m_players' PROVE v < s + 1
      BY <1>2
    <3>1. v \in Nat /\ (v < s \/ v = s)
      BY <1>1, <1>2, SessionNotNone DEF SessionsInOrder
    <3> QED
      BY <1>1, <3>1
  <2>5. ASSUME NEW v \in User, NEW w \in User, Online(v)', sess'[v] = sess'[w]
        PROVE  v = w
    <3>1. CASE v = u /\ w # u
      BY <1>1, <1>2, <2>1, <2>2, <2>5, <3>1 DEF Online
    <3>2. CASE w = u /\ v # u
      BY <1>1, <1>2, <2>1, <2>2, <2>5, <3>2 DEF Online
    <3>3. CASE w # u /\ v # u
      BY <1>1, <2>1, <2>5, <3>3 DEF Online, SessionsInOrder
    <3> QED
      BY <3>1, <3>2, <3>3
  <2> QED
    BY <1>1, <1>2, <2>3, <2>4, <2>5 DEF SessionsInOrder
<1>6. FreshSessions'
  BY <1>1, <1>2, SessionNotNone DEF FreshSessions, InQueue, playerVars
<1>7. SignedBySender'
  BY <1>1, <1>2 DEF SignedBySender, SentBy
<1> QED
  BY <1>3, <1>4, <1>5, <1>6, <1>7 DEF Base

(* The steps of the server: the clients' own variables stay. *)
LEMMA ClientsUntouched ==
  ASSUME Base, UNCHANGED <<nextSession, clientVars>>, m_players' \subseteq m_players
  PROVE  ClientTypeOK' /\ ButtonStates' /\ SessionsInOrder'
<1>1. UNCHANGED <<m_state, sess, gui, drives, started>>
  BY DEF clientVars, gameVars
<1> QED
  BY <1>1 DEF Base, ClientTypeOK, ButtonStates, SessionsInOrder, Online

LEMMA ServerKeepsBase ==
  ASSUME Base, NEW s \in Session, Server(s)
  PROVE  Base'
<1>1. /\ nextSession \in Nat /\ m_players \subseteq Session
      /\ FreshSessions /\ IInv /\ Recv(s) /\ UNCHANGED clientVars
      /\ m_game \in [Session -> Nat]
  BY DEF Base, IInv, TypeOK, Server
<1>2. PICK cmd : OnRead(s, cmd)
  BY <1>1 DEF Recv, RecvKeepAlive, RecvKeepAliveAck, RecvSynchPos, RecvGameShot,
              RecvAutoMatch, RecvUAutoMatch, RecvGameReady
<1>3. IInv'
  BY <1>1, SendersKeep, AutoMatchKeeps, UAutoMatchKeeps, GameReadyKeeps DEF Recv
<1>4. nextSession' = nextSession /\ m_players' = m_players
  BY <1>2 DEF OnRead
<1>5. ClientTypeOK' /\ ButtonStates' /\ SessionsInOrder'
  BY <1>1, <1>4, ClientsUntouched
<1>6. SignedBySender'
  BY <1>2, ReadEffect
<1>7. ASSUME NEW t \in Session, t >= nextSession
      PROVE  ~InQueue(t)' /\ m_game'[t] = None
  <2>0. ~InQueue(t) /\ m_game[t] = None /\ t # s
    BY <1>1, <1>2, <1>7, ReadEffect, FreshUnknown DEF FreshSessions
  <2>1. CASE UNCHANGED <<m_queue, m_game>>
    BY <2>0, <2>1 DEF InQueue
  <2>2. CASE RecvUAutoMatch(s)
    BY <1>1, <2>0, <2>2, UnqueueEffect DEF RecvUAutoMatch
  <2>3. CASE RecvAutoMatch(s)
    <3>1. CASE UNCHANGED m_game /\ \A v : InQueue(v)' <=> v = s
      BY <2>0, <3>1
    <3>2. ASSUME NEW p \in Session, \A v : InQueue(v) <=> v = p,
                 \A v : ~InQueue(v)', MakeGame(p, s)
          PROVE  ~InQueue(t)' /\ m_game'[t] = None
      BY <1>1, <2>0, <3>2 DEF MakeGame, InitGame
    <3> QED
      BY <1>1, <2>3, <3>1, <3>2, EnqueueEffect
  <2>4. UNCHANGED <<m_queue, m_game>> \/ RecvUAutoMatch(s) \/ RecvAutoMatch(s)
    BY <1>1 DEF Recv, RecvKeepAlive, RecvKeepAliveAck, RecvSynchPos, RecvGameShot,
                RecvGameReady, playerVars
  <2> QED
    BY <2>1, <2>2, <2>3, <2>4
<1>8. ASSUME NEW t \in Session, t >= nextSession
      PROVE  toServer'[t] = << >> /\ toClient'[t] = << >>
  <2>1. t \notin m_players /\ t # s
    BY <1>2, <1>8, ReadEffect, FreshUnknown
  <2>2. toClient'[t] = toClient[t]
    BY <1>1, <2>1, RecvInbox DEF InboxGrows
  <2>3. toServer'[t] = toServer[t]
    BY <1>2, <2>1, ReadEffect
  <2> QED
    BY <1>1, <1>8, <2>2, <2>3 DEF FreshSessions
<1>9. FreshSessions'
  BY <1>4, <1>7, <1>8 DEF FreshSessions
<1> QED
  BY <1>3, <1>5, <1>6, <1>9 DEF Base

LEMMA DroppedKeepsBase ==
  ASSUME Base, NEW s \in Session, Dropped(s)
  PROVE  Base'
<1>1. /\ OnDisCon(s) /\ UNCHANGED clientVars
      /\ m_players' = m_players \ {s} /\ s \in m_players
      /\ toServer' = [toServer EXCEPT ![s] = << >>]
      /\ UNCHANGED <<nextSession, playerVars, toClient>>
      /\ toServer \in [Session -> Seq(ToServerMsg)]
      /\ IInv /\ FreshSessions /\ SignedBySender
  BY DEF Base, IInv, TypeOK, Dropped, OnDisCon
<1>2. IInv'
  BY <1>1, TableKeeps
<1>3. ClientTypeOK' /\ ButtonStates' /\ SessionsInOrder'
  BY <1>1, ClientsUntouched
<1>4. FreshSessions'
  BY <1>1 DEF FreshSessions, InQueue, playerVars
<1>5. SignedBySender'
  <2> SUFFICES ASSUME NEW t \in Session PROVE toServer'[t] \in Seq(SentBy(t))
    BY DEF SignedBySender, SentBy
  <2>1. << >> \in Seq(SentBy(t))
    BY EmptySeq
  <2> QED
    BY <1>1, <2>1 DEF SignedBySender
<1> QED
  BY <1>2, <1>3, <1>4, <1>5 DEF Base

LEMMA ProcessKeepsBase ==
  ASSUME Base, NEW idle \in SUBSET Silent, Process(idle), UNCHANGED clientVars
  PROVE  Base'
<1>1. /\ UNCHANGED <<nextSession, m_players, playerVars, toServer>>
      /\ IInv /\ FreshSessions /\ SignedBySender /\ SessionsInOrder
      /\ idle \subseteq m_players
      /\ \A t \in Session : t \notin idle => toClient'[t] = toClient[t]
      /\ m_players \subseteq Session /\ nextSession \in Nat
  BY DEF Base, IInv, TypeOK, Process, Silent
<1>2. IInv'
  BY <1>1, ProcessKeeps
<1>3. ClientTypeOK' /\ ButtonStates' /\ SessionsInOrder'
  BY <1>1, ClientsUntouched
<1>4. \A t \in Session : t >= nextSession => t \notin idle
  BY <1>1, FreshUnknown
<1>5. FreshSessions'
  BY <1>1, <1>4 DEF FreshSessions, InQueue, playerVars
<1>6. SignedBySender'
  BY <1>1 DEF SignedBySender, SentBy
<1> QED
  BY <1>2, <1>3, <1>5, <1>6 DEF Base

-----------------------------------------------------------------------------
(* The requests of a client come in turn.                                  *)

LEMMA SpeaksKeepsTurn ==
  ASSUME Base, AsksInTurn, NEW u \in User, NEW cmd, Speaks(u, cmd)
  PROVE  AsksInTurn'
<1> DEFINE s == sess[u]
           m == Msg(cmd, s)
           c == toServer[s]
<1>1. /\ Says(u, cmd) /\ m_players' = m_players /\ sess' = sess /\ m_queue' = m_queue
      /\ m_players \subseteq Session
      /\ cmd = "AutoMatch" => MayAsk(u) /\ ~MayAsk(u)'
      /\ MayAsk(u)' => MayAsk(u) \/ cmd = "UAutoMatch"
      /\ \A v \in User \ {u} : MayAsk(v)' => MayAsk(v)
  BY DEF Base, IInv, TypeOK, Speaks, Says, playerVars
<1>2. /\ s \in Session /\ m \in SentBy(s) /\ m.cmd = cmd /\ c \in Seq(SentBy(s))
      /\ toServer'[s] = Append(c, m)
      /\ \A t \in Session \ {s} : toServer'[t] = toServer[t]
  BY <1>1, SaysEffect
<1> HIDE DEF m, c
<1>3. /\ Alternate(c) /\ (cmd = "AutoMatch" => CancelledBehind(c)) => Alternate(Append(c, m))
      /\ CancelledBefore(c) /\ (cmd = "AutoMatch" => Sent(c, "UAutoMatch"))
           => CancelledBefore(Append(c, m))
      /\ CancelledBehind(c) /\ cmd # "AutoMatch" => CancelledBehind(Append(c, m))
      /\ cmd = "UAutoMatch" => CancelledBehind(Append(c, m))
      /\ Sent(Append(c, m), "UAutoMatch") <=> Sent(c, "UAutoMatch") \/ cmd = "UAutoMatch"
  BY <1>2, AppendRequest
<1>4. \A t : InQueue(t)' <=> InQueue(t)
  BY <1>1 DEF InQueue
<1>5. ASSUME s \in m_players
      PROVE  /\ Alternate(c)
             /\ InQueue(s) => CancelledBefore(c)
             /\ MayAsk(u) => CancelledBehind(c) /\ (InQueue(s) => Sent(c, "UAutoMatch"))
  BY <1>5 DEF AsksInTurn, c
<1>6. ASSUME NEW t \in m_players
      PROVE  /\ Alternate(toServer'[t])
             /\ InQueue(t) => CancelledBefore(toServer'[t])
  <2>1. CASE t = s
    BY <1>1, <1>2, <1>3, <1>5, <1>6, <2>1
  <2>2. CASE t # s
    BY <1>1, <1>2, <1>6, <2>2 DEF AsksInTurn
  <2> QED
    BY <2>1, <2>2
<1>7. ASSUME NEW v \in User, MayAsk(v)', sess[v] \in m_players
      PROVE  /\ CancelledBehind(toServer'[sess[v]])
             /\ InQueue(sess[v]) => Sent(toServer'[sess[v]], "UAutoMatch")
  <2>1. CASE v = u
    BY <1>1, <1>2, <1>3, <1>5, <1>7, <2>1
  <2>2. CASE v # u
    <3>1. MayAsk(v) /\ Online(v)
      BY <1>1, <1>7, <2>2 DEF MayAsk
    <3>2. sess[v] # s
      BY <2>2, <3>1 DEF Base, SessionsInOrder
    <3>3. toServer'[sess[v]] = toServer[sess[v]]
      BY <1>1, <1>2, <1>7, <3>2
    <3> QED
      BY <1>7, <3>1, <3>3 DEF AsksInTurn
  <2> QED
    BY <2>1, <2>2
<1> QED
  BY <1>1, <1>4, <1>6, <1>7 DEF AsksInTurn

(* No request is sent or read, and nobody may ask who might not before. *)
LEMMA QuietKeepsTurn ==
  ASSUME AsksInTurn, m_queue' = m_queue, m_players' \subseteq m_players,
         \A t \in m_players' : toServer'[t] = toServer[t],
         \A v \in User : MayAsk(v)' => MayAsk(v) /\ sess'[v] = sess[v]
  PROVE  AsksInTurn'
<1>1. \A t : InQueue(t)' <=> InQueue(t)
  BY DEF InQueue
<1>2. \A t \in m_players' :
        /\ Alternate(toServer'[t])
        /\ InQueue(t)' => CancelledBefore(toServer'[t])
  BY <1>1 DEF AsksInTurn
<1>3. ASSUME NEW v \in User, MayAsk(v)', sess'[v] \in m_players'
      PROVE  /\ CancelledBehind(toServer'[sess'[v]])
             /\ InQueue(sess'[v]) => Sent(toServer'[sess'[v]], "UAutoMatch")
  BY <1>3 DEF AsksInTurn
<1> QED
  BY <1>1, <1>2, <1>3 DEF AsksInTurn

LEMMA ConnectKeepsTurn ==
  ASSUME Base, AsksInTurn, NEW u \in User, PressConnect(u)
  PROVE  AsksInTurn'
<1> DEFINE s == nextSession
<1>1. /\ s \in Session /\ m_players' = m_players \cup {s}
      /\ UNCHANGED <<m_queue, toServer, gui>>
      /\ sess' = [sess EXCEPT ![u] = s]
      /\ m_state' = [m_state EXCEPT ![u] = "Connected"]
      /\ m_state \in [User -> State] /\ sess \in [User -> Session \cup {None}]
      /\ s >= nextSession
  BY SessionNotNone DEF Base, ClientTypeOK, PressConnect, OnCon, playerVars
<1>2. toServer[s] = << >> /\ ~InQueue(s)
  BY <1>1 DEF Base, FreshSessions
<1>3. \A t : InQueue(t)' <=> InQueue(t)
  BY <1>1 DEF InQueue
<1>4. \A t \in m_players' :
        /\ Alternate(toServer'[t])
        /\ InQueue(t) => CancelledBefore(toServer'[t])
  BY <1>1, <1>2, NoRequest DEF AsksInTurn
<1>5. ASSUME NEW v \in User, MayAsk(v)', sess'[v] \in m_players'
      PROVE  /\ CancelledBehind(toServer'[sess'[v]])
             /\ InQueue(sess'[v]) => Sent(toServer'[sess'[v]], "UAutoMatch")
  <2>1. CASE sess'[v] = s
    BY <1>1, <1>2, <2>1, NoRequest
  <2>2. CASE sess'[v] # s
    <3>1. v # u /\ sess'[v] = sess[v] /\ m_state'[v] = m_state[v] /\ sess[v] \in m_players
      BY <1>1, <1>5, <2>2
    <3>2. MayAsk(v)
      BY <1>1, <1>5, <3>1 DEF MayAsk, Online
    <3> QED
      BY <1>1, <3>1, <3>2 DEF AsksInTurn
  <2> QED
    BY <2>1, <2>2
<1> QED
  BY <1>3, <1>4, <1>5 DEF AsksInTurn

(* A message is read: a request, or one that leaves queue and games alone. *)
LEMMA ReadKinds ==
  ASSUME NEW s, Recv(s)
  PROVE  \E cmd :
           /\ OnRead(s, cmd)
           /\ \/ cmd = "AutoMatch" /\ RecvAutoMatch(s)
              \/ cmd = "UAutoMatch" /\ RecvUAutoMatch(s)
              \/ /\ cmd \notin {"AutoMatch", "UAutoMatch"}
                 /\ UNCHANGED <<m_queue, m_games, m_game, m_other, m_bSer>>
<1>1. CASE RecvAutoMatch(s)
  BY <1>1, Zenon DEF RecvAutoMatch
<1>2. CASE RecvUAutoMatch(s)
  BY <1>2, Zenon DEF RecvUAutoMatch
<1>3. ASSUME NEW cmd \in {"KeepAlive", "KeepAliveAck", "SynchPos", "GameShot", "GameReady"},
             OnRead(s, cmd), UNCHANGED <<m_queue, m_games, m_game, m_other, m_bSer>>
      PROVE  \E x : /\ OnRead(s, x)
                    /\ x \notin {"AutoMatch", "UAutoMatch"}
                    /\ UNCHANGED <<m_queue, m_games, m_game, m_other, m_bSer>>
  BY <1>3
<1>4. CASE RecvKeepAlive(s)
  BY <1>3, <1>4 DEF RecvKeepAlive, playerVars
<1>5. CASE RecvKeepAliveAck(s)
  BY <1>3, <1>5 DEF RecvKeepAliveAck, playerVars
<1>6. CASE RecvSynchPos(s)
  BY <1>3, <1>6 DEF RecvSynchPos, playerVars
<1>7. CASE RecvGameShot(s)
  BY <1>3, <1>7 DEF RecvGameShot, playerVars
<1>8. CASE RecvGameReady(s)
  BY <1>3, <1>8 DEF RecvGameReady
<1> QED
  BY <1>1, <1>2, <1>4, <1>5, <1>6, <1>7, <1>8 DEF Recv

(* A request is read: who is put into the queue has cancelled in whatever  *)
(* else is on the way from it, or has sent no other request to match.      *)
LEMMA ServerKeepsTurn ==
  ASSUME Base, AsksInTurn, NEW s \in Session, Server(s)
  PROVE  AsksInTurn'
<1> DEFINE c == toServer[s]
<1>1. /\ Recv(s) /\ IInv /\ m_players \subseteq Session
      /\ UNCHANGED <<m_state, sess, gui>>
  BY DEF Base, IInv, TypeOK, Server, clientVars
<1>2. PICK cmd : /\ OnRead(s, cmd)
                 /\ \/ cmd = "AutoMatch" /\ RecvAutoMatch(s)
                    \/ cmd = "UAutoMatch" /\ RecvUAutoMatch(s)
                    \/ cmd \notin {"AutoMatch", "UAutoMatch"} /\ m_queue' = m_queue
  BY <1>1, ReadKinds
<1>3. /\ s \in m_players /\ m_players' = m_players
      /\ c \in Seq(SentBy(s)) /\ c # << >> /\ Head(c).cmd = cmd
      /\ toServer'[s] = Tail(c)
      /\ \A t \in Session \ {s} : toServer'[t] = toServer[t]
  BY <1>2, ReadEffect DEF OnRead
<1> HIDE DEF c
<1>4. \A v \in User : MayAsk(v)' <=> MayAsk(v)
  BY <1>1 DEF MayAsk, Online
<1>5. /\ Alternate(c)
      /\ InQueue(s) => CancelledBefore(c)
      /\ \A v \in User : MayAsk(v) /\ sess[v] = s =>
           CancelledBehind(c) /\ (InQueue(s) => Sent(c, "UAutoMatch"))
  BY <1>3 DEF AsksInTurn, c
<1>6. /\ Alternate(Tail(c))
      /\ CancelledBefore(c) /\ cmd # "UAutoMatch" => CancelledBefore(Tail(c))
      /\ cmd = "AutoMatch" => CancelledBefore(Tail(c))
      /\ CancelledBefore(c) => cmd # "AutoMatch"
      /\ CancelledBehind(c) => CancelledBehind(Tail(c))
      /\ CancelledBehind(c) /\ cmd = "AutoMatch" => Sent(Tail(c), "UAutoMatch")
      /\ Sent(c, "UAutoMatch") /\ cmd # "UAutoMatch" => Sent(Tail(c), "UAutoMatch")
  BY <1>3, <1>5, TakeRequest
<1>7. /\ InQueue(s)' => cmd # "UAutoMatch" /\ (InQueue(s) \/ cmd = "AutoMatch")
      /\ \A t \in m_players : t # s /\ InQueue(t)' => InQueue(t)
  <2>1. CASE cmd = "AutoMatch" /\ RecvAutoMatch(s)
    BY <1>1, <2>1, EnqueueEffect
  <2>2. CASE cmd = "UAutoMatch" /\ RecvUAutoMatch(s)
    BY <1>1, <2>2, UnqueueEffect
  <2>3. CASE cmd \notin {"AutoMatch", "UAutoMatch"} /\ m_queue' = m_queue
    BY <2>3 DEF InQueue
  <2> QED
    BY <1>2, <2>1, <2>2, <2>3
<1>8. ASSUME NEW t \in m_players
      PROVE  /\ Alternate(toServer'[t])
             /\ InQueue(t)' => CancelledBefore(toServer'[t])
  <2>1. CASE t = s
    BY <1>3, <1>5, <1>6, <1>7, <2>1
  <2>2. CASE t # s
    <3>1. toServer'[t] = toServer[t]
      BY <1>1, <1>3, <2>2
    <3> QED
      BY <1>7, <2>2, <3>1 DEF AsksInTurn
  <2> QED
    BY <2>1, <2>2
<1>9. ASSUME NEW v \in User, MayAsk(v), sess[v] \in m_players
      PROVE  /\ CancelledBehind(toServer'[sess[v]])
             /\ InQueue(sess[v])' => Sent(toServer'[sess[v]], "UAutoMatch")
  <2>1. CASE sess[v] = s
    <3>1. CancelledBehind(c) /\ (InQueue(s) => Sent(c, "UAutoMatch"))
      BY <1>5, <1>9, <2>1
    <3>2. InQueue(s)' => Sent(Tail(c), "UAutoMatch")
      BY <1>6, <1>7, <3>1
    <3>3. InQueue(sess[v])' => InQueue(s)'
      BY <1>1, <2>1
    <3> QED
      BY <1>3, <1>6, <2>1, <3>1, <3>2, <3>3
  <2>2. CASE sess[v] # s
    <3>1. toServer'[sess[v]] = toServer[sess[v]]
      BY <1>1, <1>3, <1>9, <2>2
    <3>2. InQueue(sess[v])' => InQueue(sess[v])
      BY <1>1, <1>7, <1>9, <2>2
    <3> QED
      BY <1>9, <3>1, <3>2 DEF AsksInTurn
  <2> QED
    BY <2>1, <2>2
<1> QED
  BY <1>1, <1>3, <1>4, <1>8, <1>9 DEF AsksInTurn

-----------------------------------------------------------------------------
(* Every step keeps it.                                                    *)

LEMMA Kinds ==
  ASSUME Base, [Next]_vars
  PROVE  \/ \E u \in User : PressConnect(u)
         \/ \E u \in User : ClientStep(u) /\ ClientEffect(u)
         \/ \E s \in Session : Server(s) \/ Dropped(s)
         \/ \E idle \in SUBSET Silent : Process(idle) /\ UNCHANGED clientVars
         \/ UNCHANGED vars
<1>1. ASSUME NEW u \in User, ClientStep(u)
      PROVE  \E v \in User : ClientStep(v) /\ ClientEffect(v)
  BY <1>1, ClientStepEffect
<1>2. CASE Next
  <2>1. \/ \E u \in User : PressConnect(u)
        \/ \E u \in User : ClientStep(u)
        \/ \E s \in Session : Server(s) \/ Dropped(s)
        \/ \E idle \in SUBSET Silent : Process(idle) /\ UNCHANGED clientVars
    BY <1>2, Zenon DEF Next, ClientStep
  <2> QED
    BY <1>1, <2>1
<1> QED
  BY <1>2

(* Nothing happens. *)
LEMMA StutterListens ==
  ASSUME Base, UNCHANGED vars
  PROVE  Listens /\ ClientTypeOK' /\ ButtonStates' /\ InboxShrinks
<1>1. /\ UNCHANGED <<nextSession, m_players, playerVars, toServer, toClient>>
      /\ UNCHANGED <<m_state, sess, gui, drives, started>>
      /\ toClient \in [Session -> Seq(ToClientMsg)]
  BY DEF vars, lobbyVars, clientVars, gameVars, Base, IInv, TypeOK
<1> QED
  BY <1>1 DEF Base, Listens, MayAsk, Online, ClientTypeOK, ButtonStates, InboxShrinks

LEMMA BaseStep == Base /\ [Next]_vars => Base'
<1> SUFFICES ASSUME Base, [Next]_vars PROVE Base'
  OBVIOUS
<1>1. ASSUME NEW u \in User, ClientEffect(u) PROVE Base'
  BY <1>1, SpeaksKeepsBase, ListensKeepsBase DEF ClientEffect, Speaks
<1>2. CASE UNCHANGED vars
  BY <1>2, StutterListens, ListensKeepsBase
<1> QED
  BY <1>1, <1>2, Kinds, ConnectKeepsBase, ServerKeepsBase, DroppedKeepsBase, ProcessKeepsBase

LEMMA TurnStep == Base /\ AsksInTurn /\ [Next]_vars => AsksInTurn'
<1> SUFFICES ASSUME Base, AsksInTurn, [Next]_vars PROVE AsksInTurn'
  OBVIOUS
<1>1. ASSUME Listens PROVE AsksInTurn'
  <2>1. /\ m_queue' = m_queue /\ m_players' = m_players /\ toServer' = toServer
        /\ \A v \in User : MayAsk(v)' => MayAsk(v) /\ sess'[v] = sess[v]
    BY <1>1 DEF Listens, MayAsk, Online, playerVars
  <2> QED
    BY <2>1, QuietKeepsTurn
<1>2. ASSUME NEW u \in User, ClientEffect(u) PROVE AsksInTurn'
  BY <1>1, <1>2, SpeaksKeepsTurn DEF ClientEffect
<1>3. ASSUME UNCHANGED <<m_queue, clientVars>>, m_players' \subseteq m_players,
             \A t \in m_players' : toServer'[t] = toServer[t]
      PROVE  AsksInTurn'
  <2>1. \A v \in User : MayAsk(v)' => MayAsk(v) /\ sess'[v] = sess[v]
    BY <1>3 DEF MayAsk, Online, clientVars
  <2> QED
    BY <1>3, <2>1, QuietKeepsTurn
<1>4. ASSUME NEW s \in Session, Dropped(s) PROVE AsksInTurn'
  <2>1. /\ UNCHANGED <<m_queue, clientVars>> /\ m_players' = m_players \ {s}
        /\ toServer' = [toServer EXCEPT ![s] = << >>]
        /\ toServer \in [Session -> Seq(ToServerMsg)] /\ m_players \subseteq Session
    BY <1>4 DEF Dropped, OnDisCon, playerVars, Base, IInv, TypeOK
  <2> QED
    BY <1>3, <2>1
<1>5. ASSUME NEW idle, Process(idle), UNCHANGED clientVars PROVE AsksInTurn'
  BY <1>3, <1>5 DEF Process, playerVars
<1>6. CASE UNCHANGED vars
  BY <1>1, <1>6, StutterListens
<1> QED
  BY <1>2, <1>4, <1>5, <1>6, Kinds, ConnectKeepsTurn, ServerKeepsTurn

LEMMA InitBase == Init => MatchInv
<1> SUFFICES ASSUME Init PROVE MatchInv
  OBVIOUS
<1>1. IInv
  BY InitInv DEF Init
<1>2. ClientTypeOK
  BY States DEF Init, ClientTypeOK
<1>3. SessionsInOrder
  BY DEF Init, LobbyInit, SessionsInOrder, Online
<1>4. FreshSessions
  BY DEF Init, LobbyInit, FreshSessions, InQueue
<1>5. ButtonStates
  BY DEF Init, ButtonStates, Idle
<1>6. SignedBySender
  <2>1. \A s \in Session : toServer[s] = << >>
    BY DEF Init, LobbyInit
  <2> QED
    BY <2>1, EmptySeq DEF SignedBySender
<1>7. AsksInTurn
  BY DEF Init, LobbyInit, AsksInTurn, MayAsk, Online
<1> QED
  BY <1>1, <1>2, <1>3, <1>4, <1>5, <1>6, <1>7 DEF MatchInv, Base

(* The invariant holds, whatever users do and however messages race.       *)
THEOREM MatchInvariance == Spec => []MatchInv
<1>1. MatchInv /\ [Next]_vars => MatchInv'
  BY BaseStep, TurnStep DEF MatchInv
<1> QED
  BY <1>1, InitBase, PTL DEF Spec

(* The types of the client's variables, for every number of users. *)
THEOREM ClientTypes == Spec => []ClientTypeOK
<1>1. MatchInv => ClientTypeOK
  BY DEF MatchInv, Base
<1> QED
  BY <1>1, MatchInvariance, PTL

(* What Lobby.tla promises to clients that send what they like, it also    *)
(* keeps for the client it was written for, whose inbox is lost when it    *)
(* disconnects.                                                            *)
THEOREM LobbyStillRight ==
  Spec => [](QueueAtMostOne /\ PlayerKnowsItsGame /\ StartOnlyWhenReady /\ OneDriver)
<1>1. MatchInv => QueueAtMostOne /\ PlayerKnowsItsGame /\ StartOnlyWhenReady /\ OneDriver
  BY DEF MatchInv, Base, IInv
<1> QED
  BY <1>1, MatchInvariance, PTL

-----------------------------------------------------------------------------
(* Nobody plays alone.                                                     *)

(* Games are only added, by a request of one who is not in the queue. *)
LEMMA GamesStep ==
  ASSUME MatchInv, [Next]_vars
  PROVE  \/ UNCHANGED <<m_games, m_game, m_other, m_bSer>>
         \/ \E s \in Session, p \in Session :
              /\ s # p /\ InQueue(p) /\ MakeGame(p, s)
              /\ RecvAutoMatch(s) /\ Server(s)
<1>1. ASSUME NEW s \in Session, Server(s)
      PROVE  \/ UNCHANGED <<m_games, m_game, m_other, m_bSer>>
             \/ \E p \in Session : /\ s # p /\ InQueue(p) /\ MakeGame(p, s)
                                   /\ RecvAutoMatch(s) /\ Server(s)
  <2>1. PICK cmd : /\ OnRead(s, cmd)
                   /\ \/ cmd = "AutoMatch" /\ RecvAutoMatch(s)
                      \/ cmd = "UAutoMatch" /\ RecvUAutoMatch(s)
                      \/ /\ cmd \notin {"AutoMatch", "UAutoMatch"}
                         /\ UNCHANGED <<m_queue, m_games, m_game, m_other, m_bSer>>
    BY <1>1, ReadKinds DEF Server
  <2>2. CASE cmd = "AutoMatch" /\ RecvAutoMatch(s)
    <3>1. ~InQueue(s)
      <4>1. /\ s \in m_players /\ toServer[s] \in Seq(SentBy(s)) /\ toServer[s] # << >>
            /\ Head(toServer[s]).cmd = "AutoMatch"
        BY <2>1, <2>2, ReadEffect DEF MatchInv
      <4>2. CancelledBefore(toServer[s]) => Head(toServer[s]).cmd # "AutoMatch"
        BY <4>1, TakeRequest
      <4> QED
        BY <4>1, <4>2 DEF MatchInv, AsksInTurn
    <3> QED
      BY <1>1, <2>2, <3>1, EnqueueEffect DEF MatchInv, Base
  <2>3. CASE RecvUAutoMatch(s)
    BY <2>3 DEF RecvUAutoMatch
  <2> QED
    BY <2>1, <2>2, <2>3
<1>2. ASSUME NEW u \in User, ClientEffect(u)
      PROVE  UNCHANGED <<m_games, m_game, m_other, m_bSer>>
  BY <1>2 DEF ClientEffect, Listens, Speaks, Says, playerVars
<1>3. ASSUME UNCHANGED playerVars
      PROVE  UNCHANGED <<m_games, m_game, m_other, m_bSer>>
  BY <1>3 DEF playerVars
<1>4. /\ \A u \in User : PressConnect(u) => UNCHANGED playerVars
      /\ \A s \in Session : Dropped(s) => UNCHANGED playerVars
      /\ \A idle : Process(idle) => UNCHANGED playerVars
      /\ UNCHANGED vars => UNCHANGED playerVars
  BY DEF PressConnect, OnCon, Dropped, OnDisCon, Process, vars, lobbyVars
<1>5. Base
  BY DEF MatchInv
<1> QED
  BY <1>1, <1>2, <1>3, <1>4, <1>5, Kinds

(* Nobody is matched with itself although the server does not test it: a   *)
(* second request comes behind the cancellation of the first.              *)
THEOREM NobodyAlone == Spec => []NobodyPlaysAlone
<1>1. Init => NobodyPlaysAlone
  BY EmptySeq DEF Init, LobbyInit, NobodyPlaysAlone
<1>2. MatchInv /\ NobodyPlaysAlone /\ [Next]_vars => NobodyPlaysAlone'
  <2> SUFFICES ASSUME MatchInv, NobodyPlaysAlone, [Next]_vars PROVE NobodyPlaysAlone'
    OBVIOUS
  <2>1. CASE UNCHANGED <<m_games, m_game, m_other, m_bSer>>
    BY <2>1 DEF NobodyPlaysAlone
  <2>2. ASSUME NEW s \in Session, NEW p \in Session, s # p, MakeGame(p, s)
        PROVE  NobodyPlaysAlone'
    <3>1. /\ m_games \in Seq(Session \X Session) /\ <<p, s>> \in Session \X Session
          /\ m_games' = Append(m_games, <<p, s>>)
      BY <2>2 DEF MatchInv, Base, IInv, TypeOK, MakeGame
    <3>2. /\ Len(m_games) \in Nat /\ Len(m_games') = Len(m_games) + 1
          /\ \A k \in 1..Len(m_games) : m_games'[k] = m_games[k]
          /\ m_games'[Len(m_games) + 1] = <<p, s>>
      BY <3>1, AppendProperties, LenProperties
    <3>3. ASSUME NEW k \in 1..Len(m_games') PROVE m_games'[k][1] # m_games'[k][2]
      <4>1. CASE k \in 1..Len(m_games)
        BY <3>2, <4>1 DEF NobodyPlaysAlone
      <4>2. CASE k = Len(m_games) + 1
        BY <2>2, <3>2, <4>2
      <4> QED
        BY <3>2, <4>1, <4>2
    <3> QED
      BY <3>3 DEF NobodyPlaysAlone
  <2> QED
    BY <2>1, <2>2, GamesStep
<1> QED
  BY <1>1, <1>2, MatchInvariance, PTL DEF Spec

-----------------------------------------------------------------------------
(* Who waits is waiting for something.                                     *)

(* A step of a client touches the client and the channels of its session. *)
LEMMA ClientLocal ==
  ASSUME Base, NEW u \in User, ClientStep(u)
  PROVE  /\ \A v \in User \ {u} : /\ m_state'[v] = m_state[v]
                                  /\ sess'[v] = sess[v] /\ drives'[v] = drives[v]
                                  /\ gui'[v] = gui[v]
         /\ \A t \in Session : t # sess[u] =>
              toServer'[t] = toServer[t] /\ toClient'[t] = toClient[t]
         /\ UNCHANGED <<m_players, playerVars>>
<1>1. /\ m_state \in [User -> State] /\ sess \in [User -> Session \cup {None}]
      /\ drives \in [User -> BOOLEAN] /\ gui \in [User -> State \cup {Idle}]
      /\ toClient \in [Session -> Seq(ToClientMsg)]
      /\ toServer \in [Session -> Seq(ToServerMsg)]
  BY DEF Base, IInv, TypeOK, ClientTypeOK
<1>2. CASE PressAutomatch(u) \/ PressCancel(u) \/ PressReady(u)
  <2>1. PICK now, cmd, next : Press(u, now, cmd, next)
    BY <1>2 DEF PressAutomatch, PressCancel, PressReady
  <2>2. /\ toServer' = [toServer EXCEPT ![sess[u]] = Append(@, Msg(cmd, sess[u]))]
        /\ m_state' = m_state \/ m_state' = [m_state EXCEPT ![u] = next]
        /\ gui' = gui \/ gui' = [gui EXCEPT ![u] = next]
        /\ UNCHANGED <<m_players, playerVars, toClient, sess, drives>>
    BY <2>1, Zenon DEF Press, gameVars
  <2> QED
    BY <1>1, <2>2
<1>3. CASE ButtonAssigns(u)
  BY <1>1, <1>3 DEF ButtonAssigns, lobbyVars, gameVars
<1>4. CASE PressDisconnect(u)
  BY <1>1, <1>4 DEF PressDisconnect, gameVars
<1>5. CASE ClientClose(u)
  BY <1>1, <1>5 DEF ClientClose, gameVars
<1>6. CASE KeepsAlive(u)
  BY <1>1, <1>6 DEF KeepsAlive, clientVars, gameVars
<1>7. CASE \E cmd \in {"GameShot", "SynchPos"} : Plays(u, cmd)
  <2>1. PICK cmd : Plays(u, cmd)
    BY <1>7
  <2>2. /\ toServer' = [toServer EXCEPT ![sess[u]] = Append(@, Msg(cmd, sess[u]))]
        /\ UNCHANGED <<m_players, playerVars, toClient, clientVars>>
    BY <2>1, Zenon DEF Plays
  <2> QED
    BY <1>1, <2>2 DEF clientVars, gameVars
<1>8. CASE RecvData(u)
  <2>1. /\ \E x : toClient' = [toClient EXCEPT ![sess[u]] = x]
        /\ \E x : m_state' = [m_state EXCEPT ![u] = x]
        /\ \E x : drives' = [drives EXCEPT ![u] = x]
        /\ toServer' = toServer \/ \E x : toServer' = [toServer EXCEPT ![sess[u]] = x]
        /\ UNCHANGED <<m_players, playerVars, sess, gui>>
    BY <1>8, Zenon DEF RecvData
  <2> QED
    BY <1>1, <2>1
<1> QED
  BY <1>2, <1>3, <1>4, <1>5, <1>6, <1>7, <1>8 DEF ClientStep

(* It goes on waiting when it sends something else, and nothing is lost.   *)
LEMMA WaitsOn ==
  ASSUME Base, NEW s \in Session, StillWaits(s), m_queue' = m_queue,
         \/ toServer'[s] = toServer[s]
         \/ \E m \in SentBy(s) : /\ m.cmd # "UAutoMatch"
                                 /\ toServer'[s] = Append(toServer[s], m),
         Answered(s) => Answered(s)'
  PROVE  StillWaits(s)'
<1>1. InQueue(s)' <=> InQueue(s)
  BY DEF InQueue
<1>2. CASE toServer'[s] = toServer[s]
  BY <1>1, <1>2 DEF StillWaits
<1>3. ASSUME NEW m \in SentBy(s), m.cmd # "UAutoMatch",
             toServer'[s] = Append(toServer[s], m)
      PROVE  StillWaits(s)'
  <2>1. toServer[s] \in Seq(SentBy(s))
    BY DEF Base, SignedBySender
  <2>2. /\ StillAsks(toServer[s]) => StillAsks(Append(toServer[s], m))
        /\ Sent(Append(toServer[s], m), "UAutoMatch") => Sent(toServer[s], "UAutoMatch")
    BY <1>3, <2>1, AppendRequest
  <2> QED
    BY <1>1, <1>3, <2>2 DEF StillWaits
<1> QED
  BY <1>2, <1>3

LEMMA WaitsWith ==
  ASSUME NEW u \in User, NEW t, sess'[u] = t, StillWaits(t)'
  PROVE  StillWaits(sess[u])'
BY DEF StillWaits, InQueue, Answered

(* Where the channels and the games of a session stay, so does the answer. *)
LEMMA AnswerStays ==
  ASSUME NEW s \in Session,
         Sent(toClient[s], "GameInit") => Sent(toClient'[s], "GameInit"),
         m_game[s] # None => m_game'[s] # None
  PROVE  Answered(s) => Answered(s)'
BY DEF Answered

(* The client itself: the button, or a message that is not the answer. *)
LEMMA ClientWaits ==
  ASSUME MatchInv, WaitersWait, NEW u \in User, ClientStep(u),
         Waiting(u)', sess'[u] \in m_players'
  PROVE  StillWaits(sess[u])'
<1>0. PICK s : s = sess[u]
  OBVIOUS
<1>1. /\ Base /\ m_state \in [User -> State] /\ sess \in [User -> Session \cup {None}]
      /\ gui \in [User -> State \cup {Idle}] /\ m_players \subseteq Session
      /\ toClient \in [Session -> Seq(ToClientMsg)]
      /\ \A t \in Session : toServer[t] \in Seq(SentBy(t))
      /\ ~GuiRace => gui[u] = Idle
      /\ Idle # "WaitingToMatch"
  BY <1>0 DEF MatchInv, Base, IInv, TypeOK, ClientTypeOK, ButtonStates, SignedBySender, Idle
<1>2. Waiting(u) /\ s \in m_players => StillWaits(s)
  BY <1>0 DEF WaitersWait
<1>3. CASE PressAutomatch(u)
  <2>1. Press(u, "Connected", "AutoMatch", "WaitingToMatch")
    BY <1>3, Zenon DEF PressAutomatch
  <2>2. Says(u, "AutoMatch") /\ sess' = sess /\ m_players' = m_players
    BY <1>1, <2>1, PressEffect DEF Speaks, Says
  <2> DEFINE m == Msg("AutoMatch", s)
  <2>3. /\ s \in Session /\ m \in SentBy(s) /\ m.cmd = "AutoMatch"
        /\ toServer'[s] = Append(toServer[s], m)
    BY <1>0, <1>1, <2>2, SaysEffect
  <2> HIDE DEF m
  <2>4. StillAsks(Append(toServer[s], m))
    BY <1>1, <2>3, AppendRequest
  <2>5. StillWaits(s)'
    BY <2>3, <2>4 DEF StillWaits
  <2> QED
    BY <1>0, <2>2, <2>5, WaitsWith
<1>4. CASE PressCancel(u) \/ PressReady(u)
  <2>1. PICK now, cmd, next : /\ Press(u, now, cmd, next)
                              /\ next \in {"Connected", "WaitingToStart"}
    BY <1>4 DEF PressCancel, PressReady
  <2>2. \/ m_state' = [m_state EXCEPT ![u] = next] /\ gui' = gui /\ gui[u] = Idle
        \/ gui' = [gui EXCEPT ![u] = next]
    BY <2>1 DEF Press
  <2>3. ~Waiting(u)'
    <3>1. CASE m_state' = [m_state EXCEPT ![u] = next] /\ gui' = gui /\ gui[u] = Idle
      BY <1>1, <2>1, <3>1 DEF Waiting
    <3>2. CASE gui' = [gui EXCEPT ![u] = next]
      <4>1. gui'[u] \in {"Connected", "WaitingToStart"}
        BY <1>1, <2>1, <3>2
      <4> QED
        BY <4>1 DEF Waiting, Idle
    <3> QED
      BY <2>2, <3>1, <3>2
  <2> QED
    BY <2>3
<1>5. ASSUME Waiting(u), UNCHANGED <<m_players, m_queue, m_game, sess>>,
             \/ toServer' = toServer
             \/ \E cmd \in PlayerCmd \ {"UAutoMatch"} : Says(u, cmd),
             ~GuiRace /\ Sent(toClient[s], "GameInit") => Sent(toClient'[s], "GameInit")
      PROVE  StillWaits(sess[u])'
  <2>1. s \in Session /\ StillWaits(s)
    BY <1>0, <1>1, <1>2, <1>5
  <2>2. \/ toServer'[s] = toServer[s]
        \/ \E m \in SentBy(s) : /\ m.cmd # "UAutoMatch"
                                /\ toServer'[s] = Append(toServer[s], m)
    BY <1>0, <1>1, <1>5, SaysEffect
  <2>3. Answered(s) => Answered(s)'
    BY <1>5 DEF Answered
  <2>4. StillWaits(s)'
    BY <1>1, <1>5, <2>1, <2>2, <2>3, WaitsOn
  <2> QED
    BY <1>0, <1>5, <2>4, WaitsWith
<1>6. CASE ButtonAssigns(u)
  <2>1. /\ gui[u] # Idle
        /\ m_state' = [m_state EXCEPT ![u] = gui[u]]
        /\ gui' = [gui EXCEPT ![u] = Idle]
        /\ UNCHANGED <<m_players, playerVars, sess, toServer, toClient>>
    BY <1>6 DEF ButtonAssigns, lobbyVars
  <2>2. m_state'[u] = gui[u] /\ gui'[u] = Idle
    BY <1>1, <2>1
  <2>3. Waiting(u)
    BY <1>1, <2>2 DEF Waiting
  <2> QED
    BY <1>5, <2>1, <2>3 DEF playerVars
<1>7. CASE PressDisconnect(u) \/ ClientClose(u)
  <2>1. sess' = [sess EXCEPT ![u] = None]
    BY <1>7 DEF PressDisconnect, ClientClose
  <2>2. sess'[u] = None /\ m_players' = m_players
    BY <1>1, <1>7, <2>1 DEF PressDisconnect, ClientClose
  <2> QED
    BY <1>1, <2>2, SessionNotNone
<1>8. CASE KeepsAlive(u) \/ \E cmd \in {"GameShot", "SynchPos"} : Plays(u, cmd)
  <2>1. UNCHANGED <<m_players, playerVars, toClient, clientVars>>
    BY <1>8 DEF KeepsAlive, Plays
  <2>2. \E cmd \in PlayerCmd \ {"UAutoMatch"} : Says(u, cmd)
    <3>1. CASE \E cmd \in {"GameShot", "SynchPos"} : Plays(u, cmd)
      BY <3>1 DEF Plays, Says, PlayerCmd, clientVars
    <3>2. CASE KeepsAlive(u)
      <4>1. s \in Session /\ toServer[s] = << >> /\ Online(u)
        BY <1>0, <1>1, <3>2 DEF KeepsAlive, NothingOnTheWay, Online
      <4>2. Append(<< >>, Msg("KeepAlive", s)) = <<Msg("KeepAlive", s)>>
        OBVIOUS
      <4>3. /\ toServer' = [toServer EXCEPT ![s] = <<Msg("KeepAlive", s)>>]
            /\ UNCHANGED <<nextSession, m_players, playerVars, sess>>
        BY <1>0, <3>2 DEF KeepsAlive, clientVars
      <4>4. toServer' = [toServer EXCEPT ![s] = Append(@, Msg("KeepAlive", s))]
        BY <4>1, <4>2, <4>3
      <4>5. Says(u, "KeepAlive")
        BY <1>0, <4>1, <4>3, <4>4 DEF Says, PlayerCmd
      <4> QED
        BY <4>5 DEF PlayerCmd
    <3> QED
      BY <1>8, <3>1, <3>2
  <2>3. Waiting(u)
    BY <2>1 DEF Waiting, clientVars
  <2> QED
    BY <1>5, <2>1, <2>2, <2>3 DEF clientVars, playerVars
<1>9. CASE RecvData(u)
  <2> DEFINE cmd == Head(toClient[s]).cmd
  <2>1. /\ s \in Session /\ toClient[s] # << >> /\ Online(u)
        /\ toClient' = [toClient EXCEPT ![s] = Tail(@)]
        /\ m_state' = [m_state EXCEPT ![u] = StateAfter(cmd, @)]
        /\ UNCHANGED <<nextSession, m_players, playerVars, sess, gui>>
        /\ \/ toServer' = toServer
           \/ toServer' = [toServer EXCEPT ![s] = Append(@, Msg("KeepAliveAck", s))]
    BY <1>0, <1>1, <1>9 DEF RecvData, Online
  <2> HIDE DEF cmd
  <2>2. /\ toClient'[s] = Tail(toClient[s])
        /\ m_state'[u] = StateAfter(cmd, m_state[u])
    BY <1>1, <2>1
  <2>3. Waiting(u) /\ (gui[u] = Idle => cmd # "GameInit")
    BY <1>1, <2>1, <2>2 DEF StateAfter, Waiting
  <2>4. ~GuiRace /\ Sent(toClient[s], "GameInit") => Sent(toClient'[s], "GameInit")
    <3>1. toClient[s] \in Seq(ToClientMsg)
      BY <1>1, <2>1
    <3> QED
      BY <1>1, <2>1, <2>2, <2>3, <3>1, TakeRequest DEF cmd
  <2>5. toServer' # toServer => Says(u, "KeepAliveAck")
    BY <1>0, <2>1 DEF Says, PlayerCmd
  <2> QED
    BY <1>5, <2>1, <2>3, <2>4, <2>5 DEF PlayerCmd, playerVars
<1> QED
  BY <1>3, <1>4, <1>6, <1>7, <1>8, <1>9 DEF ClientStep

(* Who is matched has a game, and who has one keeps one. *)
LEMMA MatchedHaveGame ==
  ASSUME IInv, NEW p \in Session, NEW s \in Session, MakeGame(p, s)
  PROVE  /\ m_game'[p] # None /\ m_game'[s] # None
         /\ \A t \in Session \ {p, s} : m_game'[t] = m_game[t]
<1>1. m_game \in [Session -> Nat] /\ Len(m_games) \in Nat
  BY DEF IInv, TypeOK
<1>2. m_game' = [m_game EXCEPT ![p] = Len(m_games) + 1, ![s] = Len(m_games) + 1]
  BY DEF MakeGame, InitGame
<1> QED
  BY <1>1, <1>2 DEF None

LEMMA GamesLast ==
  ASSUME Base, NEW s \in Session, Recv(s), NEW t \in Session, m_game[t] # None
  PROVE  m_game'[t] # None
<1>1. CASE m_game' = m_game
  BY <1>1
<1>2. CASE RecvAutoMatch(s)
  <2>1. CASE m_game' = m_game
    BY <2>1
  <2>2. ASSUME NEW p \in Session, MakeGame(p, s)
        PROVE  m_game'[t] # None
    BY <2>2, MatchedHaveGame DEF Base
  <2> QED
    BY <1>2, <2>1, <2>2, EnqueueEffect DEF Base
<1> QED
  BY <1>1, <1>2 DEF Recv, RecvKeepAlive, RecvKeepAliveAck, RecvSynchPos, RecvGameShot,
     RecvUAutoMatch, RecvGameReady, playerVars

(* The server reads: of the one whose request it is, and of the others. *)
LEMMA ServerWaits ==
  ASSUME MatchInv, NEW s \in Session, Server(s),
         NEW t \in m_players, StillWaits(t)
  PROVE  StillWaits(t)'
<1>1. /\ Base /\ IInv /\ Recv(s) /\ t \in Session
  BY DEF MatchInv, Base, IInv, TypeOK, Server
<1>2. PICK cmd : /\ OnRead(s, cmd)
                 /\ \/ cmd = "AutoMatch" /\ RecvAutoMatch(s)
                    \/ cmd = "UAutoMatch" /\ RecvUAutoMatch(s)
                    \/ /\ cmd \notin {"AutoMatch", "UAutoMatch"}
                       /\ UNCHANGED <<m_queue, m_games, m_game, m_other, m_bSer>>
  BY <1>1, ReadKinds
<1>3. /\ toServer[s] \in Seq(SentBy(s)) /\ toServer[s] # << >>
      /\ Head(toServer[s]).cmd = cmd
      /\ toServer'[s] = Tail(toServer[s])
      /\ \A v \in Session \ {s} : toServer'[v] = toServer[v]
  BY <1>1, <1>2, ReadEffect
<1>4. Answered(t) => Answered(t)'
  <2>1. Sent(toClient[t], "GameInit") => Sent(toClient'[t], "GameInit")
    BY <1>1, RecvInbox DEF InboxGrows
  <2>2. m_game[t] # None => m_game'[t] # None
    BY <1>1, GamesLast
  <2> QED
    BY <1>1, <2>1, <2>2, AnswerStays
<1>5. (InQueue(t) \/ (t = s /\ cmd = "AutoMatch"))
         /\ ~(t = s /\ cmd = "UAutoMatch") =>
        InQueue(t)' \/ Answered(t)'
  <2>1. CASE cmd = "AutoMatch" /\ RecvAutoMatch(s)
    <3>1. CASE (\A v : ~InQueue(v)) /\ \A v : InQueue(v)' <=> v = s
      BY <3>1
    <3>2. ASSUME NEW p \in Session, \A v : InQueue(v) <=> v = p, MakeGame(p, s)
          PROVE  InQueue(t) \/ t = s => Answered(t)'
      <4>1. t \in {p, s} => Sent(toClient'[t], "GameInit")
        BY <1>1, <3>2, MakeGameInbox
      <4>2. t \in {p, s} => m_game'[t] # None
        BY <1>1, <3>2, MatchedHaveGame
      <4> QED
        BY <3>2, <4>1, <4>2 DEF Answered
    <3> QED
      BY <1>1, <2>1, <3>1, <3>2, EnqueueEffect
  <2>2. CASE cmd = "UAutoMatch" /\ RecvUAutoMatch(s)
    BY <1>1, <2>2, UnqueueEffect
  <2>3. CASE cmd \notin {"AutoMatch", "UAutoMatch"} /\ m_queue' = m_queue
    BY <2>3 DEF InQueue
  <2> QED
    BY <1>2, <2>1, <2>2, <2>3
<1>6. CASE t # s
  <2>1. toServer'[t] = toServer[t]
    BY <1>1, <1>3, <1>6
  <2> QED
    BY <1>4, <1>5, <1>6, <2>1 DEF StillWaits
<1>7. CASE t = s
  <2>1. /\ Sent(toServer[s], cmd)
        /\ Sent(Tail(toServer[s]), "UAutoMatch") => Sent(toServer[s], "UAutoMatch")
        /\ StillAsks(toServer[s]) =>
             \/ StillAsks(Tail(toServer[s]))
             \/ cmd = "AutoMatch" /\ ~Sent(Tail(toServer[s]), "UAutoMatch")
    BY <1>3, TakeRequest
  <2> QED
    BY <1>3, <1>4, <1>5, <1>7, <2>1 DEF StillWaits
<1> QED
  BY <1>6, <1>7

LEMMA WaitStep == MatchInv /\ WaitersWait /\ [Next]_vars => WaitersWait'
<1> SUFFICES ASSUME MatchInv, WaitersWait, [Next]_vars,
                    NEW v \in User, Waiting(v)', sess'[v] \in m_players'
             PROVE  StillWaits(sess[v])'
  BY DEF WaitersWait
<1>1. /\ Base /\ m_players \subseteq Session
      /\ m_state \in [User -> State] /\ sess \in [User -> Session \cup {None}]
  BY DEF MatchInv, Base, IInv, TypeOK, ClientTypeOK
<1>2. Waiting(v) /\ sess[v] \in m_players => StillWaits(sess[v])
  BY DEF WaitersWait
<1>3. ASSUME m_state'[v] = m_state[v], gui'[v] = gui[v], sess'[v] = sess[v],
             sess[v] \in m_players, m_queue' = m_queue, m_game' = m_game, toServer'[sess[v]] = toServer[sess[v]],
             Sent(toClient[sess[v]], "GameInit") => Sent(toClient'[sess[v]], "GameInit")
      PROVE  StillWaits(sess[v])'
  <2>1. PICK t : t = sess[v]
    OBVIOUS
  <2>2. Waiting(v) /\ t \in Session
    BY <1>1, <1>3, <2>1 DEF Waiting
  <2>3. Answered(t) => Answered(t)'
    BY <1>3, <2>1, <2>2, AnswerStays
  <2>4. StillWaits(t)'
    BY <1>1, <1>2, <1>3, <2>1, <2>2, <2>3, WaitsOn
  <2> QED
    BY <1>3, <2>1, <2>4, WaitsWith
<1>4. ASSUME NEW u \in User, ClientStep(u), v # u
      PROVE  StillWaits(sess[v])'
  <2>1. /\ m_state'[v] = m_state[v] /\ sess'[v] = sess[v] /\ gui'[v] = gui[v]
        /\ UNCHANGED <<m_players, playerVars>>
        /\ \A t \in Session : t # sess[u] =>
              toServer'[t] = toServer[t] /\ toClient'[t] = toClient[t]
    BY <1>1, <1>4, ClientLocal
  <2>2. sess[v] \in m_players /\ sess[v] \in Session
    BY <1>1, <2>1
  <2>3. sess[v] # sess[u]
    BY <1>1, <1>4, <2>2, SessionNotNone DEF Base, SessionsInOrder, Online
  <2> QED
    BY <1>3, <2>1, <2>2, <2>3 DEF playerVars
<1>5. ASSUME NEW u \in User, PressConnect(u)
      PROVE  StillWaits(sess[v])'
  <2>1. /\ sess' = [sess EXCEPT ![u] = nextSession]
        /\ m_state' = [m_state EXCEPT ![u] = "Connected"]
        /\ m_players' = m_players \cup {nextSession} /\ nextSession \in Session
        /\ UNCHANGED <<m_queue, m_game, toServer, toClient, gui>> /\ gui[u] = Idle
    BY <1>5 DEF PressConnect, OnCon, playerVars
  <2>2. v # u
    BY <1>1, <2>1 DEF Waiting, Idle
  <2>3. /\ m_state'[v] = m_state[v] /\ sess'[v] = sess[v]
    BY <1>1, <2>1, <2>2
  <2>4. sess[v] # nextSession
    <3>1. sess[v] = nextSession => Online(v)
      BY <2>1, SessionNotNone DEF Online
    <3>2. Online(v) => sess[v] < nextSession
      BY <1>1 DEF Base, SessionsInOrder
    <3>3. nextSession \in Nat
      BY <2>1, SessionNotNone
    <3> QED
      BY <3>1, <3>2, <3>3
  <2>5. sess[v] \in m_players
    BY <2>1, <2>3, <2>4
  <2> QED
    BY <1>3, <2>1, <2>3, <2>5
<1>6. ASSUME NEW s \in Session, Server(s)
      PROVE  StillWaits(sess[v])'
  <2>1. /\ m_state' = m_state /\ gui' = gui /\ sess' = sess /\ m_players' = m_players
    <3>1. UNCHANGED clientVars /\ Recv(s)
      BY <1>6 DEF Server
    <3>2. PICK cmd : OnRead(s, cmd)
      BY <3>1, ReadKinds
    <3> QED
      BY <3>1, <3>2 DEF OnRead, clientVars
  <2>2. PICK t : t = sess[v] /\ t \in m_players /\ StillWaits(t)
    BY <1>2, <2>1 DEF Waiting
  <2>3. StillWaits(t)'
    BY <1>6, <2>2, ServerWaits
  <2> QED
    BY <2>1, <2>2, <2>3, WaitsWith
<1>7. ASSUME NEW s \in Session, Dropped(s)
      PROVE  StillWaits(sess[v])'
  <2>1. /\ m_state' = m_state /\ gui' = gui /\ sess' = sess
        /\ m_players' = m_players \ {s} /\ m_game' = m_game
        /\ toServer' = [toServer EXCEPT ![s] = << >>]
        /\ UNCHANGED <<m_queue, toClient>>
        /\ toServer \in [Session -> Seq(ToServerMsg)]
    BY <1>1, <1>7 DEF Dropped, OnDisCon, clientVars, playerVars, Base, IInv, TypeOK
  <2>2. sess[v] \in m_players /\ sess[v] # s /\ sess[v] \in Session
    BY <1>1, <2>1
  <2> QED
    BY <1>3, <2>1, <2>2
<1>8. ASSUME NEW idle \in SUBSET Silent, Process(idle), UNCHANGED clientVars
      PROVE  StillWaits(sess[v])'
  <2>1. /\ m_state' = m_state /\ gui' = gui /\ sess' = sess /\ m_players' = m_players
        /\ UNCHANGED <<m_queue, m_game, toServer>>
    BY <1>8 DEF Process, clientVars, playerVars
  <2>2. sess[v] \in m_players /\ sess[v] \in Session
    BY <1>1, <2>1
  <2>3. toClient'[sess[v]] \in {toClient[sess[v]],
                                 Append(toClient[sess[v]], FromServer("KeepAlive"))}
    BY <1>8, <2>2 DEF Process
  <2>4. toClient[sess[v]] \in Seq(ToClientMsg) /\ FromServer("KeepAlive") \in ToClientMsg
    BY <2>2, ServerMessages DEF Base, MatchInv, IInv, TypeOK, ServerCmd
  <2>5. Sent(toClient[sess[v]], "GameInit") => Sent(toClient'[sess[v]], "GameInit")
    <3>1. PICK c : c = toClient[sess[v]]
      OBVIOUS
    <3>2. Sent(c, "GameInit") => Sent(Append(c, FromServer("KeepAlive")), "GameInit")
      BY <2>4, <3>1, AppendRequest
    <3> QED
      BY <2>3, <3>1, <3>2
  <2> QED
    BY <1>3, <2>1, <2>2, <2>5
<1>9. CASE UNCHANGED vars
  BY <1>3, <1>9 DEF vars, lobbyVars, clientVars, playerVars
<1> QED
  BY <1>1, <1>4, <1>5, <1>6, <1>7, <1>8, <1>9, ClientWaits, Kinds

(* A client that shows "waiting to match" is queued, or its request or the *)
(* answer is on the way; where a button may be interrupted, it may have    *)
(* written over the answer: then the server holds the game of the client.  *)
THEOREM WaitersQueued == Spec => []WaitingIsQueued
<1>1. Init => WaitersWait
  BY DEF Init, WaitersWait, Waiting, Idle
<1>2. MatchInv /\ WaitersWait /\ [Next]_vars => WaitersWait'
  BY WaitStep
<1>3. MatchInv /\ WaitersWait => WaitingIsQueued
  <2> SUFFICES ASSUME MatchInv, NEW u \in User, sess[u] \in m_players, StillWaits(sess[u])
               PROVE  \/ Contains(m_queue, sess[u]) \/ Has(toServer, sess[u], "AutoMatch")
                      \/ Has(toClient, sess[u], "GameInit")
                      \/ GuiRace /\ m_game[sess[u]] # None
    BY DEF WaitersWait, Waiting, WaitingIsQueued
  <2>1. InQueue(sess[u]) => Contains(m_queue, sess[u])
    BY DEF InQueue, Contains
  <2>2. Answered(sess[u]) =>
          Has(toClient, sess[u], "GameInit") \/ (GuiRace /\ m_game[sess[u]] # None)
    BY DEF Answered, Sent, Has
  <2> QED
    BY <2>1, <2>2 DEF StillWaits, StillAsks, Sent, Has
<1> QED
  BY <1>1, <1>2, <1>3, MatchInvariance, PTL DEF Spec

-----------------------------------------------------------------------------
(* Without "Cancel Match" a player is matched once.                        *)

LEMMA NoCancel ==
  ASSUME ~MayCancel, NEW s, NEW c \in Seq(SentBy(s))
  PROVE  /\ ~Sent(c, "UAutoMatch")
         /\ CancelledBefore(c) \/ CancelledBehind(c) => ~Sent(c, "AutoMatch")
<1>1. \A k \in 1..Len(c) : c[k].cmd # "UAutoMatch"
  BY ElementOfSeq DEF SentBy
<1> QED
  BY <1>1 DEF Sent, CancelledBefore, CancelledBehind

(* No request is sent or read, and nobody may ask who might not before. *)
LEMMA QuietKeepsGameless ==
  ASSUME GamelessAsk, UNCHANGED <<m_queue, m_game>>, m_players' \subseteq m_players,
         \A t \in m_players' : Sent(toServer'[t], "AutoMatch") => Sent(toServer[t], "AutoMatch"),
         \A v \in User : MayAsk(v)' => MayAsk(v) /\ sess'[v] = sess[v]
  PROVE  GamelessAsk'
<1>1. \A t : InQueue(t)' <=> InQueue(t)
  BY DEF InQueue
<1>2. \A v \in User : MayAsk(v)' /\ sess'[v] \in m_players' => m_game'[sess'[v]] = None
  BY DEF GamelessAsk
<1>3. \A t \in m_players' : Sent(toServer'[t], "AutoMatch") => m_game'[t] = None
  BY DEF GamelessAsk
<1>4. \A t \in Session : InQueue(t)' => m_game'[t] = None
  BY <1>1 DEF GamelessAsk
<1> QED
  BY <1>2, <1>3, <1>4 DEF GamelessAsk

LEMMA ClientKeepsGameless ==
  ASSUME ~MayCancel, Base, GamelessAsk, NEW u \in User, ClientEffect(u)
  PROVE  GamelessAsk'
<1>1. CASE Listens
  <2>1. \A v \in User : MayAsk(v)' => MayAsk(v) /\ sess'[v] = sess[v]
    BY <1>1 DEF Listens, MayAsk, Online
  <2> QED
    BY <1>1, <2>1, QuietKeepsGameless DEF Listens, playerVars
<1>2. ASSUME NEW cmd, Speaks(u, cmd)
      PROVE  GamelessAsk'
  <2>1. PICK s : s = sess[u]
    OBVIOUS
  <2>2. /\ Says(u, cmd) /\ cmd # "UAutoMatch"
        /\ m_players' = m_players /\ sess' = sess /\ UNCHANGED <<m_queue, m_game>>
        /\ m_players \subseteq Session
        /\ cmd = "AutoMatch" => MayAsk(u)
        /\ \A v \in User : MayAsk(v)' => MayAsk(v)
    BY <1>2 DEF Speaks, Says, playerVars, Base, IInv, TypeOK
  <2>3. PICK m : /\ s \in Session /\ m \in SentBy(s) /\ m.cmd = cmd
                 /\ toServer[s] \in Seq(SentBy(s))
                 /\ toServer'[s] = Append(toServer[s], m)
                 /\ \A t \in Session \ {s} : toServer'[t] = toServer[t]
    BY <2>1, <2>2, SaysEffect
  <2>4. Sent(toServer'[s], "AutoMatch") <=> Sent(toServer[s], "AutoMatch") \/ cmd = "AutoMatch"
    BY <2>3, AppendRequest
  <2>5. ASSUME NEW t \in m_players, Sent(toServer'[t], "AutoMatch")
        PROVE  m_game[t] = None
    <3>1. CASE t = s
      BY <2>1, <2>2, <2>4, <2>5, <3>1 DEF GamelessAsk
    <3>2. CASE t # s
      BY <2>2, <2>3, <2>5, <3>2 DEF GamelessAsk
    <3> QED
      BY <3>1, <3>2
  <2>6. \A t : InQueue(t)' <=> InQueue(t)
    BY <2>2 DEF InQueue
  <2> QED
    BY <2>2, <2>5, <2>6 DEF GamelessAsk
<1> QED
  BY <1>1, <1>2 DEF ClientEffect

LEMMA ConnectKeepsGameless ==
  ASSUME Base, GamelessAsk, NEW u \in User, PressConnect(u)
  PROVE  GamelessAsk'
<1>0. PICK s : s = nextSession
  OBVIOUS
<1>1. /\ s \in Session /\ m_players' = m_players \cup {s}
      /\ UNCHANGED <<m_queue, m_game, toServer, gui>>
      /\ sess' = [sess EXCEPT ![u] = s]
      /\ m_state' = [m_state EXCEPT ![u] = "Connected"]
      /\ m_state \in [User -> State] /\ sess \in [User -> Session \cup {None}]
      /\ s >= nextSession
  BY <1>0, SessionNotNone DEF Base, ClientTypeOK, PressConnect, OnCon, playerVars
<1>2. m_game[s] = None
  BY <1>1 DEF Base, FreshSessions
<1>3. \A t : InQueue(t)' <=> InQueue(t)
  BY <1>1 DEF InQueue
<1>4. \A t \in m_players' : Sent(toServer'[t], "AutoMatch") => m_game'[t] = None
  BY <1>1, <1>2 DEF GamelessAsk
<1>5. ASSUME NEW v \in User, MayAsk(v)', sess'[v] \in m_players'
      PROVE  m_game'[sess'[v]] = None
  <2>1. CASE sess'[v] = s
    BY <1>1, <1>2, <2>1
  <2>2. CASE sess'[v] # s
    <3>1. v # u /\ sess'[v] = sess[v] /\ m_state'[v] = m_state[v] /\ sess[v] \in m_players
      BY <1>1, <1>5, <2>2
    <3>2. MayAsk(v)
      BY <1>1, <1>5, <3>1 DEF MayAsk, Online
    <3> QED
      BY <1>1, <3>1, <3>2 DEF GamelessAsk
  <2> QED
    BY <2>1, <2>2
<1> QED
  BY <1>1, <1>3, <1>4, <1>5 DEF GamelessAsk

(* The two who are matched have asked only this once, and ask no more. *)
LEMMA MatchedDone ==
  ASSUME ~MayCancel, MatchInv, NEW s \in Session, OnRead(s, "AutoMatch"),
         NEW p \in Session, p # s, InQueue(p)
  PROVE  \A t \in {p, s} \cap m_players :
           /\ ~Sent(toServer'[t], "AutoMatch")
           /\ \A u \in User : sess[u] = t => ~MayAsk(u)
<1>1. /\ s \in m_players /\ toServer[s] \in Seq(SentBy(s)) /\ toServer[s] # << >>
      /\ Head(toServer[s]).cmd = "AutoMatch"
      /\ toServer'[s] = Tail(toServer[s]) /\ toServer'[p] = toServer[p]
      /\ toServer[p] \in Seq(SentBy(p))
  BY ReadEffect DEF MatchInv, Base, SignedBySender
<1>2. /\ Alternate(toServer[s])
      /\ \A u \in User : MayAsk(u) /\ sess[u] = s => CancelledBehind(toServer[s])
      /\ p \in m_players => CancelledBefore(toServer[p])
      /\ \A u \in User : MayAsk(u) /\ sess[u] = p /\ p \in m_players =>
           Sent(toServer[p], "UAutoMatch")
  BY <1>1 DEF MatchInv, AsksInTurn
<1>3. /\ Tail(toServer[s]) \in Seq(SentBy(s))
      /\ CancelledBefore(Tail(toServer[s])) /\ Sent(toServer[s], "AutoMatch")
  BY <1>1, <1>2, TakeRequest, HeadTailProperties
<1>4. /\ ~Sent(Tail(toServer[s]), "AutoMatch") /\ ~CancelledBehind(toServer[s])
  BY <1>1, <1>3, NoCancel
<1>5. ~Sent(toServer[p], "UAutoMatch")
      /\ (p \in m_players => ~Sent(toServer[p], "AutoMatch"))
  BY <1>1, <1>2, NoCancel
<1> QED
  BY <1>1, <1>2, <1>4, <1>5

LEMMA ServerKeepsGameless ==
  ASSUME ~MayCancel, MatchInv, GamelessAsk, NEW s \in Session, Server(s)
  PROVE  GamelessAsk'
<1>1. /\ Recv(s) /\ IInv /\ Base /\ m_players \subseteq Session
      /\ UNCHANGED <<m_state, sess, gui>> /\ m_game \in [Session -> Nat]
  BY DEF MatchInv, Base, IInv, TypeOK, Server, clientVars
<1>2. PICK cmd : /\ OnRead(s, cmd)
                 /\ \/ cmd = "AutoMatch" /\ RecvAutoMatch(s)
                    \/ cmd = "UAutoMatch" /\ RecvUAutoMatch(s)
                    \/ /\ cmd \notin {"AutoMatch", "UAutoMatch"}
                       /\ UNCHANGED <<m_queue, m_games, m_game, m_other, m_bSer>>
  BY <1>1, ReadKinds
<1>3. /\ s \in m_players /\ m_players' = m_players
      /\ toServer[s] \in Seq(SentBy(s)) /\ toServer[s] # << >>
      /\ Head(toServer[s]).cmd = cmd
      /\ toServer'[s] = Tail(toServer[s])
      /\ \A t \in Session \ {s} : toServer'[t] = toServer[t]
  BY <1>1, <1>2, ReadEffect DEF OnRead
<1>4. \A v \in User : MayAsk(v)' <=> MayAsk(v)
  BY <1>1 DEF MayAsk, Online
<1>5. /\ Sent(toServer[s], cmd)
      /\ \A t \in m_players : Sent(toServer'[t], "AutoMatch") => Sent(toServer[t], "AutoMatch")
  <2>1. /\ Sent(toServer[s], cmd)
        /\ Sent(Tail(toServer[s]), "AutoMatch") => Sent(toServer[s], "AutoMatch")
    BY <1>3, TakeRequest
  <2> QED
    BY <1>1, <1>3, <2>1
<1>6. ASSUME m_game' = m_game,
             \A t : InQueue(t)' => InQueue(t) \/ (t = s /\ cmd = "AutoMatch")
      PROVE  GamelessAsk'
  <2>1. cmd = "AutoMatch" => m_game[s] = None
    BY <1>3, <1>5 DEF GamelessAsk
  <2> QED
    BY <1>1, <1>3, <1>4, <1>5, <1>6, <2>1 DEF GamelessAsk
<1>7. ASSUME NEW p \in Session, cmd = "AutoMatch", \A t : InQueue(t) <=> t = p,
             \A t : ~InQueue(t)', MakeGame(p, s)
      PROVE  GamelessAsk'
  <2>1. CASE p = s
    <3>1. InQueue(s)
      BY <1>7, <2>1
    <3>2. CancelledBefore(toServer[s])
      BY <1>3, <3>1 DEF MatchInv, AsksInTurn
    <3> QED
      BY <1>3, <1>7, <3>2, TakeRequest
  <2>2. CASE p # s
    <3>1. \A t \in {p, s} \cap m_players :
            /\ ~Sent(toServer'[t], "AutoMatch")
            /\ \A u \in User : sess[u] = t => ~MayAsk(u)
      BY <1>2, <1>7, <2>2, MatchedDone
    <3>2. \A t \in Session \ {p, s} : m_game'[t] = m_game[t]
      BY <1>1, <1>7 DEF MakeGame, InitGame
    <3>3. ASSUME NEW t \in m_players, Sent(toServer'[t], "AutoMatch")
          PROVE  m_game'[t] = None
      BY <1>1, <1>5, <3>1, <3>2, <3>3 DEF GamelessAsk
    <3>4. ASSUME NEW u \in User, MayAsk(u), sess[u] \in m_players
          PROVE  m_game'[sess[u]] = None
      BY <1>1, <3>1, <3>2, <3>4 DEF GamelessAsk
    <3> QED
      BY <1>1, <1>3, <1>4, <1>7, <3>3, <3>4 DEF GamelessAsk
  <2> QED
    BY <2>1, <2>2
<1>8. CASE cmd = "AutoMatch" /\ RecvAutoMatch(s)
  <2>1. CASE UNCHANGED m_game /\ \A t : InQueue(t)' <=> t = s
    BY <1>6, <1>8, <2>1
  <2> QED
    BY <1>1, <1>7, <1>8, <2>1, EnqueueEffect
<1>9. CASE cmd = "UAutoMatch" /\ RecvUAutoMatch(s)
  BY <1>1, <1>6, <1>9, UnqueueEffect DEF RecvUAutoMatch
<1>10. CASE UNCHANGED <<m_queue, m_games, m_game, m_other, m_bSer>>
  BY <1>6, <1>10 DEF InQueue
<1> QED
  BY <1>2, <1>8, <1>9, <1>10

LEMMA GamelessStep ==
  ASSUME ~MayCancel, MatchInv, GamelessAsk, [Next]_vars
  PROVE  GamelessAsk'
<1>0. Base /\ m_players \subseteq Session /\ toServer \in [Session -> Seq(ToServerMsg)]
  BY DEF MatchInv, Base, IInv, TypeOK
<1>1. ASSUME UNCHANGED <<m_queue, m_game, m_state, gui, sess>>, m_players' \subseteq m_players,
             \A t \in m_players' : toServer'[t] = toServer[t]
      PROVE  GamelessAsk'
  <2>1. \A v \in User : MayAsk(v)' => MayAsk(v) /\ sess'[v] = sess[v]
    BY <1>1 DEF MayAsk, Online
  <2> QED
    BY <1>1, <2>1, QuietKeepsGameless
<1>2. ASSUME NEW s \in Session, Dropped(s) PROVE GamelessAsk'
  BY <1>0, <1>1, <1>2 DEF Dropped, OnDisCon, clientVars, playerVars
<1>3. ASSUME NEW idle, Process(idle), UNCHANGED clientVars PROVE GamelessAsk'
  BY <1>1, <1>3 DEF Process, clientVars, playerVars
<1>4. CASE UNCHANGED vars
  BY <1>1, <1>4 DEF vars, lobbyVars, clientVars, playerVars
<1> QED
  BY <1>0, <1>2, <1>3, <1>4, Kinds, ClientKeepsGameless, ConnectKeepsGameless,
     ServerKeepsGameless

-----------------------------------------------------------------------------
(* What a client was told stays true.                                      *)

(* The opponent and the role of a player are kept, and its readiness. *)
Grows ==
  /\ \A s \in Session : m_other[s] # None =>
       m_other'[s] = m_other[s] /\ m_game'[s] = m_game[s] /\ m_bSer'[s] = m_bSer[s]
  /\ \A s \in Session : m_ready[s] => m_ready'[s]

LEMMA GrowsStep ==
  ASSUME ~MayCancel, MatchInv, GamelessAsk, OneOpponent, [Next]_vars
  PROVE  Grows /\ OneOpponent'
<1>1. /\ m_game \in [Session -> Nat] /\ m_other \in [Session -> Session \cup {None}]
      /\ m_ready \in [Session -> BOOLEAN] /\ m_bSer \in [Session -> BOOLEAN]
      /\ m_players \subseteq Session /\ PlayerKnowsItsGame /\ Base
  BY DEF MatchInv, Base, IInv, TypeOK
<1>2. \A s \in Session : m_ready[s] => m_ready'[s]
  <2>1. CASE m_ready' = m_ready
    BY <2>1
  <2>2. ASSUME NEW s \in Session, Server(s)
        PROVE  m_ready' = m_ready \/ m_ready' = [m_ready EXCEPT ![s] = TRUE]
    BY <2>2, Zenon DEF Server, Recv, RecvKeepAlive, RecvKeepAliveAck, RecvSynchPos, RecvGameShot,
                RecvAutoMatch, RecvUAutoMatch, RecvGameReady, playerVars
  <2>3. ASSUME NEW u \in User, ClientEffect(u)
        PROVE  m_ready' = m_ready
    BY <2>3 DEF ClientEffect, Listens, Speaks, Says, playerVars
  <2>4. /\ \A u \in User : PressConnect(u) => m_ready' = m_ready
        /\ \A s \in Session : Dropped(s) => m_ready' = m_ready
        /\ \A idle : Process(idle) => m_ready' = m_ready
        /\ UNCHANGED vars => m_ready' = m_ready
    BY DEF PressConnect, OnCon, Dropped, OnDisCon, Process, vars, lobbyVars, playerVars
  <2> QED
    BY <1>1, <2>1, <2>2, <2>3, <2>4, Kinds
<1>3. CASE UNCHANGED <<m_games, m_game, m_other, m_bSer>>
  BY <1>2, <1>3 DEF Grows, OneOpponent
<1>4. ASSUME NEW s \in Session, NEW p \in Session, s # p, InQueue(p), MakeGame(p, s),
             RecvAutoMatch(s)
      PROVE  Grows /\ OneOpponent'
  <2>1. m_game[s] = None
    <3>1. /\ OnRead(s, "AutoMatch")
      BY <1>4 DEF RecvAutoMatch
    <3>2. /\ s \in m_players /\ toServer[s] \in Seq(SentBy(s)) /\ toServer[s] # << >>
          /\ Head(toServer[s]).cmd = "AutoMatch"
      BY <1>1, <3>1, ReadEffect
    <3>3. Sent(toServer[s], "AutoMatch")
      BY <3>2, TakeRequest
    <3> QED
      BY <3>2, <3>3 DEF GamelessAsk
  <2>2. m_other[s] = None /\ m_other[p] = None
    BY <1>1, <1>4, <2>1 DEF GamelessAsk, PlayerKnowsItsGame
  <2>3. /\ \A t \in Session \ {p, s} : /\ m_other'[t] = m_other[t] /\ m_game'[t] = m_game[t]
                                       /\ m_bSer'[t] = m_bSer[t]
        /\ m_other'[p] = s /\ m_other'[s] = p /\ m_game'[p] = m_game'[s]
    BY <1>1, <1>4 DEF MakeGame, InitGame, InitOther, InitRole
  <2>4. \A t \in Session : m_other[t] # None => m_other[t] \in Session \ {p, s}
    BY <1>1, <2>2, SessionNotNone DEF OneOpponent
  <2>5. Grows
    BY <1>2, <2>2, <2>3 DEF Grows
  <2>6. OneOpponent'
    <3> SUFFICES ASSUME NEW t \in Session, m_other'[t] # None
                 PROVE  /\ m_other'[t] # t /\ m_other'[m_other'[t]] = t
                        /\ m_game'[m_other'[t]] = m_game'[t]
      BY DEF OneOpponent
    <3>1. CASE t \in {p, s}
      BY <1>4, <2>3, <3>1
    <3>2. CASE t \notin {p, s}
      BY <2>3, <2>4, <3>2 DEF OneOpponent
    <3> QED
      BY <3>1, <3>2
  <2> QED
    BY <2>5, <2>6
<1> QED
  BY <1>3, <1>4, GamesStep

(* Two opponents are opponents, whatever happens to one of them. *)
LEMMA StartingStays ==
  ASSUME Base, Grows, NEW s \in Session, NEW b \in BOOLEAN, Starting(s, b)
  PROVE  Starting(s, b)'
<1>1. m_other[s] \in Session
  BY DEF Base, IInv, TypeOK, Starting
<1> QED
  BY <1>1 DEF Starting, Grows

LEMMA TrueStays ==
  ASSUME Base, Grows, NEW s \in Session
  PROVE  TrueTo(s) \subseteq TrueTo(s)'
<1>1. \A b \in BOOLEAN : Starting(s, b) => Starting(s, b)'
  BY StartingStays
<1>2. m_other[s] # None => m_other'[s] = m_other[s]
  BY DEF Grows
<1> SUFFICES ASSUME NEW m \in TrueTo(s) PROVE m \in TrueTo(s)'
  OBVIOUS
<1>3. /\ m \in ToClientMsg
      /\ m.cmd = "GameStart" => Starting(s, FALSE)'
      /\ m.cmd = "GameStartSer" => Starting(s, TRUE)'
      /\ m.cmd \in {"GameShot", "SynchPos"} => m_other'[s] # None /\ m.from = m_other'[s]
  BY <1>1, <1>2 DEF TrueTo
<1> QED
  BY <1>3 DEF TrueTo, ToClientMsg

(* Other messages of the server are true of everybody. *)
LEMMA PlainTrue ==
  ASSUME NEW s \in Session, NEW cmd \in {"GameInit", "KeepAlive", "KeepAliveAck"}
  PROVE  FromServer(cmd) \in TrueTo(s)'
<1>1. FromServer(cmd) \in ToClientMsg /\ FromServer(cmd).cmd = cmd
  BY ServerMessages DEF ServerCmd
<1> HIDE DEF FromServer
<1> QED
  BY <1>1 DEF TrueTo, ToClientMsg

(* The inboxes, when ok says for every session what may be in it. *)
Inboxes(chan, ok) == \A t \in Session : chan[t] \in Seq(ok[t])

LEMMA DeliverTrue ==
  ASSUME NEW ok, NEW chan \in [Session -> Seq(ToClientMsg)], Inboxes(chan, ok),
         NEW s \in Session, NEW m \in ok[s]
  PROVE  Inboxes(Deliver(chan, s, m), ok)
<1>1. Append(chan[s], m) \in Seq(ok[s])
  BY AppendProperties DEF Inboxes
<1> QED
  BY <1>1 DEF Inboxes, Deliver

(* A start is true of a player that is ready, with a ready opponent. *)
LEMMA StartTrue ==
  ASSUME NEW s \in Session, NEW b \in BOOLEAN, Starting(s, b)'
  PROVE  GameStart(b) \in TrueTo(s)'
<1>1. GameStart(b) \in ToClientMsg
  BY ServerMessages
<1>2. GameStart(b).cmd = IF b THEN "GameStartSer" ELSE "GameStart"
  BY DEF GameStart
<1> HIDE DEF GameStart
<1> QED
  BY <1>1, <1>2 DEF TrueTo, ToClientMsg

(* A shot or a position reaches the opponent of its maker. *)
LEMMA RelayTrue ==
  ASSUME Base, OneOpponent, Grows, NEW s \in Session, m_other[s] # None,
         NEW m \in SentBy(s), m.cmd \in {"GameShot", "SynchPos"}
  PROVE  m_other[s] \in Session /\ m \in TrueTo(m_other[s])'
<1>1. PICK o \in Session : o = m_other[s]
  BY DEF Base, IInv, TypeOK
<1>2. m_other'[o] = s /\ s # None /\ m_other'[s] = o
  BY <1>1, SessionNotNone DEF OneOpponent, Grows
<1>3. m \in ToServerMsg /\ m.from = s
  BY DEF SentBy
<1>4. m \in ToClientMsg
  BY <1>3, Relayed
<1>5. m \in TrueTo(o)'
  BY <1>2, <1>3, <1>4 DEF TrueTo, ToClientMsg
<1>6. m_other'[s] = m_other[s]
  BY <1>1, <1>2
<1> QED
  BY <1>1, <1>5, <1>6 DEF TrueTo, Starting

LEMMA ServerTells ==
  ASSUME Base, OneOpponent, Grows, NEW s \in Session, Server(s),
         NEW ok, \A t \in Session : ok[t] = TrueTo(t)', Inboxes(toClient, ok)
  PROVE  Inboxes(toClient', ok)
<1>0. /\ toClient \in [Session -> Seq(ToClientMsg)] /\ IInv
      /\ m_other \in [Session -> Session \cup {None}]
      /\ m_ready \in [Session -> BOOLEAN] /\ m_bSer \in [Session -> BOOLEAN]
      /\ Recv(s)
  BY DEF Base, IInv, TypeOK, Server
<1>1. \A t \in Session, cmd \in {"GameInit", "KeepAlive", "KeepAliveAck"} :
        FromServer(cmd) \in ok[t] /\ FromServer(cmd) \in ToClientMsg
  BY PlainTrue, ServerMessages DEF ServerCmd
<1>2. CASE RecvKeepAlive(s)
  <2>1. toClient' = Deliver(toClient, s, FromServer("KeepAliveAck"))
    BY <1>2 DEF RecvKeepAlive
  <2> QED
    BY <1>0, <1>1, <2>1, DeliverTrue
<1>3. CASE RecvKeepAliveAck(s) \/ RecvUAutoMatch(s)
  BY <1>3 DEF RecvKeepAliveAck, RecvUAutoMatch
<1>4. ASSUME NEW cmd \in {"SynchPos", "GameShot"}, OnRead(s, cmd),
             \/ toClient' = toClient
             \/ m_other[s] # None /\ toClient' = Deliver(toClient, m_other[s], Head(toServer[s]))
      PROVE  Inboxes(toClient', ok)
  <2>1. CASE toClient' = toClient
    BY <2>1
  <2>2. CASE m_other[s] # None /\ toClient' = Deliver(toClient, m_other[s], Head(toServer[s]))
    <3>1. Head(toServer[s]) \in SentBy(s) /\ Head(toServer[s]).cmd = cmd
      BY <1>4, ReadEffect
    <3>2. PICK o \in Session : o = m_other[s]
      BY <1>0, <2>2
    <3>3. m_other'[s] = m_other[s]
      BY <2>2 DEF Grows
    <3>4. Head(toServer[s]) \in ok[o]
      <4>1. PICK m : m = Head(toServer[s])
        OBVIOUS
      <4>2. m \in TrueTo(m_other[s])'
        BY <1>4, <2>2, <3>1, <4>1, RelayTrue
      <4>3. m \in TrueTo(o)'
        BY <3>2, <3>3, <4>2 DEF TrueTo, Starting
      <4> QED
        BY <4>1, <4>3
    <3> QED
      BY <1>0, <2>2, <3>2, <3>4, DeliverTrue
  <2> QED
    BY <1>4, <2>1, <2>2
<1>5. CASE RecvSynchPos(s)
  BY <1>4, <1>5 DEF RecvSynchPos
<1>6. CASE RecvGameShot(s)
  <2>1. m_game[s] # None => m_other[s] # None
    BY <1>0 DEF IInv, PlayerKnowsItsGame
  <2> QED
    BY <1>4, <1>6, <2>1 DEF RecvGameShot, Target
<1>7. CASE RecvAutoMatch(s)
  <2>1. ASSUME NEW p \in Session, MakeGame(p, s)
        PROVE  Inboxes(toClient', ok)
    <3> DEFINE m == FromServer("GameInit")
               once == Deliver(toClient, p, m)
    <3>1. toClient' = Deliver(once, s, m)
      BY <2>1 DEF MakeGame
    <3>2. m \in ok[p] /\ m \in ok[s] /\ m \in ToClientMsg
      BY <1>1
    <3> HIDE DEF m
    <3>3. once \in [Session -> Seq(ToClientMsg)] /\ Inboxes(once, ok)
      BY <1>0, <3>2, DeliverType, DeliverTrue
    <3> HIDE DEF once
    <3> QED
      BY <3>1, <3>2, <3>3, DeliverTrue
  <2> QED
    BY <1>0, <1>7, <2>1, EnqueueEffect
<1>8. CASE RecvGameReady(s)
  <2>1. /\ m_other' = m_other /\ m_bSer' = m_bSer
        /\ m_ready' = [m_ready EXCEPT ![s] = TRUE]
        /\ toClient' = IF m_other[s] # None /\ m_ready'[m_other[s]]
                       THEN Start(m_games[m_game[s]]) ELSE toClient
    BY <1>8 DEF RecvGameReady, OpponentReady
  <2>2. CASE toClient' = toClient
    BY <2>2
  <2>3. CASE m_other[s] # None /\ m_ready'[m_other[s]] /\ toClient' = Start(m_games[m_game[s]])
    <3> DEFINE g == m_games[m_game[s]]
               once == Deliver(toClient, g[1], GameStart(m_bSer[g[1]]))
    <3>1. g \in {<<s, m_other[s]>>, <<m_other[s], s>>}
      BY <1>0, <2>3 DEF IInv, PlayerKnowsItsGame
    <3>2. g[1] \in {s, m_other[s]} /\ g[2] \in {s, m_other[s]} /\ m_other[s] \in Session
      BY <1>0, <2>3, <3>1
    <3>3. toClient' = Deliver(once, g[2], GameStart(m_bSer[g[2]]))
      BY <2>3 DEF Start
    <3> HIDE DEF g
    <3>4. ASSUME NEW t \in {s, m_other[s]}
          PROVE  GameStart(m_bSer[t]) \in ok[t] /\ GameStart(m_bSer[t]) \in ToClientMsg
      <4>1. t \in Session
        BY <3>2
      <4>2. PICK b \in BOOLEAN : b = m_bSer[t]
        BY <1>0, <4>1
      <4>3. m_other[t] # None /\ m_other[t] \in {s, m_other[s]}
        BY <2>3, SessionNotNone DEF OneOpponent
      <4>4. \A v \in {s, m_other[s]} : m_ready'[v]
        BY <1>0, <2>1, <2>3
      <4>5. Starting(t, b)'
        BY <2>1, <4>2, <4>3, <4>4 DEF Starting
      <4> QED
        BY <4>1, <4>2, <4>5, StartTrue, ServerMessages
    <3>5. once \in [Session -> Seq(ToClientMsg)] /\ Inboxes(once, ok)
      BY <1>0, <3>2, <3>4, DeliverType, DeliverTrue
    <3> HIDE DEF once
    <3> QED
      BY <3>2, <3>3, <3>4, <3>5, DeliverTrue
  <2> QED
    BY <2>1, <2>2, <2>3
<1> QED
  BY <1>0, <1>2, <1>3, <1>5, <1>6, <1>7, <1>8 DEF Recv

LEMMA InboxStep ==
  ASSUME Base, OneOpponent, InboxTrue, Grows, [Next]_vars
  PROVE  InboxTrue'
<1>0. /\ toClient \in [Session -> Seq(ToClientMsg)]
  BY DEF Base, IInv, TypeOK
<1>1. PICK ok : ok = [t \in Session |-> TrueTo(t)']
  OBVIOUS
<1>2. \A t \in Session : ok[t] = TrueTo(t)'
  BY <1>1
<1>3. Inboxes(toClient, ok)
  BY <1>2, TrueStays, SeqOfSubset DEF Inboxes, InboxTrue
<1>4. SUFFICES Inboxes(toClient', ok)
  BY <1>2 DEF Inboxes, InboxTrue
<1> HIDE <1>1
<1>5. CASE toClient' = toClient
  BY <1>3, <1>5
<1>6. ASSUME NEW u \in User, ClientEffect(u) PROVE Inboxes(toClient', ok)
  <2>1. InboxShrinks
    BY <1>6 DEF ClientEffect
  <2> QED
    BY <1>3, <2>1, ShrinkKeeps DEF Inboxes
<1>7. ASSUME NEW idle, Process(idle) PROVE Inboxes(toClient', ok)
  <2> DEFINE m == FromServer("KeepAlive")
  <2>1. \A t \in Session : m \in ok[t]
    BY <1>2, PlainTrue
  <2>2. \A t \in Session : toClient'[t] = IF t \in idle THEN Append(toClient[t], m) ELSE toClient[t]
    BY <1>7 DEF Process
  <2> HIDE DEF m
  <2>3. \A t \in Session : Append(toClient[t], m) \in Seq(ok[t])
    BY <1>3, <2>1, AppendProperties DEF Inboxes
  <2> QED
    BY <1>3, <2>2, <2>3 DEF Inboxes
<1>8. ASSUME NEW s \in Session, Server(s) PROVE Inboxes(toClient', ok)
  BY <1>2, <1>3, <1>8, ServerTells
<1>9. /\ \A u \in User : PressConnect(u) => toClient' = toClient
      /\ \A s \in Session : Dropped(s) => toClient' = toClient
      /\ UNCHANGED vars => toClient' = toClient
  BY DEF PressConnect, OnCon, Dropped, OnDisCon, vars, lobbyVars
<1> QED
  BY <1>5, <1>6, <1>7, <1>8, <1>9, Kinds

(* What the client shows. *)
LEMMA StartingOf ==
  ASSUME NEW u \in User, NEW s, NEW b, sess'[u] = s, drives'[u] = b, Starting(s, b)'
  PROVE  Starting(sess[u], drives[u])'
BY DEF Starting

LEMMA ClientShows ==
  ASSUME Base, InboxTrue, RunningTrue, Grows, NEW u \in User, ClientStep(u),
         m_state'[u] = "GameRunning", Online(u)'
  PROVE  Starting(sess[u], drives[u])'
<1>1. /\ m_state \in [User -> State] /\ sess \in [User -> Session \cup {None}]
      /\ drives \in [User -> BOOLEAN]
      /\ toClient \in [Session -> Seq(ToClientMsg)]
      /\ gui \in [User -> {Idle, "WaitingToMatch", "WaitingToStart", "Connected"}]
  BY DEF Base, IInv, TypeOK, ClientTypeOK, ButtonStates
<1>2. ASSUME sess'[u] = sess[u], drives'[u] = drives[u], m_state[u] = "GameRunning"
      PROVE  Starting(sess[u], drives[u])'
  <2>1. PICK s \in Session, b \in BOOLEAN : s = sess[u] /\ b = drives[u]
    BY <1>1, <1>2 DEF Online
  <2>2. Online(u) /\ Starting(s, b)
    BY <1>2, <2>1 DEF RunningTrue, Online
  <2> QED
    BY <1>2, <2>1, <2>2, StartingStays, StartingOf
<1>3. CASE PressAutomatch(u) \/ PressCancel(u) \/ PressReady(u)
  <2>1. PICK now, cmd, next : /\ Press(u, now, cmd, next)
                              /\ next \in {"WaitingToMatch", "Connected", "WaitingToStart"}
    BY <1>3 DEF PressAutomatch, PressCancel, PressReady
  <2>2. /\ m_state' = m_state \/ m_state' = [m_state EXCEPT ![u] = next]
        /\ UNCHANGED <<sess, drives>>
    BY <2>1, Zenon DEF Press, gameVars
  <2>3. m_state[u] = "GameRunning"
    BY <1>1, <2>1, <2>2
  <2> QED
    BY <1>2, <2>2, <2>3
<1>4. CASE ButtonAssigns(u)
  <2>1. m_state' = [m_state EXCEPT ![u] = gui[u]] /\ gui[u] # "GameRunning"
    BY <1>1, <1>4 DEF ButtonAssigns, Idle
  <2> QED
    BY <1>1, <2>1
<1>5. CASE PressDisconnect(u) \/ ClientClose(u)
  <2>1. m_state' = [m_state EXCEPT ![u] = "Disconnected"]
    BY <1>5 DEF PressDisconnect, ClientClose
  <2> QED
    BY <1>1, <2>1
<1>6. CASE KeepsAlive(u) \/ \E cmd \in {"GameShot", "SynchPos"} : Plays(u, cmd)
  BY <1>2, <1>6 DEF KeepsAlive, Plays, clientVars, gameVars
<1>7. CASE RecvData(u)
  <2>1. PICK s \in Session : s = sess[u] /\ toClient[s] # << >>
    BY <1>1, <1>7 DEF RecvData, Online
  <2>2. PICK cmd : cmd = Head(toClient[s]).cmd
    OBVIOUS
  <2>3. /\ sess' = sess
        /\ m_state' = [m_state EXCEPT ![u] = StateAfter(cmd, @)]
        /\ drives' = [drives EXCEPT ![u] = cmd = "GameStartSer" \/ (cmd # "GameStart" /\ @)]
    BY <1>7, <2>1, <2>2 DEF RecvData
  <2>4. /\ StateAfter(cmd, m_state[u]) = "GameRunning"
        /\ drives'[u] = (cmd = "GameStartSer" \/ (cmd # "GameStart" /\ drives[u]))
    <3>1. StateAfter(cmd, m_state[u]) = "GameRunning"
      BY <1>1, <2>3
    <3>2. drives'[u] = (cmd = "GameStartSer" \/ (cmd # "GameStart" /\ drives[u]))
      BY <1>1, <2>3, Zenon
    <3> QED
      BY <3>1, <3>2
  <2>5. Head(toClient[s]) \in TrueTo(s)
    BY <2>1, HeadTailProperties DEF InboxTrue
  <2>6. CASE cmd \in {"GameStart", "GameStartSer"}
    <3>1. PICK b \in BOOLEAN : b = (cmd = "GameStartSer")
      OBVIOUS
    <3>2. Starting(s, b)
      BY <2>2, <2>5, <2>6, <3>1 DEF TrueTo
    <3>3. drives'[u] = b
      BY <2>4, <2>6, <3>1
    <3> QED
      BY <2>1, <2>3, <3>2, <3>3, StartingStays, StartingOf
  <2>7. CASE cmd \notin {"GameStart", "GameStartSer"}
    <3>1. m_state[u] = "GameRunning"
      BY <2>4, <2>7 DEF StateAfter
    <3>2. drives'[u] = drives[u]
      BY <1>1, <2>4, <2>7
    <3> QED
      BY <1>2, <2>3, <3>1, <3>2
  <2> QED
    BY <2>6, <2>7
<1> QED
  BY <1>3, <1>4, <1>5, <1>6, <1>7 DEF ClientStep

LEMMA RunningStep ==
  ASSUME Base, InboxTrue, RunningTrue, Grows, [Next]_vars
  PROVE  RunningTrue'
<1> SUFFICES ASSUME NEW v \in User, m_state'[v] = "GameRunning", Online(v)'
             PROVE  Starting(sess[v], drives[v])'
  BY DEF RunningTrue
<1>1. /\ m_state \in [User -> State] /\ sess \in [User -> Session \cup {None}]
      /\ drives \in [User -> BOOLEAN]
  BY DEF Base, ClientTypeOK
<1>2. ASSUME sess'[v] = sess[v], drives'[v] = drives[v], m_state'[v] = m_state[v]
      PROVE  Starting(sess[v], drives[v])'
  <2>1. PICK s \in Session, b \in BOOLEAN : s = sess[v] /\ b = drives[v]
    BY <1>1, <1>2 DEF Online
  <2>2. Online(v) /\ Starting(s, b)
    BY <1>2, <2>1 DEF RunningTrue, Online
  <2> QED
    BY <1>2, <2>1, <2>2, StartingStays, StartingOf
<1>3. ASSUME NEW u \in User, ClientStep(u)
      PROVE  Starting(sess[v], drives[v])'
  BY <1>2, <1>3, ClientLocal, ClientShows
<1>4. ASSUME NEW u \in User, PressConnect(u)
      PROVE  Starting(sess[v], drives[v])'
  <2>1. /\ m_state' = [m_state EXCEPT ![u] = "Connected"]
        /\ sess' = [sess EXCEPT ![u] = nextSession] /\ drives' = drives
    BY <1>4 DEF PressConnect, gameVars
  <2>2. v # u
    BY <1>1, <2>1
  <2> QED
    BY <1>1, <1>2, <2>1, <2>2
<1>5. /\ \A s \in Session : Server(s) \/ Dropped(s) => UNCHANGED clientVars
      /\ UNCHANGED vars => UNCHANGED clientVars
  BY DEF Server, Dropped, vars
<1>6. CASE UNCHANGED clientVars
  BY <1>2, <1>6 DEF clientVars, gameVars
<1> QED
  BY <1>3, <1>4, <1>5, <1>6, Kinds

THEOREM OnceInvariance == MayCancel = FALSE => (Spec => []OnceInv)
<1> SUFFICES ASSUME MayCancel = FALSE PROVE Spec => []OnceInv
  OBVIOUS
<1>1. Init => OnceInv
  <2> SUFFICES ASSUME Init PROVE OnceInv
    OBVIOUS
  <2>1. GamelessAsk /\ OneOpponent /\ RunningTrue
    BY DEF Init, LobbyInit, GamelessAsk, OneOpponent, RunningTrue, MayAsk, Online, Sent
  <2>2. InboxTrue
    BY EmptySeq DEF Init, LobbyInit, InboxTrue
  <2> QED
    BY <2>1, <2>2 DEF OnceInv
<1>2. MatchInv /\ OnceInv /\ [Next]_vars => OnceInv'
  BY GamelessStep, GrowsStep, InboxStep, RunningStep DEF OnceInv, MatchInv
<1> QED
  BY <1>1, <1>2, MatchInvariance, PTL DEF Spec

(* The opponent of my opponent is me, for users who never cancel.          *)
THEOREM Mutual == MayCancel = FALSE => (Spec => []OpponentsMutual)
<1> SUFFICES ASSUME MayCancel = FALSE PROVE Spec => []OpponentsMutual
  OBVIOUS
<1>1. OnceInv => OpponentsMutual
  BY DEF OnceInv, OneOpponent, OpponentsMutual
<1> QED
  BY <1>1, OnceInvariance, PTL

(* A shot or a position in an inbox was made by the opponent.              *)
THEOREM OpponentHeard == MayCancel = FALSE => (Spec => []OnlyOpponentHeard)
<1> SUFFICES ASSUME MayCancel = FALSE PROVE Spec => []OnlyOpponentHeard
  OBVIOUS
<1>1. OnceInv => OnlyOpponentHeard
  <2> SUFFICES ASSUME OnceInv, NEW s \in Session, NEW k \in 1..Len(toClient[s]),
                      toClient[s][k].cmd \in {"GameShot", "SynchPos"}
               PROVE  toClient[s][k].from = m_other[s]
    BY DEF OnlyOpponentHeard
  <2>1. toClient[s] \in Seq(TrueTo(s))
    BY DEF OnceInv, InboxTrue
  <2>2. toClient[s][k] \in TrueTo(s)
    BY <2>1, ElementOfSeq
  <2> QED
    BY <2>2 DEF TrueTo
<1> QED
  BY <1>1, OnceInvariance, PTL

(* Two clients that show the game running are both ready, and one drives.  *)
THEOREM GamesRunAgreed == MayCancel = FALSE => (Spec => []RunningGamesAgree)
<1> SUFFICES ASSUME MayCancel = FALSE PROVE Spec => []RunningGamesAgree
  OBVIOUS
<1>1. MatchInv /\ OnceInv => RunningMeansBothReady
  BY DEF OnceInv, RunningTrue, Starting, RunningMeansBothReady
<1>2. MatchInv /\ OnceInv => OneClientDrives
  <2> SUFFICES ASSUME MatchInv, OnceInv, NEW u \in User, NEW v \in User,
                      m_state[u] = "GameRunning", m_state[v] = "GameRunning",
                      Online(u), Online(v), m_other[sess[u]] = sess[v]
               PROVE  drives[u] # drives[v]
    BY DEF OneClientDrives
  <2>1. sess[u] \in Session /\ sess[v] \in Session
    BY DEF MatchInv, Base, ClientTypeOK, Online
  <2>2. m_bSer[sess[u]] = drives[u] /\ m_bSer[sess[v]] = drives[v]
    BY DEF OnceInv, RunningTrue, Starting
  <2>3. /\ sess[u] # sess[v] /\ m_game[sess[u]] = m_game[sess[v]]
        /\ m_game[sess[u]] # None
    BY <2>1 DEF OnceInv, OneOpponent, Online, MatchInv, Base, IInv, PlayerKnowsItsGame
  <2>4. m_bSer[sess[u]] # m_bSer[sess[v]]
    BY <2>1, <2>3 DEF MatchInv, Base, IInv, OneDriver
  <2> QED
    BY <2>2, <2>4
<1>3. MatchInv /\ OnceInv => RunningGamesAgree
  BY <1>1, <1>2 DEF RunningGamesAgree
<1> QED
  BY <1>3, MatchInvariance, OnceInvariance, PTL
=============================================================================
