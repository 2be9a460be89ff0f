------------------------------- MODULE Lobby -------------------------------
(***************************************************************************)
(* The game server on top of the network library                           *)
(* (libnet/proj.win32: GHS_Lobby, GHS_Player, GHS_Game): the table of      *)
(* players, the queue of players who want a match, and the games.          *)
(*                                                                         *)
(* A session is one connection, named by its serial.  Player objects are   *)
(* never deleted: removePlayer() takes them out of the table only, and the *)
(* queue, an opponent or a game may go on pointing to them.                *)
(*                                                                         *)
(* The network between a session and its client is a pair of FIFO          *)
(* channels.  All handlers run in the I/O thread, so each is one action.   *)
(***************************************************************************)
EXTENDS Naturals, Sequences, SequencesExt

CONSTANTS MaxSession,   \* bound: connections made in a behaviour
          MaxChan,      \* bound: messages on the way from one client
          MaxUnread,    \* bound: messages a client has when the server reads on
          MaxGames,     \* bound: games made before clients stop asking
          ClientCmd     \* the messages clients send in an instance

(* The messages a client may send. *)
PlayerCmd == {"AutoMatch", "UAutoMatch", "GameReady", "GameShot", "SynchPos",
              "KeepAlive", "KeepAliveAck"}

ASSUME LobbyAssumption ==
  /\ MaxSession \in Nat /\ MaxChan \in Nat /\ MaxUnread \in Nat
  /\ MaxGames \in Nat
  /\ ClientCmd \subseteq PlayerCmd

VARIABLES
  nextSession,          \* the serial of the next connection
  m_players,            \* the sessions in the table
  m_queue,              \* the sessions waiting for an opponent, oldest first
  m_games,              \* the games made so far: pairs of sessions
  m_game, m_other,      \* session -> its game and its opponent
  m_ready, m_bSer,      \* session -> has sent GameReady; drives the ball
  toServer, toClient    \* session -> messages on the way

playerVars == <<m_queue, m_games, m_game, m_other, m_ready, m_bSer>>
lobbyVars == <<nextSession, m_players, playerVars, toServer, toClient>>

Session == 1..MaxSession
None == 0                \* the null pointer

(* The position and the shot carry data of the client that made them: its  *)
(* session stands for the data.  Only GameStart has other content.         *)
Msg(cmd, s) == [cmd |-> cmd, from |-> s]
FromServer(cmd) == [cmd |-> cmd, from |-> None]
GameStart(bSer) == [cmd |-> IF bSer THEN "GameStartSer" ELSE "GameStart", from |-> None]

LobbyInit ==
  /\ nextSession = 1
  /\ m_players = {}
  /\ m_queue = <<>>
  /\ m_games = <<>>
  /\ m_game = [s \in Session |-> None]
  /\ m_other = [s \in Session |-> None]
  /\ m_ready = [s \in Session |-> FALSE]
  /\ m_bSer = [s \in Session |-> FALSE]
  /\ toServer = [s \in Session |-> <<>>]
  /\ toClient = [s \in Session |-> <<>>]

-----------------------------------------------------------------------------
(* send(): the library discards what is for a session that has ended. *)
Deliver(chan, s, m) ==
  IF s \in m_players THEN [chan EXCEPT ![s] = Append(@, m)] ELSE chan

(* onCon: addPlayer() asserts that the serial is not in the table. *)
OnCon(s) ==
  /\ s = nextSession /\ s \in Session
  /\ nextSession' = s + 1
  /\ m_players' = m_players \cup {s}
  /\ UNCHANGED <<playerVars, toServer, toClient>>

(* onDisCon: removePlayer().  What the client sent and nobody read is lost. *)
OnDisCon(s) ==
  /\ s \in m_players
  /\ m_players' = m_players \ {s}
  /\ toServer' = [toServer EXCEPT ![s] = <<>>]
  /\ UNCHANGED <<nextSession, playerVars, toClient>>

(* onRead: one message of the session is taken and given to recv(). *)
OnRead(s, cmd) ==
  /\ s \in m_players
  /\ toServer[s] # <<>>
  /\ Head(toServer[s]).cmd = cmd
  /\ toServer' = [toServer EXCEPT ![s] = Tail(@)]
  /\ UNCHANGED <<nextSession, m_players>>

RecvKeepAlive(s) ==
  /\ OnRead(s, "KeepAlive")
  /\ toClient' = Deliver(toClient, s, FromServer("KeepAliveAck"))
  /\ UNCHANGED playerVars

(* Only the round trip time is updated, which nothing reads. *)
RecvKeepAliveAck(s) ==
  /\ OnRead(s, "KeepAliveAck")
  /\ UNCHANGED <<playerVars, toClient>>

(* A position is passed on to the opponent, if there is one. *)
RecvSynchPos(s) ==
  /\ OnRead(s, "SynchPos")
  /\ toClient' = IF m_other[s] # None
                 THEN Deliver(toClient, m_other[s], Head(toServer[s]))
                 ELSE toClient
  /\ UNCHANGED playerVars

(* A shot is passed on if the player has a game.  Deviation: to the second *)
(* player of the game.                                                     *)
Target_Second(s) == m_games[m_game[s]][2]
Target(s) == m_other[s]

RecvGameShot(s) ==
  /\ OnRead(s, "GameShot")
  /\ toClient' = IF m_game[s] # None
                 THEN Deliver(toClient, Target(s), Head(toServer[s]))
                 ELSE toClient
  /\ UNCHANGED playerVars

(* What GHS_Game::init() writes into the two players.  Deviations: the     *)
(* second gets no game, no opponent, or keeps the role it had.             *)
InitGame_First(p1, p2) == [m_game EXCEPT ![p1] = Len(m_games) + 1]
InitGame(p1, p2) == [m_game EXCEPT ![p1] = Len(m_games) + 1, ![p2] = Len(m_games) + 1]
InitOther_First(p1, p2) == [m_other EXCEPT ![p1] = p2]
InitOther(p1, p2) == [m_other EXCEPT ![p1] = p2, ![p2] = p1]
InitRole_First(p1, p2) == [m_bSer EXCEPT ![p1] = TRUE]
InitRole(p1, p2) == [m_bSer EXCEPT ![p1] = TRUE, ![p2] = FALSE]

(* makeGame() for the first two of the queue. *)
MakeGame(p1, p2) ==
  /\ m_games' = Append(m_games, <<p1, p2>>)
  /\ m_game' = InitGame(p1, p2)
  /\ m_other' = InitOther(p1, p2)
  /\ m_bSer' = InitRole(p1, p2)
  /\ toClient' = Deliver(Deliver(toClient, p1, FromServer("GameInit")),
                         p2, FromServer("GameInit"))

(* The queue with one more, and when a match can be made.  Deviations: the *)
(* pointer to the opponent is queued; three are needed.                    *)
Queued_Other(s) == Append(m_queue, m_other[s])
Queued(s) == Append(m_queue, s)
Enough_Three(q) == Len(q) >= 3
Enough(q) == Len(q) >= 2

(* enqueue(): whoever else is waiting, even if it has left meanwhile. *)
RecvAutoMatch(s) ==
  /\ OnRead(s, "AutoMatch")
  /\ LET q == Queued(s)
     IN  IF Enough(q)
         THEN /\ m_queue' = SubSeq(q, 3, Len(q))
              /\ MakeGame(q[1], q[2])
         ELSE /\ m_queue' = q
              /\ UNCHANGED <<m_games, m_game, m_other, m_bSer, toClient>>
  /\ UNCHANGED m_ready

(* unqueue(): too late when the match has been made.  Deviations: nobody   *)
(* is taken out; the first is, whoever it is.                              *)
Unqueued_Nobody(s) == m_queue
Unqueued_First(s) == IF m_queue = <<>> THEN <<>> ELSE Tail(m_queue)
Unqueued(s) == RemoveFirst(m_queue, s)

RecvUAutoMatch(s) ==
  /\ OnRead(s, "UAutoMatch")
  /\ m_queue' = Unqueued(s)
  /\ UNCHANGED <<m_games, m_game, m_other, m_ready, m_bSer, toClient>>

(* The test of recv(), with the flags as they are after the assignment.    *)
(* Deviation: the opponent's flag is not looked at.                        *)
OpponentReady_NotTested(s, ready) == m_other[s] # None
OpponentReady(s, ready) == m_other[s] # None /\ ready[m_other[s]]

(* start() sends to both players of the game object.  Deviations: to the   *)
(* first only; both are told the same role.                                *)
Start_First(g) == Deliver(toClient, g[1], GameStart(m_bSer[g[1]]))
Start_SameRole(g) == Deliver(Deliver(toClient, g[1], GameStart(m_bSer[g[1]])),
                             g[2], GameStart(m_bSer[g[1]]))
Start(g) == Deliver(Deliver(toClient, g[1], GameStart(m_bSer[g[1]])),
                    g[2], GameStart(m_bSer[g[2]]))

(* The second of two opponents to be ready starts the game. *)
RecvGameReady(s) ==
  /\ OnRead(s, "GameReady")
  /\ m_ready' = [m_ready EXCEPT ![s] = TRUE]
  /\ toClient' = IF OpponentReady(s, [m_ready EXCEPT ![s] = TRUE])
                 THEN Start(m_games[m_game[s]]) ELSE toClient
  /\ UNCHANGED <<m_queue, m_games, m_game, m_other, m_bSer>>

Recv(s) ==
  \/ RecvKeepAlive(s) \/ RecvKeepAliveAck(s) \/ RecvSynchPos(s) \/ RecvGameShot(s)
  \/ RecvAutoMatch(s) \/ RecvUAutoMatch(s) \/ RecvGameReady(s)

(* process(): a keep-alive to every player the server sent nothing to for  *)
(* ten seconds, whichever these are.  A player that was silent for thirty  *)
(* seconds is not disconnected: that branch is empty.                      *)
Process(idle) ==
  /\ toClient' = [s \in Session |->
                    IF s \in idle THEN Append(toClient[s], FromServer("KeepAlive"))
                    ELSE toClient[s]]
  /\ UNCHANGED <<nextSession, m_players, playerVars, toServer>>

-----------------------------------------------------------------------------
(* The server with clients that send what they like, in any order.         *)

ClientSends(s, cmd) ==
  /\ s \in m_players
  /\ Len(toServer[s]) < MaxChan
  /\ cmd = "AutoMatch" => Len(m_games) < MaxGames
  /\ toServer' = [toServer EXCEPT ![s] = Append(@, Msg(cmd, s))]
  /\ UNCHANGED <<nextSession, m_players, playerVars, toClient>>

ClientTakes(s) ==
  /\ toClient[s] # <<>>
  /\ toClient' = [toClient EXCEPT ![s] = Tail(@)]
  /\ UNCHANGED <<nextSession, m_players, playerVars, toServer>>

(* Bound: the server reads only while the clients keep up. *)
Room == \A s \in Session : Len(toClient[s]) <= MaxUnread

(* Bound: keep-alives are sent when no message is on the way to or from    *)
(* anybody; they follow ten seconds without a send.                        *)
NothingOnTheWay == \A s \in Session : toServer[s] = <<>> /\ toClient[s] = <<>>
Silent == IF "KeepAlive" \in ClientCmd /\ NothingOnTheWay THEN m_players ELSE {}

LobbyNext ==
  \/ \E idle \in SUBSET Silent : Process(idle)
  \/ \E s \in Session :
    \/ OnCon(s)
    \/ OnDisCon(s)
    \/ Room /\ Recv(s)
    \/ \E cmd \in ClientCmd : ClientSends(s, cmd)
    \/ ClientTakes(s)

LobbySpec == LobbyInit /\ [][LobbyNext]_lobbyVars

-----------------------------------------------------------------------------
ServerCmd == {"GameInit", "GameStart", "GameStartSer", "KeepAlive", "KeepAliveAck",
              "GameShot", "SynchPos"}
ToServerMsg == [cmd : PlayerCmd, from : Session]
ToClientMsg == [cmd : ServerCmd, from : Session \cup {None}]

(* The types of the variables. *)
TypeOK ==
  /\ nextSession \in Nat
  /\ m_players \subseteq Session
  /\ m_queue \in Seq(Session)
  /\ m_games \in Seq(Session \X Session)
  /\ m_game \in [Session -> Nat]
  /\ m_other \in [Session -> Session \cup {None}]
  /\ m_ready \in [Session -> BOOLEAN]
  /\ m_bSer \in [Session -> BOOLEAN]
  /\ toServer \in [Session -> Seq(ToServerMsg)]
  /\ toClient \in [Session -> Seq(ToClientMsg)]

(* makeGame() takes at most one pair and enqueue() does not loop: it is    *)
(* enough because the queue never holds more than one player between       *)
(* handlers, whatever is cancelled and whoever leaves.                     *)
QueueAtMostOne == Len(m_queue) <= 1

(* m_game and m_other are set together and agree with the game object, also *)
(* after a second match: recv() uses m_game where it has only tested       *)
(* m_other, and m_other where it has only tested m_game.                   *)
PlayerKnowsItsGame ==
  \A s \in Session :
    /\ m_game[s] = None <=> m_other[s] = None
    /\ m_game[s] # None =>
         /\ m_game[s] \in 1..Len(m_games)
         /\ m_games[m_game[s]] \in {<<s, m_other[s]>>, <<m_other[s], s>>}

(* No client is told to start before it has said that it is ready: the     *)
(* start goes to the players of the game object, the test was made on      *)
(* m_other.                                                                *)
StartOnlyWhenReady ==
  \A s \in Session : \A k \in 1..Len(toClient[s]) :
    toClient[s][k].cmd \in {"GameStart", "GameStartSer"} => m_ready[s]

(* Of two opponents in the same game one drives the ball and the other     *)
(* follows.                                                                *)
OneDriver ==
  \A s, t \in Session :
    s # t /\ m_game[s] # None /\ m_game[s] = m_game[t] => m_bSer[s] # m_bSer[t]
=============================================================================
