------------------------------- MODULE Match -------------------------------
(***************************************************************************)
(* The lobby with the Unity client it was written for                      *)
(* ("New Unity Project/Assets/script/Client.cs", Game.cs): every user      *)
(* drives one client, whose window offers the buttons of its state; the    *)
(* messages of the server move the state too.                              *)
(*                                                                         *)
(* A button's handler runs in the thread of the window, sends its message  *)
(* and then assigns the new state; RecvData runs in a thread of the socket *)
(* and assigns the state as well.  With GuiRace the two steps of a button  *)
(* are separate actions.                                                   *)
(***************************************************************************)
EXTENDS Lobby

CONSTANTS User,
          MayCancel,    \* users press "Cancel Match"
          MayLeave,     \* users press "Disconnect" or lose the connection
          GuiRace       \* a message may arrive in the middle of a button

MatchAssumption ==
  MayCancel \in BOOLEAN /\ MayLeave \in BOOLEAN /\ GuiRace \in BOOLEAN

VARIABLES
  m_state,              \* user -> the state of the client
  sess,                 \* user -> the session of its connection
  gui,                  \* user -> the state its button is about to assign
  drives,               \* user -> Game.m_bSer, as the server told it
  started               \* user -> Game.m_state is ST_Start or ST_Running

gameVars == <<drives, started>>
clientVars == <<m_state, sess, gui, gameVars>>
vars == <<lobbyVars, clientVars>>

State == {"Connected", "Disconnected", "WaitingToMatch", "GameInit",
          "WaitingToStart", "GameRunning"}
Idle == "Idle"

Init ==
  /\ LobbyInit
  /\ m_state = [u \in User |-> "Disconnected"]
  /\ sess = [u \in User |-> None]
  /\ gui = [u \in User |-> Idle]
  /\ drives = [u \in User |-> FALSE]
  /\ started = [u \in User |-> FALSE]

Online(u) == sess[u] # None

-----------------------------------------------------------------------------
(* The buttons.                                                            *)

(* Connect, until the callback Connected has run and the server knows. *)
PressConnect(u) ==
  /\ m_state[u] = "Disconnected" /\ gui[u] = Idle /\ ~Online(u)
  /\ OnCon(nextSession)
  /\ sess' = [sess EXCEPT ![u] = nextSession]
  /\ m_state' = [m_state EXCEPT ![u] = "Connected"]
  /\ UNCHANGED <<gui, gameVars>>

(* A button that is there in the state now, sends cmd and leads to next. *)
Press(u, now, cmd, next) ==
  /\ m_state[u] = now /\ gui[u] = Idle /\ Online(u)
  /\ Len(toServer[sess[u]]) < MaxChan
  /\ toServer' = [toServer EXCEPT ![sess[u]] = Append(@, Msg(cmd, sess[u]))]
  /\ IF GuiRace
     THEN gui' = [gui EXCEPT ![u] = next] /\ UNCHANGED m_state
     ELSE m_state' = [m_state EXCEPT ![u] = next] /\ UNCHANGED gui
  /\ UNCHANGED <<nextSession, m_players, playerVars, toClient, sess, gameVars>>

PressAutomatch(u) ==
  Len(m_games) < MaxGames /\ Press(u, "Connected", "AutoMatch", "WaitingToMatch")

PressCancel(u) ==
  MayCancel /\ Press(u, "WaitingToMatch", "UAutoMatch", "Connected")

PressReady(u) == Press(u, "GameInit", "GameReady", "WaitingToStart")

(* The second half of a button, with GuiRace. *)
ButtonAssigns(u) ==
  /\ gui[u] # Idle
  /\ m_state' = [m_state EXCEPT ![u] = gui[u]]
  /\ gui' = [gui EXCEPT ![u] = Idle]
  /\ UNCHANGED <<lobbyVars, sess, gameVars>>

(* Disconnect closes the socket: what it had not read is lost. *)
PressDisconnect(u) ==
  /\ MayLeave
  /\ m_state[u] # "Disconnected" /\ gui[u] = Idle
  /\ m_state' = [m_state EXCEPT ![u] = "Disconnected"]
  /\ sess' = [sess EXCEPT ![u] = None]
  /\ toClient' = [s \in Session |-> IF s = sess[u] THEN <<>> ELSE toClient[s]]
  /\ UNCHANGED <<nextSession, m_players, playerVars, toServer, gui, gameVars>>

-----------------------------------------------------------------------------
(* Game and InputMgr send shots of the player and, if it drives, positions. *)
(* They look at Game.m_state only: a game goes on in a client that was     *)
(* disconnected or matched again.  That it ends after thirty seconds is    *)
(* left out: a game that has ended just sends nothing.                     *)
Plays(u, cmd) ==
  /\ started[u] /\ Online(u)
  /\ cmd \in ClientCmd
  /\ cmd = "GameShot" \/ (cmd = "SynchPos" /\ drives[u])
  /\ Len(toServer[sess[u]]) < MaxChan
  /\ toServer' = [toServer EXCEPT ![sess[u]] = Append(@, Msg(cmd, sess[u]))]
  /\ UNCHANGED <<nextSession, m_players, playerVars, toClient, clientVars>>

(* FixedUpdate(): a keep-alive after ten seconds without a send. *)
KeepsAlive(u) ==
  /\ m_state[u] # "Disconnected" /\ Online(u)
  /\ "KeepAlive" \in ClientCmd
  /\ NothingOnTheWay
  /\ toServer' = [toServer EXCEPT ![sess[u]] = <<Msg("KeepAlive", sess[u])>>]
  /\ UNCHANGED <<nextSession, m_players, playerVars, toClient, clientVars>>

(* The state after a message.  Deviation: a match starts the game.         *)
StateAfter_MatchStarts(cmd, state) ==
  IF cmd \in {"GameInit", "GameStart", "GameStartSer"} THEN "GameRunning" ELSE state
StateAfter(cmd, state) ==
  CASE cmd = "GameInit" -> "GameInit"
    [] cmd \in {"GameStart", "GameStartSer"} -> "GameRunning"
    [] OTHER -> state

(* RecvData(): whatever the state is, GameInit and GameStart replace it.   *)
RecvData(u) ==
  /\ Online(u)
  /\ toClient[sess[u]] # <<>>
  /\ LET s == sess[u]
         cmd == Head(toClient[s]).cmd
     IN  /\ toClient' = [toClient EXCEPT ![s] = Tail(@)]
         /\ m_state' = [m_state EXCEPT ![u] = StateAfter(cmd, @)]
         /\ drives' = [drives EXCEPT ![u] =
                         cmd = "GameStartSer" \/ (cmd # "GameStart" /\ @)]
         /\ started' = [started EXCEPT ![u] = @ \/ cmd \in {"GameStart", "GameStartSer"}]
         /\ toServer' = IF cmd = "KeepAlive" /\ s \in m_players
                        THEN [toServer EXCEPT ![s] = Append(@, Msg("KeepAliveAck", s))]
                        ELSE toServer
  /\ UNCHANGED <<nextSession, m_players, playerVars, sess, gui>>

(* ClientClose(): the server side is gone. *)
ClientClose(u) ==
  /\ Online(u) /\ sess[u] \notin m_players
  /\ m_state' = [m_state EXCEPT ![u] = "Disconnected"]
  /\ sess' = [sess EXCEPT ![u] = None]
  /\ toClient' = [toClient EXCEPT ![sess[u]] = <<>>]
  /\ UNCHANGED <<nextSession, m_players, playerVars, toServer, gui, gameVars>>

(* The server notices the end of a connection, or the network breaks it. *)
Dropped(s) == MayLeave /\ OnDisCon(s) /\ UNCHANGED clientVars

Server(s) == Room /\ Recv(s) /\ UNCHANGED clientVars

Next ==
  \/ \E u \in User :
       \/ PressConnect(u) \/ PressAutomatch(u) \/ PressCancel(u) \/ PressReady(u)
       \/ PressDisconnect(u) \/ ButtonAssigns(u)
       \/ RecvData(u) \/ ClientClose(u) \/ KeepsAlive(u)
       \/ \E cmd \in {"GameShot", "SynchPos"} : Plays(u, cmd)
  \/ \E s \in Session : Server(s) \/ Dropped(s)
  \/ \E idle \in SUBSET Silent : Process(idle) /\ UNCHANGED clientVars

Spec == Init /\ [][Next]_vars

-----------------------------------------------------------------------------
(* The messages of the server are read, and so are those of the clients;   *)
(* a button that was pressed finishes.  Nobody has to press one.           *)
Fairness ==
  /\ \A s \in Session : WF_vars(Server(s))
  /\ \A u \in User : WF_vars(RecvData(u)) /\ WF_vars(ButtonAssigns(u))
                     /\ WF_vars(ClientClose(u))

FairSpec == Spec /\ Fairness

-----------------------------------------------------------------------------
(* The type of the client's variables. *)
ClientTypeOK ==
  /\ m_state \in [User -> State]
  /\ sess \in [User -> Session \cup {None}]
  /\ gui \in [User -> State \cup {Idle}]
  /\ drives \in [User -> BOOLEAN]
  /\ started \in [User -> BOOLEAN]

Has(chan, s, cmd) == \E k \in 1..Len(chan[s]) : chan[s][k].cmd = cmd

(* Nobody is matched with itself.  The server does not test it: a player   *)
(* that asked twice would be.  The client asks again only after it has     *)
(* cancelled or left, and the channel keeps the order.                     *)
NobodyPlaysAlone == \A k \in 1..Len(m_games) : m_games[k][1] # m_games[k][2]

(* A client that shows "waiting to match" is waiting for something: its    *)
(* request is on the way or in the queue, or the answer is on the way.     *)
(* When messages arrive in the middle of a button, "waiting" may have been *)
(* written over an answer that was read: the server has its game then, and *)
(* in the middle of a cancellation nothing is said.                        *)
WaitingIsQueued ==
  \A u \in User :
    m_state[u] = "WaitingToMatch" /\ gui[u] = Idle /\ sess[u] \in m_players =>
      LET s == sess[u]
      IN  \/ Contains(m_queue, s) \/ Has(toServer, s, "AutoMatch")
          \/ Has(toClient, s, "GameInit")
          \/ GuiRace /\ m_game[s] # None

(* The opponent of my opponent is me: recv() passes positions and shots to *)
(* m_other and waits for the readiness of m_other, each for itself.        *)
OpponentsMutual ==
  \A s \in Session : m_other[s] # None => m_other[m_other[s]] = s

(* A shot or position in a client's inbox was made by its opponent. *)
OnlyOpponentHeard ==
  \A s \in Session : \A k \in 1..Len(toClient[s]) :
    toClient[s][k].cmd \in {"GameShot", "SynchPos"} => toClient[s][k].from = m_other[s]

(* A client in a running game has pressed "Ready", and so has its opponent. *)
RunningMeansBothReady ==
  \A u \in User :
    m_state[u] = "GameRunning" /\ Online(u) =>
      m_ready[sess[u]] /\ m_ready[m_other[sess[u]]]

(* When two opponents play, the ball of one is driven and that of the      *)
(* other follows: neither both nor none send positions.                    *)
OneClientDrives ==
  \A u, v \in User :
    /\ m_state[u] = "GameRunning" /\ m_state[v] = "GameRunning"
    /\ Online(u) /\ Online(v) /\ m_other[sess[u]] = sess[v]
    => drives[u] # drives[v]

(* What the client shows of a running game is what the server knows: two   *)
(* opponents that are ready, of whom one drives the ball.                  *)
RunningGamesAgree == RunningMeansBothReady /\ OneClientDrives

(* Of two users who wait for a match, at least one stops waiting: each is  *)
(* given an opponent, though it may be one that has left.                  *)
NotBothWaitForever ==
  \A u, v \in User : u # v =>
    (m_state[u] = "WaitingToMatch" /\ m_state[v] = "WaitingToMatch")
      ~> ~(m_state[u] = "WaitingToMatch" /\ m_state[v] = "WaitingToMatch")

(* When both opponents have pressed "Ready" the game starts for both,      *)
(* unless one of them leaves.                                              *)
Ready(u) == m_state[u] \in {"WaitingToStart", "GameRunning"} /\ Online(u)
BothReadyStart ==
  \A u, v \in User :
    (Ready(u) /\ Ready(v) /\ m_other[sess[u]] = sess[v])
      ~> ((m_state[u] = "GameRunning" /\ m_state[v] = "GameRunning")
            \/ m_state[u] = "Disconnected" \/ m_state[v] = "Disconnected")
=============================================================================
