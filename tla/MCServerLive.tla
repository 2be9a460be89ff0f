---------------------------- MODULE MCServerLive ----------------------------
(***************************************************************************)
(* What must happen in the end in the game server, for TLC: the lobby with *)
(* its clients, and the I/O service under it, with the fairness of Match   *)
(* and of IocpService.  They share no state and every property is about    *)
(* one of them: a behaviour is one of the lobby or one of the service,     *)
(* chosen at the start.                                                    *)
(*                                                                         *)
(* Of the lobby there are two cases: users who leave, and users who cancel *)
(* and play.  No message arrives in the middle of a button: GuiRace loses  *)
(* states, and with it what is waited for.                                 *)
(***************************************************************************)
EXTENDS TLC

CONSTANTS User, Case

VARIABLES
  case,
  nextSession, m_players, m_queue, m_games, m_game, m_other, m_ready, m_bSer,
  toServer, toClient, m_state, sess, gui, drives, started,
  socket, serial, read_buf, write_buf, write_buf_backup, wsa_send, m_serial,
  net, key, recvs, sends, rest, cq, pc, down, players, accepted, wired, eaten, leaked

lobby == <<nextSession, m_players, m_queue, m_games, m_game, m_other, m_ready, m_bSer,
           toServer, toClient, m_state, sess, gui, drives, started>>
service == <<socket, serial, read_buf, write_buf, write_buf_backup, wsa_send, m_serial,
             net, key, recvs, sends, rest, cq, pc, down, players, accepted, wired, eaten,
             leaked>>
vars == <<case, lobby, service>>

Leave == INSTANCE Match
  WITH MayCancel <- FALSE, MayLeave <- TRUE, GuiRace <- FALSE, MaxChan <- 2, MaxUnread <- 1,
       MaxSession <- 3, MaxGames <- 2,
       ClientCmd <- {"AutoMatch", "UAutoMatch", "GameReady"}
Cancel == INSTANCE Match
  WITH MayCancel <- TRUE, MayLeave <- FALSE, GuiRace <- FALSE, MaxChan <- 2, MaxUnread <- 1,
       MaxSession <- 3, MaxGames <- 2,
       ClientCmd <- {"AutoMatch", "UAutoMatch", "GameReady", "GameShot"}
Service == INSTANCE IocpService
  WITH MaxPeerNum <- 1, PeerBufSize <- 1, MaxConn <- 2, RecvRoom <- 2, MaxIn <- 1,
       MaxOut <- 1, ReuseRace <- FALSE, HardErrors <- FALSE

ASSUME Leave!MatchAssumption /\ Cancel!MatchAssumption /\ Service!ServiceAssumption

Init == case \in Case /\ Leave!Init /\ Service!Init

LeaveMoves   == case = "leave" /\ Leave!Next /\ UNCHANGED <<case, service>>
CancelMoves  == case = "cancel" /\ Cancel!Next /\ UNCHANGED <<case, service>>
ServiceMoves == case = "service" /\ Service!Next /\ UNCHANGED <<case, lobby>>

Next == LeaveMoves \/ CancelMoves \/ ServiceMoves

(* The fairness of Match and that of IocpService. *)
FairSpec ==
  /\ Init /\ [][Next]_vars
  /\ \A s \in Leave!Session :
       /\ WF_lobby(case = "leave" /\ Leave!Server(s))
       /\ WF_lobby(case = "cancel" /\ Cancel!Server(s))
  /\ \A u \in User :
       WF_lobby(case # "service" /\ (Leave!RecvData(u) \/ Leave!ClientClose(u)))
  /\ WF_service(case = "service" /\ Service!IoThread)
  /\ \A c \in Service!Conn :
       /\ WF_service(case = "service" /\ Service!KernelSends(c, 1))
       /\ WF_service(case = "service" /\ Service!KernelEndOfStream(c))
       /\ WF_service(case = "service"
                       /\ \E res \in Service!Failure : Service!KernelCancelsRecv(c, res))

-----------------------------------------------------------------------------
(* Of two users who wait for a match, at least one stops waiting. *)
NotBothWaitForever == case # "service" => Leave!NotBothWaitForever

(* When both opponents have pressed "Ready" the game starts for both,      *)
(* unless one of them leaves.                                              *)
BothReadyStart == case # "service" => Leave!BothReadyStart

(* What send() has taken gets sent, unless the connection ends; and when   *)
(* the remote side ends the connection, the application is told.           *)
PeersServed ==
  case = "service" => Service!SentOrClosed /\ Service!RemoteEndNoticed
=============================================================================
