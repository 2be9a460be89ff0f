-------------------------------- MODULE Net --------------------------------
(***************************************************************************)
(* The network's components together: the service on select(), packets and *)
(* keep-alive of the game's protocol, and the classes of TcpCSFramework    *)
(* and Network.  In these models they share no state, and every property   *)
(* below is about one of them: in a behaviour one component moves, chosen  *)
(* at the start, and the others stay as they were made.  Where a property  *)
(* depends on whether calls and callbacks overlap, the component is there  *)
(* twice, and the second has "threads" or "again" in its name.             *)
(***************************************************************************)
EXTENDS Naturals, Sequences

CONSTANTS
  Case,                                             \* the components that move
  Client, MaxClient, Wrap, MaxSend,                 \* TcpSvr, and sends of TcpCli
  MaxSock, MaxSockThreads,                          \* TcpCli
  MaxSeq, MaxConnect, MaxWrite, MaxRead,            \* TcpSession
  MaxPeerNum, PeerBufSize, MaxConn, RecvRoom, MaxIn, MaxOut, FdSetSize,  \* SelectService
  DEFAULT_CMD_PACKET_SIZE, MAX_CMD_PACKET_SIZE, Field, Foreign, MaxFields,   \* CmdPacket
  Word, Interval, Timeout, Delay, Offset, MaxTime,                 \* KeepAlive
  OffsetThreads, MaxTimeThreads                     \* and in its threads

VARIABLES
  moves,
  isRun, svrSock, table, count, accepting, acceptor, svr_sock, svr_remote, recv,
  svr_sends, worker, closer, events, fault,
  session, isConnected, cli_state, cli_sock, cli_remote, posted, cli_sends,
  connecting, receiving, main, overlapped, mixed, dead,
  m_state, socket, m_seq, m_writeBuf, m_readBuff, lock, at, mainAt, connects,
  remote, silence, lastSent, told, ended, crashed,
  sel_socket, serial, sel_read_buf, write_buf, write_buf_backup, wsa_send, m_serial,
  net, inbox, rest, m_online_peers, m_read_set, m_write_set, pc, pos, current, down,
  players, accepted, wired, eaten,
  m_pData, m_nLen, m_nReadOffset, m_nWriteOffset, m_pReadData, mode, fields,
  back, half,
  now, offset, m_lstSendTime, m_lstRecvTime, m_rtt, link, processed, read,
  sentAt, trip

svr == <<isRun, svrSock, table, count, accepting, acceptor, svr_sock, svr_remote,
         recv, svr_sends, worker, closer, events, fault>>
cli == <<session, isConnected, cli_state, cli_sock, cli_remote, posted, cli_sends,
         connecting, receiving, main, overlapped, mixed, dead>>
threads == <<m_state, socket, m_seq, m_writeBuf, m_readBuff, lock, at, mainAt,
             connects, remote, silence, lastSent, told, ended, crashed>>
select == <<sel_socket, serial, sel_read_buf, write_buf, write_buf_backup, wsa_send,
            m_serial, net, inbox, rest, m_online_peers, m_read_set, m_write_set, pc,
            pos, current, down, players, accepted, wired, eaten>>
packet == <<m_pData, m_nLen, m_nReadOffset, m_nWriteOffset, m_pReadData, mode,
            fields, back, half>>
alive == <<now, offset, m_lstSendTime, m_lstRecvTime, m_rtt, link, processed,
           read, sentAt, trip>>
vars == <<moves, svr, cli, threads, select, packet, alive>>

-----------------------------------------------------------------------------
Svr == INSTANCE TcpSvr
  WITH Serial <- TRUE, Closing <- TRUE, Stopping <- TRUE,
       sock <- svr_sock, remote <- svr_remote, sends <- svr_sends
(* The application leaves its sessions alone. *)
SvrThreads == INSTANCE TcpSvr
  WITH Serial <- FALSE, Closing <- FALSE, Stopping <- FALSE,
       sock <- svr_sock, remote <- svr_remote, sends <- svr_sends

Cli == INSTANCE TcpCli
  WITH Serial <- TRUE, Patient <- FALSE,
       m_state <- cli_state, sock <- cli_sock, remote <- cli_remote,
       sends <- cli_sends
CliThreads == INSTANCE TcpCli
  WITH MaxSock <- MaxSockThreads, Serial <- FALSE, Patient <- TRUE,
       m_state <- cli_state, sock <- cli_sock, remote <- cli_remote,
       sends <- cli_sends

(* The application connects once. *)
Threads == INSTANCE TcpSession WITH MaxConnect <- 1, Serial <- FALSE
ThreadsAgain == INSTANCE TcpSession WITH Serial <- TRUE

Select == INSTANCE SelectService WITH socket <- sel_socket, read_buf <- sel_read_buf

Packet == INSTANCE CmdPacket

Alive == INSTANCE KeepAlive WITH Serial <- TRUE
AliveThreads == INSTANCE KeepAlive WITH Offset <- OffsetThreads, MaxTime <- MaxTimeThreads, Serial <- FALSE

NetAssumption ==
  /\ Svr!TcpSvrAssumption /\ SvrThreads!TcpSvrAssumption
  /\ Cli!TcpCliAssumption /\ CliThreads!TcpCliAssumption
  /\ Threads!TcpSessionAssumption /\ ThreadsAgain!TcpSessionAssumption
  /\ Select!SelectAssumption /\ Select!PeerAssumption
  /\ Packet!CmdPacketAssumption
  /\ Alive!KeepAliveAssumption /\ AliveThreads!KeepAliveAssumption

ASSUME NetAssumed == NetAssumption

-----------------------------------------------------------------------------
Init ==
  /\ moves \in Case
  /\ Svr!Init
  /\ IF moves = "cli_threads" THEN CliThreads!Init ELSE Cli!Init
  /\ IF moves = "threads_again" THEN ThreadsAgain!Init ELSE Threads!Init
  /\ Select!Init /\ Packet!Init
  /\ IF moves = "alive_threads" THEN AliveThreads!Init ELSE Alive!Init
  /\ moves \notin {"alive", "alive_threads"} =>
       offset = [s \in Alive!Side |-> CHOOSE o \in Offset : TRUE]

SvrMoves ==
  /\ \/ moves = "svr" /\ Svr!Next
     \/ moves = "svr_threads" /\ SvrThreads!Next
  /\ UNCHANGED <<moves, cli, threads, select, packet, alive>>

CliMoves ==
  /\ \/ moves = "cli" /\ Cli!Next
     \/ moves = "cli_threads" /\ CliThreads!Next
  /\ UNCHANGED <<moves, svr, threads, select, packet, alive>>

ThreadsMove ==
  /\ \/ moves = "threads" /\ Threads!Next
     \/ moves = "threads_again" /\ ThreadsAgain!Next
  /\ UNCHANGED <<moves, svr, cli, select, packet, alive>>

SelectMoves ==
  /\ moves = "select" /\ Select!Next
  /\ UNCHANGED <<moves, svr, cli, threads, packet, alive>>

PacketMoves ==
  /\ moves = "packet" /\ Packet!Next
  /\ UNCHANGED <<moves, svr, cli, threads, select, alive>>

AliveMoves ==
  /\ \/ moves = "alive" /\ Alive!Next
     \/ moves = "alive_threads" /\ AliveThreads!Next
  /\ UNCHANGED <<moves, svr, cli, threads, select, packet>>

Next == SvrMoves \/ CliMoves \/ ThreadsMove \/ SelectMoves \/ PacketMoves \/ AliveMoves

Spec == Init /\ [][Next]_vars

-----------------------------------------------------------------------------
(* TcpSvr, when callbacks do not overlap: at rest the counter is the size  *)
(* of the table, which never exceeds the limit, ClientConn comes before    *)
(* ClientClose, and no callback dies but that of a send whose session was  *)
(* closed, or ended by its other end, while the send was pending.  On any  *)
(* threads: every session has somebody who listens to it, and a socket     *)
(* without a session was refused.                                          *)
SessionTableRight ==
  /\ moves = "svr" =>
       /\ Svr!CountIsTheTable /\ Svr!AtMostMaxClient
       /\ Svr!ConnBeforeClose /\ Svr!CallbacksSurvive
  /\ moves = "svr_threads" =>
       /\ SvrThreads!TypeOK
       /\ SvrThreads!SessionsAreHeard /\ SvrThreads!OrphansWereRefused

(* TcpCli, without overlap: no callback dies of its own doing, but that of *)
(* a send whose socket was closed, or its connection ended, while the send *)
(* was pending; bytes go to the session of their connection, which has one *)
(* receive while it is online, and a socket that is left open is one whose *)
(* server has gone.  On any threads: who is online has a session to send   *)
(* with.                                                                   *)
ClientSessionRight ==
  /\ moves = "cli" =>
       /\ Cli!TypeOK /\ Cli!CallbacksSurvive /\ Cli!OwnSession
       /\ Cli!OneReceive /\ Cli!LeakedAreEnded
  /\ moves = "cli_threads" => CliThreads!OnlineHasSession

(* TcpSession: packets are numbered one after the other, whoever sends;    *)
(* the socket of a first connection is not used after Reset; only the end  *)
(* after a protocol error is told to nobody, and nothing is told after an  *)
(* end; when calls do not overlap, a new connection starts empty.          *)
SessionThreadsAgree ==
  /\ [](moves = "threads" =>
         /\ Threads!TypeOK /\ Threads!SeqInOrder
         /\ Threads!SocketIsThere /\ Threads!UntoldIsProtocolError)
  /\ [][moves = "threads" => Threads!ToldOnce]_threads
  /\ [](moves = "threads_again" => ThreadsAgain!FreshStart)

(* SelectIOService: in every state, also inside the callbacks, the list of *)
(* connections, the slots in use and the application's table are the same, *)
(* and every byte sent or received on a connection is in its buffer or     *)
(* where it should go, whoever used the slot before.                       *)
SelectListRight ==
  Select!TypeOK /\ Select!OnlineIsTheTable /\ Select!BytesConserved

(* CmdPacket: nothing is read or written outside of its memory, and what   *)
(* was written is read back field by field, each as it was but for certain *)
(* numbers of 64 bits.                                                     *)
PacketsWhole == Packet!TypeOK /\ Packet!Inside /\ Packet!ReadsBack

(* GHS_Player::process, Client.FixedUpdate: a side that lives never looks  *)
(* dead to the other, also when the clocks wrap; m_rtt is the time between *)
(* a keep-alive and its answer; who sends a keep-alive has been quiet.     *)
KeepAliveTruthful ==
  /\ [](moves = "alive" => Alive!TypeOK /\ Alive!NeverDead /\ Alive!RttIsTrip)
  /\ [](moves = "alive_threads" => AliveThreads!NeverDead /\ AliveThreads!RttIsTrip)
  /\ [][moves = "alive" => Alive!SentAfterQuiet]_alive
=============================================================================
