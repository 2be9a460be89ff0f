------------------------------- MODULE MCLive -------------------------------
(***************************************************************************)
(* What must happen in the end, for TLC: the components of the network and *)
(* of libbase with their fairness.  As in MCNet and LibBase they share     *)
(* no state and every property is about one of them: in a behaviour one    *)
(* component moves, chosen at the start, and the others stay as they were  *)
(* made.                                                                   *)
(***************************************************************************)
EXTENDS Naturals, Sequences

CONSTANTS Case,         \* the components that move
          c1, c2,       \* clients of TcpSvr
          t1, t2,       \* threads
          m1, none

VARIABLES
  moves,
  srv_wire, read_buf, srv_last, srv_parity,
  cli_wire, RecvBuffer, RecvPacket, cli_raised, deaf, cli_last, cli_parity,
  isRun, svrSock, table, count, accepting, acceptor, svr_sock, svr_remote, recv,
  svr_sends, svr_worker, closer, events, fault,
  session, isConnected, cli_state, cli_sock, cli_remote, posted, cli_sends,
  connecting, receiving, main, overlapped, mixed, dead,
  tcp_state, socket, m_seq, m_writeBuf, m_readBuff, tcp_lock, at, mainAt, connects,
  remote, silence, lastSent, told, tcp_ended, tcp_crashed,
  msg_queue, semaphore, mutex, queue_pc, data, prev_count, appends, last, parity,
  m_thread_handle, m_thread_num, m_stop_flag, pool_worker, closed, pool_pc, pool_i,
  opens, gone, wild,
  func, stamp, interval, now, last_time_stamp, time_stamp, timer_i, calling,
  live, timer_count, crashed,
  m_log_level, m_log_line, m_err_log_file, m_all_log_file, files, lock, log_pc,
  line, day, calls,
  sel_socket, serial, sel_read_buf, write_buf, write_buf_backup, wsa_send, m_serial,
  net, inbox, rest, m_online_peers, m_read_set, m_write_set, sel_pc, pos, current, down,
  players, accepted, wired, eaten

server == <<srv_wire, read_buf, srv_last, srv_parity>>
client == <<cli_wire, RecvBuffer, RecvPacket, cli_raised, deaf, cli_last, cli_parity>>
svr == <<isRun, svrSock, table, count, accepting, acceptor, svr_sock, svr_remote,
         recv, svr_sends, svr_worker, closer, events, fault>>
cli == <<session, isConnected, cli_state, cli_sock, cli_remote, posted, cli_sends,
         connecting, receiving, main, overlapped, mixed, dead>>
tcp == <<tcp_state, socket, m_seq, m_writeBuf, m_readBuff, tcp_lock, at, mainAt,
         connects, remote, silence, lastSent, told, tcp_ended, tcp_crashed>>
queue == <<msg_queue, semaphore, mutex, queue_pc, data, prev_count, appends, last,
           parity>>
pool == <<m_thread_handle, m_thread_num, m_stop_flag, pool_worker, closed, pool_pc,
          pool_i, opens, gone, wild>>
timers == <<func, stamp, interval, now, last_time_stamp, time_stamp, timer_i,
            calling, live, timer_count, crashed>>
logs == <<m_log_level, m_log_line, m_err_log_file, m_all_log_file, files, lock,
          log_pc, line, day, calls>>
select == <<sel_socket, serial, sel_read_buf, write_buf, write_buf_backup, wsa_send,
            m_serial, net, inbox, rest, m_online_peers, m_read_set, m_write_set, sel_pc,
            pos, current, down, players, accepted, wired, eaten>>
vars == <<moves, server, client, svr, cli, tcp, queue, pool, timers, logs, select>>

-----------------------------------------------------------------------------
(* The messages are those of MCNet. *)
GameServer == INSTANCE ServerFraming
  WITH Base <- 2, Message <- {<<1>>, <<0, 1>>}, ReadSize <- 5, MaxStream <- 7,
       KeepAlive <- <<1>>, MayMerge <- TRUE,
       wire <- srv_wire, last <- srv_last, parity <- srv_parity
GameClient == INSTANCE ClientFraming
  WITH Base <- 3, Message <- {<<0, 1>>, <<0, 2, 0, 1>>}, ReadSize <- 8,
       MaxStream <- 12, KeepAlive <- <<0, 1>>, KnownCmd <- {1, 2},
       ReadsBody <- {1, 2}, WholeFirst <- TRUE, wire <- cli_wire,
       raised <- cli_raised, last <- cli_last, parity <- cli_parity
Svr == INSTANCE TcpSvr
  WITH Client <- {c1, c2}, MaxClient <- 1, Wrap <- 65536, Serial <- FALSE,
       Closing <- FALSE, Stopping <- FALSE, MaxSend <- 1, sock <- svr_sock,
       remote <- svr_remote, sends <- svr_sends, worker <- svr_worker
(* Either callbacks and calls overlap, or the client sends. *)
Cli == INSTANCE TcpCli
  WITH MaxSock <- 2, MaxSend <- 0, Serial <- FALSE, Patient <- TRUE,
       m_state <- cli_state, sock <- cli_sock, remote <- cli_remote,
       sends <- cli_sends
CliSends == INSTANCE TcpCli
  WITH MaxSock <- 2, MaxSend <- 1, Serial <- TRUE, Patient <- TRUE,
       m_state <- cli_state, sock <- cli_sock, remote <- cli_remote,
       sends <- cli_sends
Tcp == INSTANCE TcpSession
  WITH MaxSeq <- 2, MaxConnect <- 1, MaxWrite <- 1, MaxRead <- 2, Serial <- FALSE,
       m_state <- tcp_state, lock <- tcp_lock, ended <- tcp_ended,
       crashed <- tcp_crashed
Queue == INSTANCE MsgQueue
  WITH Thread <- {t1, t2}, Message <- {m1}, NoMessage <- none,
       MaxSize <- 2, MaxAppends <- 3, m_queue <- msg_queue, pc <- queue_pc
Pool == INSTANCE ThreadPool
  WITH MaxThreadNum <- 4, Word <- 100, MaxThread <- 4, MayFail <- TRUE,
       MaxOpens <- 2, Explicit <- TRUE, worker <- pool_worker, pc <- pool_pc,
       i <- pool_i
Timers == INSTANCE Timer
  WITH Slots <- 2, Second <- 2, Word <- 16, Interval <- {1},
       Reentrant <- TRUE, MaxTime <- 6, MaxTimers <- 3, i <- timer_i,
       count <- timer_count
Logs == INSTANCE Log
  WITH Thread <- {t1, t2}, MaxLogLine <- 2, MayFail <- TRUE,
       MaxCalls <- 2, MaxDay <- 2, pc <- log_pc
Select == INSTANCE SelectService
  WITH MaxPeerNum <- 2, PeerBufSize <- 1, MaxConn <- 2, RecvRoom <- 1, MaxIn <- 0,
       MaxOut <- 1, FdSetSize <- 3, socket <- sel_socket, read_buf <- sel_read_buf,
       pc <- sel_pc

ASSUME
  /\ GameServer!FramingAssumption /\ GameServer!ServerFramingAssumption
  /\ GameClient!FramingAssumption /\ GameClient!ClientFramingAssumption
  /\ Svr!TcpSvrAssumption /\ Tcp!TcpSessionAssumption
  /\ Cli!TcpCliAssumption /\ CliSends!TcpCliAssumption
  /\ Queue!MsgQueueAssumption /\ Pool!ThreadPoolAssumption
  /\ Timers!TimerAssumption /\ Logs!LogAssumption
  /\ Select!SelectAssumption

Init ==
  /\ moves \in Case
  /\ GameServer!Init /\ GameClient!Init /\ Svr!Init /\ Tcp!Init
  /\ IF moves = "cli_sends" THEN CliSends!Init ELSE Cli!Init
  /\ Queue!Init /\ Pool!Init /\ Timers!Init /\ Logs!Init /\ Select!Init

ServerMove ==
  /\ moves = "server" /\ GameServer!Next
  /\ UNCHANGED <<moves, client, svr, cli, tcp, queue, pool, timers, logs, select>>

ClientMove ==
  /\ moves = "client" /\ GameClient!Next
  /\ UNCHANGED <<moves, server, svr, cli, tcp, queue, pool, timers, logs, select>>

SvrMove ==
  /\ moves = "svr" /\ Svr!Next
  /\ UNCHANGED <<moves, server, client, cli, tcp, queue, pool, timers, logs, select>>

CliMove ==
  /\ \/ moves = "cli" /\ Cli!Next
     \/ moves = "cli_sends" /\ CliSends!Next
  /\ UNCHANGED <<moves, server, client, svr, tcp, queue, pool, timers, logs, select>>

TcpMove ==
  /\ moves = "tcp" /\ Tcp!Next
  /\ UNCHANGED <<moves, server, client, svr, cli, queue, pool, timers, logs, select>>

QueueMove ==
  /\ moves = "queue" /\ Queue!Next
  /\ UNCHANGED <<moves, server, client, svr, cli, tcp, pool, timers, logs, select>>

PoolMove ==
  /\ moves = "pool" /\ Pool!Next
  /\ UNCHANGED <<moves, server, client, svr, cli, tcp, queue, timers, logs, select>>

TimersMove ==
  /\ moves = "timers" /\ Timers!Next
  /\ UNCHANGED <<moves, server, client, svr, cli, tcp, queue, pool, logs, select>>

LogsMove ==
  /\ moves = "logs" /\ Logs!Next
  /\ UNCHANGED <<moves, server, client, svr, cli, tcp, queue, pool, timers, select>>

SelectMove ==
  /\ moves = "select" /\ Select!Next
  /\ UNCHANGED <<moves, server, client, svr, cli, tcp, queue, pool, timers, logs>>

Next ==
  \/ ServerMove \/ ClientMove \/ SvrMove \/ CliMove \/ TcpMove
  \/ QueueMove \/ PoolMove \/ TimersMove \/ LogsMove \/ SelectMove

(* The fairness of the components' own specifications. *)
FairSpec ==
  /\ Init /\ [][Next]_vars
  /\ WF_server(moves = "server" /\ GameServer!Receive)
  /\ WF_server(moves = "server" /\ GameServer!Send(<<1>>))
  /\ WF_client(moves = "client" /\ GameClient!Receive)
  /\ WF_client(moves = "client" /\ GameClient!Send(<<0, 1>>))
  /\ WF_svr(moves = "svr" /\ Svr!Accept)
  /\ \A c \in {c1, c2} :
       /\ WF_svr(moves = "svr" /\ Svr!Receive(c))
       /\ WF_svr(moves = "svr" /\ Svr!SendDataEnd(c))
  /\ WF_cli(moves = "cli" /\ Cli!Close)
  /\ WF_cli(moves = "cli_sends" /\ CliSends!Close)
  /\ \A s \in {1, 2} :
       /\ WF_cli(moves = "cli" /\ Cli!Connected(s))
       /\ WF_cli(moves = "cli" /\ Cli!RecvData(s))
       /\ WF_cli(moves = "cli_sends" /\ CliSends!Connected(s))
       /\ WF_cli(moves = "cli_sends" /\ CliSends!RecvData(s))
       /\ WF_cli(moves = "cli_sends" /\ CliSends!SendDataEnd(s))
  /\ WF_tcp(moves = "tcp" /\ Tcp!SendPush)
  /\ WF_tcp(moves = "tcp" /\ Tcp!TimePasses)
  /\ SF_tcp(moves = "tcp" /\ Tcp!ListenThread(1))
  /\ \A t \in {t1, t2} :
       /\ WF_queue(moves = "queue" /\ Queue!Runs(t))
       /\ WF_queue(moves = "queue" /\ Queue!CallRemove(t))
  /\ WF_pool(moves = "pool" /\ Pool!Owner)
  /\ \A w \in 1..4 : WF_pool(moves = "pool" /\ (Pool!Test(w) \/ Pool!Run(w)))
  /\ WF_timers(moves = "timers" /\ Timers!Tick)
  /\ WF_timers(moves = "timers" /\ Timers!Loop)
  /\ \A t \in {t1, t2} :
       /\ WF_logs(moves = "logs" /\ Logs!Writes(t))
       /\ WF_logs(moves = "logs" /\ Logs!Enter(t))
  /\ WF_select(moves = "select" /\ Select!Service)

-----------------------------------------------------------------------------
(* The server and the client take one message out of their buffer for each *)
(* notification; what is left behind is handled in the end, because        *)
(* keep-alives go on arriving.                                             *)
StreamsMakeUp ==
  /\ moves = "server" => GameServer!NothingRots
  /\ moves = "client" => GameClient!NothingRots

(* TcpSvr: who waits is let in or told that the server is full, and the    *)
(* session of a client that has gone is removed and closed.  TcpCli: the   *)
(* end of the connection takes the client offline.  In both, the callback  *)
(* of a send may die first.  TcpSession: what waits in the write buffer is *)
(* sent or the session ends, and it ends when the server has closed.       *)
(* SelectIOService: who waits is let in, what was accepted is sent or the  *)
(* connection ends, and its end is noticed.                                *)
ConnectionsServed ==
  /\ moves = "svr" => Svr!BacklogServed /\ Svr!GoneIsClosed
  /\ moves = "cli" => Cli!EndNoticed
  /\ moves = "cli_sends" => CliSends!EndNoticed
  /\ moves = "tcp" => Tcp!PacketsLeave /\ Tcp!EndNoticed
  /\ moves = "select" => Select!Served

(* MsgQueue: threads that poll it empty it when nothing is appended.       *)
(* Thread: close() comes to its end.  Timer: a timer whose time has come   *)
(* is called, or it goes.  Log: every call comes back, also when another   *)
(* has thrown in the lock.                                                 *)
CallsEnd ==
  /\ moves = "queue" => Queue!GetsEmpty
  /\ moves = "pool" => Pool!CloseTerminates
  /\ moves = "timers" => Timers!LateIsCalled
  /\ moves = "logs" => Logs!CallsReturn
=============================================================================
