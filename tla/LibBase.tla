------------------------------ MODULE LibBase ------------------------------
(***************************************************************************)
(* The components of libbase together.  They share no state, and every     *)
(* property below is about one of them: in a behaviour one component       *)
(* moves, chosen at the start, and the others stay as they were made.  So  *)
(* one run checks all of them, and does not multiply their states.         *)
(***************************************************************************)
EXTENDS Naturals, FiniteSets

CONSTANTS
  Case,                                         \* the components that move
  Thread, Message, NoMessage, MaxSize, MaxAppends,                  \* MsgQueue
  MaxNode,                                      \* FreeList, with the same threads
  MaxThreadNum, Word, MaxThread, MaxOpens,      \* ThreadPool; Word: Timer, too
  MayFail,                                      \* ThreadPool and Log
  LogThread, MaxLogLine, MaxCalls, MaxDay,      \* Log
  Slots, Second, Interval, MaxTime, MaxTimers,  \* Timer
  KEY, VALUE, MaxTreeNode,                      \* SearchTree
  Key, VAR_SIZE                                 \* HashMap

VARIABLES
  moves,
  m_queue, semaphore, mutex, queue_pc, data, prev_count, appends, last, parity,
  free_list_, next_node_, nodes, deleted, lock_, list_pc, p, owner, ended,
  m_thread_handle, m_thread_num, m_stop_flag, worker, closed, pool_pc, pool_i,
  opens, gone, wild,
  func, stamp, interval, now, last_time_stamp, time_stamp, timer_i, calling,
  live, count, crashed,
  m_log_level, m_log_line, m_err_log_file, m_all_log_file, files, lock, log_pc,
  line, day, calls,
  m_pRoot, tree_key, val, left, right, parent,
  generateHashValue, m_table, map_key, hash_next, next, m_node_head,
  m_node_index, asked, outside

queue == <<m_queue, semaphore, mutex, queue_pc, data, prev_count, appends, last, parity>>
list == <<free_list_, next_node_, nodes, deleted, lock_, list_pc, p, owner, ended>>
pool == <<m_thread_handle, m_thread_num, m_stop_flag, worker, closed, pool_pc,
          pool_i, opens, gone, wild>>
timers == <<func, stamp, interval, now, last_time_stamp, time_stamp, timer_i,
            calling, live, count, crashed>>
logs == <<m_log_level, m_log_line, m_err_log_file, m_all_log_file, files, lock,
          log_pc, line, day, calls>>
tree == <<m_pRoot, tree_key, val, left, right, parent>>
map == <<generateHashValue, m_table, map_key, hash_next, next, m_node_head,
         m_node_index, asked, outside>>
vars == <<moves, queue, list, pool, timers, logs, tree, map>>

-----------------------------------------------------------------------------
Queue == INSTANCE MsgQueue WITH pc <- queue_pc
List == INSTANCE FreeList WITH pc <- list_pc
(* The owner leaves close() to the destructor. *)
Pool == INSTANCE ThreadPool WITH Explicit <- FALSE, pc <- pool_pc, i <- pool_i
(* The callbacks leave the timers alone. *)
Timers == INSTANCE Timer WITH Reentrant <- FALSE, i <- timer_i
Logs == INSTANCE Log WITH Thread <- LogThread, pc <- log_pc
Tree == INSTANCE SearchTree WITH MaxNode <- MaxTreeNode, key <- tree_key
(* assert() is compiled out. *)
Map == INSTANCE HashMap WITH Checked <- FALSE, key <- map_key

LibBaseAssumption ==
  /\ Queue!MsgQueueAssumption /\ List!FreeListAssumption /\ Pool!ThreadPoolAssumption
  /\ Timers!TimerAssumption /\ Logs!LogAssumption /\ Tree!SearchTreeAssumption
  /\ Map!HashMapAssumption

ASSUME LibBaseAssumed == LibBaseAssumption

Init ==
  /\ moves \in Case
  /\ Queue!Init /\ List!Init /\ Pool!Init /\ Timers!Init /\ Logs!Init /\ Tree!Init
  /\ Map!Init /\ (moves # "map" => \A k \in Key : generateHashValue[k] = 0)

QueueMoves ==
  /\ moves = "queue" /\ Queue!Next
  /\ UNCHANGED <<moves, list, pool, timers, logs, tree, map>>

ListMoves ==
  /\ moves = "list" /\ List!Next
  /\ UNCHANGED <<moves, queue, pool, timers, logs, tree, map>>

PoolMoves ==
  /\ moves = "pool" /\ Pool!Next
  /\ UNCHANGED <<moves, queue, list, timers, logs, tree, map>>

TimersMove ==
  /\ moves = "timers" /\ Timers!Next
  /\ UNCHANGED <<moves, queue, list, pool, logs, tree, map>>

LogsMove ==
  /\ moves = "logs" /\ Logs!Next
  /\ UNCHANGED <<moves, queue, list, pool, timers, tree, map>>

TreeMoves ==
  /\ moves = "tree" /\ Tree!Next
  /\ UNCHANGED <<moves, queue, list, pool, timers, logs, map>>

MapMoves ==
  /\ moves = "map" /\ Map!Next
  /\ UNCHANGED <<moves, queue, list, pool, timers, logs, tree>>

Next ==
  QueueMoves \/ ListMoves \/ PoolMoves \/ TimersMove \/ LogsMove \/ TreeMoves \/ MapMoves

Spec == Init /\ [][Next]_vars

-----------------------------------------------------------------------------
(* MsgQueue: at most one thread is between lock and unlock, and it is the  *)
(* owner of the mutex, also after a full queue has thrown; a message is    *)
(* written behind the last, and none is read that was not written.         *)
QueueInv == Queue!QueueInv

(* MsgQueue implements a stream: what is removed is what was appended, in  *)
(* that order and each message once.                                       *)
QueueStreamSpec == Queue!QueueStreamSpec

(* FreeList: no element is in the hands of two threads, and until the      *)
(* destructor runs every node is used, free or on its way.                 *)
FreeListInv == List!FreeListInv

(* Thread: when the owner opens once and every start succeeds, all threads *)
(* have ended past the wait of close(), and every handle is closed before  *)
(* the object goes and nothing else is; only a failed start makes close()  *)
(* take a handle that is none.                                             *)
PoolInv == Pool!PoolInv

(* Timer: the slots hold exactly the timers that are wanted, and none is   *)
(* called before its interval is over.                                     *)
TimersExact == [](Timers!TypeOK /\ Timers!SlotsAreLive) /\ Timers!NotEarly

(* Log: the counter is the number of lines in the present file, no file of *)
(* all lines has more than the limit, whatever has failed, and in every    *)
(* file the times of the lines go up.                                      *)
LogInv == Logs!TypeOK /\ Logs!CountIsLines /\ Logs!TimesGoUp

(* CBsTree: every node is on the side of every ancestor that its key asks  *)
(* for, and a search finds the oldest node with the key.  HashMap: exactly *)
(* the keys that were asked for are found, the list of all nodes leads to  *)
(* every node, and collisions do not use up the array.                     *)
ContainersFind ==
  /\ Tree!TypeOK /\ Tree!IsSearchTree /\ Tree!FindsOldest
  /\ Map!TypeOK /\ Map!FindsAsked /\ Map!ListIsComplete /\ Map!FullOfKeys
=============================================================================
