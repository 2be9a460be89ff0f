------------------------------ MODULE MsgQueue ------------------------------
(***************************************************************************)
(* The class template MsgQueue (libbase/export/yy_queue.h): a queue of     *)
(* messages in an array, shared by threads.  A Windows mutex guards the    *)
(* array and a semaphore counts what is in it.  append() owns the mutex    *)
(* and then counts up; remove() waits for both at once.  A wait that has   *)
(* not been served when its timeout is over ends in an exception.          *)
(***************************************************************************)
EXTENDS Naturals, Sequences

CONSTANTS Thread, Message,
          NoMessage,    \* what fresh memory holds, and what a thread without
          MaxSize,      \* max_size of the constructor
          MaxAppends    \* bound: calls of append()

MsgQueueAssumption ==
  /\ MaxSize \in Nat \ {0} /\ MaxAppends \in Nat
  /\ NoMessage \notin Message

VARIABLES
  m_queue,              \* the array, from 0
  semaphore,            \* the count of m_handles[1]
  mutex,                \* the owners of m_handles[0]: at most one thread
  pc,                   \* where each thread is
  data,                 \* the message a thread appends or has removed
  prev_count,           \* what ReleaseSemaphore has told a thread
  appends,              \* calls of append() so far
  last, parity          \* the message removed last; changes with every remove

vars == <<m_queue, semaphore, mutex, pc, data, prev_count, appends, last, parity>>

Index == 0..(MaxSize - 1)

Init ==
  /\ m_queue = [i \in Index |-> NoMessage]
  /\ semaphore = 0
  /\ mutex = {}
  /\ pc = [t \in Thread |-> "idle"]
  /\ data = [t \in Thread |-> NoMessage]
  /\ prev_count = [t \in Thread |-> 0]
  /\ appends = 0 /\ last = <<>> /\ parity = 0

Goes(t, place) == pc' = [pc EXCEPT ![t] = place]

-----------------------------------------------------------------------------
(* append() *)

CallAppend(t, m) ==
  /\ pc[t] = "idle" /\ appends < MaxAppends
  /\ data' = [data EXCEPT ![t] = m] /\ appends' = appends + 1
  /\ Goes(t, "append")
  /\ UNCHANGED <<m_queue, semaphore, mutex, prev_count, last, parity>>

AppendLock(t) ==
  /\ pc[t] = "append" /\ mutex = {}
  /\ mutex' = {t} /\ Goes(t, "count")
  /\ UNCHANGED <<m_queue, semaphore, data, prev_count, appends, last, parity>>

AppendTimeout(t) ==
  /\ pc[t] = "append" /\ mutex # {}
  /\ Goes(t, "idle")
  /\ UNCHANGED <<m_queue, semaphore, mutex, data, prev_count, appends, last, parity>>

(* ReleaseSemaphore counts up and tells the count before. *)
Count(t) ==
  /\ pc[t] = "count" /\ semaphore < MaxSize
  /\ prev_count' = [prev_count EXCEPT ![t] = semaphore]
  /\ semaphore' = semaphore + 1 /\ Goes(t, "fill")
  /\ UNCHANGED <<m_queue, mutex, data, appends, last, parity>>

(* Deviation: the exception leaves with the mutex. *)
Full_KeepsMutex(t) ==
  /\ pc[t] = "count" /\ semaphore = MaxSize
  /\ Goes(t, "idle")
  /\ UNCHANGED <<m_queue, semaphore, mutex, data, prev_count, appends, last, parity>>

(* It fails when the queue is full: the mutex is released, an exception.   *)
Full(t) ==
  /\ pc[t] = "count" /\ semaphore = MaxSize
  /\ mutex' = mutex \ {t} /\ Goes(t, "idle")
  /\ UNCHANGED <<m_queue, semaphore, data, prev_count, appends, last, parity>>

Fill(t) ==
  /\ pc[t] = "fill"
  /\ m_queue' = [m_queue EXCEPT ![prev_count[t]] = data[t]] /\ Goes(t, "unlock")
  /\ UNCHANGED <<semaphore, mutex, data, prev_count, appends, last, parity>>

Unlock(t) ==
  /\ pc[t] = "unlock"
  /\ mutex' = mutex \ {t} /\ Goes(t, "idle")
  /\ UNCHANGED <<m_queue, semaphore, data, prev_count, appends, last, parity>>

-----------------------------------------------------------------------------
(* remove() *)

CallRemove(t) ==
  /\ pc[t] = "idle" /\ Goes(t, "remove")
  /\ UNCHANGED <<m_queue, semaphore, mutex, data, prev_count, appends, last, parity>>

(* Deviation: the semaphore is taken although the mutex is not free. *)
RemoveLock_CountFirst(t) ==
  /\ UNCHANGED <<m_queue, data, prev_count, appends, last, parity>>
  /\ \/ pc[t] = "remove" /\ semaphore > 0
        /\ semaphore' = semaphore - 1 /\ Goes(t, "counted") /\ UNCHANGED mutex
     \/ pc[t] = "counted" /\ mutex = {}
        /\ mutex' = {t} /\ Goes(t, "take") /\ UNCHANGED semaphore

(* WaitForMultipleObjects takes both or neither. *)
RemoveLock(t) ==
  /\ pc[t] = "remove" /\ mutex = {} /\ semaphore > 0
  /\ mutex' = {t} /\ semaphore' = semaphore - 1
  /\ Goes(t, "take")
  /\ UNCHANGED <<m_queue, data, prev_count, appends, last, parity>>

RemoveTimeout(t) ==
  /\ pc[t] = "remove" /\ (mutex # {} \/ semaphore = 0)
  /\ Goes(t, "idle")
  /\ UNCHANGED <<m_queue, semaphore, mutex, data, prev_count, appends, last, parity>>

(* Deviation: the last element stays out of the move. *)
Shifted_Short ==
  [i \in Index |-> IF i + 2 < MaxSize THEN m_queue[i + 1] ELSE m_queue[i]]

(* memmove of the whole rest of the array. *)
Shifted == [i \in Index |-> IF i + 1 < MaxSize THEN m_queue[i + 1] ELSE m_queue[i]]

(* The first message is copied out and the others move up. *)
Take(t) ==
  /\ pc[t] = "take"
  /\ data' = [data EXCEPT ![t] = m_queue[0]]
  /\ last' = m_queue[0] /\ parity' = 1 - parity
  /\ m_queue' = Shifted /\ Goes(t, "unlock")
  /\ UNCHANGED <<semaphore, mutex, prev_count, appends>>

-----------------------------------------------------------------------------
Append_(t) ==
  \/ AppendLock(t) \/ AppendTimeout(t)
  \/ Count(t) \/ Full(t) \/ Fill(t)
Remove_(t) == RemoveLock(t) \/ RemoveTimeout(t) \/ Take(t)

(* The rest of a call that has begun. *)
Runs(t) == Append_(t) \/ Remove_(t) \/ Unlock(t)

Next ==
  \E t \in Thread :
    \/ \E m \in Message : CallAppend(t, m)
    \/ CallRemove(t)
    \/ Runs(t)

Spec == Init /\ [][Next]_vars

(* A call that has begun goes on, and every thread that is idle looks into *)
(* the queue again, as Log::runInThread does in its thread's loop.         *)
FairSpec ==
  Spec /\ \A t \in Thread : WF_vars(Runs(t)) /\ WF_vars(CallRemove(t))

-----------------------------------------------------------------------------
(* Every variable has its type; the threads that write are the owners. *)
TypeOK ==
  /\ m_queue \in [Index -> Message \cup {NoMessage}]
  /\ semaphore \in 0..MaxSize
  /\ mutex \in SUBSET Thread
  /\ pc \in [Thread -> {"idle", "append", "count", "fill", "unlock", "remove", "take"}]
  /\ data \in [Thread -> Message \cup {NoMessage}]
  /\ prev_count \in [Thread -> Index]
  /\ appends \in 0..MaxAppends
  /\ last \in Message \cup {NoMessage, <<>>} /\ parity \in {0, 1}

Owners == {t \in Thread : pc[t] \in {"count", "fill", "unlock", "take"}}

(* At most one thread is between its lock and its unlock, and it is the    *)
(* owner of the mutex: an exception leaves no mutex behind.                *)
MutexIsOwned ==
  /\ mutex = Owners
  /\ \A t, u \in mutex : t = u

Filling == \E t \in Thread : pc[t] = "fill"
Taking  == \E t \in Thread : pc[t] = "take"

(* The messages in the queue: the semaphore is one ahead while a message   *)
(* is written and one behind while the first is taken.                     *)
Held == IF Filling THEN semaphore - 1 ELSE IF Taking THEN semaphore + 1 ELSE semaphore
Contents == [i \in 1..Held |-> m_queue[i - 1]]

(* The semaphore and the array agree: a new message is written behind the  *)
(* last one, and no message is read that was not written.                  *)
CountAgrees ==
  /\ \A t \in Thread : pc[t] = "fill" => prev_count[t] = Held
  /\ \A i \in 1..Held : Contents[i] \in Message

Stream == INSTANCE MessageStream WITH chan <- Contents

(* The messages are removed in the order in which they were appended, each *)
(* once, however the threads interleave and whichever calls fail.          *)
QueueStreamSpec == Stream!Spec

(* The queue does not stay blocked: when nothing more is appended, the     *)
(* threads that poll it empty it.                                          *)
GetsEmpty == appends = MaxAppends ~> semaphore = 0

(* The three together. *)
QueueInv == TypeOK /\ MutexIsOwned /\ CountAgrees
=============================================================================
