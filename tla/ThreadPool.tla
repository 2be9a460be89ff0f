----------------------------- MODULE ThreadPool -----------------------------
(***************************************************************************)
(* The class Thread (libbase/src/yy_thread.cpp): open() starts threads     *)
(* that call a function until the flag m_stop_flag is set; close(), also   *)
(* called by the destructor, sets it, waits for the threads and closes     *)
(* their handles.  One thread owns the object and makes the calls.         *)
(*                                                                         *)
(* The threads are numbered in the order in which Windows starts them and  *)
(* a handle has the number of its thread.                                  *)
(***************************************************************************)
EXTENDS Integers, FiniteSets

CONSTANTS MaxThreadNum,  \* MAX_THRED_NUM, the size of m_thread_handle
          Word,          \* the numbers of UI32: 2^32 in the code
          MaxThread,     \* bound: threads that are ever started
          MayFail,       \* Windows may fail to start a thread
          MaxOpens,      \* bound: calls of open()
          Explicit       \* the owner calls close() before the destructor does

ThreadPoolAssumption ==
  /\ MaxThreadNum \in Nat \ {0} /\ MaxThread \in Nat /\ MaxOpens \in Nat
  /\ Word \in Nat /\ Word > MaxThreadNum
  /\ {MayFail, Explicit} \subseteq BOOLEAN

Null == 0
Junk == -1               \* memory nobody has written
Index == 0..(MaxThreadNum - 1)
Worker == 1..MaxThread

VARIABLES
  m_thread_handle,       \* the handles, from 0
  m_thread_num,
  m_stop_flag,
  worker,                \* each thread: "none", "test", "run", "ended"
  closed,                \* threads whose handle was closed
  pc,                    \* where the owner is
  i,                     \* the loop counter of open()
  opens,                 \* calls of open() that passed the tests
  gone,                  \* "no", "destructor" in it, "yes" after it
  wild                   \* a handle was read outside of the array, or unwritten

vars == <<m_thread_handle, m_thread_num, m_stop_flag, worker, closed, pc, i,
          opens, gone, wild>>
owned == <<m_thread_handle, m_thread_num, m_stop_flag, closed, pc, i, opens, gone, wild>>

Init ==
  /\ m_thread_handle = [k \in Index |-> Junk]
  /\ m_thread_num = 0 /\ m_stop_flag = FALSE
  /\ worker = [w \in Worker |-> "none"]
  /\ closed = {} /\ pc = "idle" /\ i = 0 /\ opens = 0
  /\ gone = "no" /\ wild = FALSE

-----------------------------------------------------------------------------
(* ThreadFunc *)

Test(w) ==
  /\ worker[w] = "test"
  /\ worker' = [worker EXCEPT ![w] = IF m_stop_flag THEN "ended" ELSE "run"]
  /\ UNCHANGED owned

Run(w) ==
  /\ worker[w] = "run"
  /\ worker' = [worker EXCEPT ![w] = "test"]
  /\ UNCHANGED owned

-----------------------------------------------------------------------------
(* open() *)

(* Deviation: the array may be filled, and one more. *)
Admits_OneMore(num) == num <= MaxThreadNum + 1

(* More than the array has room for, less one, is an exception. *)
Admits(num) == num < MaxThreadNum

Open(num) ==
  /\ pc = "idle" /\ gone = "no" /\ opens < MaxOpens /\ Admits(num)
  /\ m_thread_num' = num /\ i' = 0 /\ opens' = opens + 1
  /\ pc' = "opening"
  /\ UNCHANGED <<m_thread_handle, m_stop_flag, worker, closed, gone, wild>>

Fresh(w) == worker[w] = "none" /\ \A v \in 1..(w - 1) : worker[v] # "none"

StartThread(w) ==
  /\ pc = "opening" /\ i < m_thread_num /\ Fresh(w)
  /\ m_thread_handle' = [m_thread_handle EXCEPT ![i] = w]
  /\ worker' = [worker EXCEPT ![w] = "test"]
  /\ i' = i + 1
  /\ UNCHANGED <<m_thread_num, m_stop_flag, closed, pc, opens, gone, wild>>

(* _beginthreadex returns 0: the exception leaves m_thread_num as it is. *)
StartFails ==
  /\ MayFail /\ pc = "opening" /\ i < m_thread_num
  /\ m_thread_handle' = [m_thread_handle EXCEPT ![i] = Null]
  /\ pc' = "idle"
  /\ UNCHANGED <<m_thread_num, m_stop_flag, worker, closed, i, opens, gone, wild>>

Opened ==
  /\ pc = "opening" /\ i = m_thread_num
  /\ pc' = "idle"
  /\ UNCHANGED <<m_thread_handle, m_thread_num, m_stop_flag, worker, closed, i,
                 opens, gone, wild>>

-----------------------------------------------------------------------------
(* close() *)

(* Deviation: the threads are not told to stop. *)
Stops_Not == FALSE

Stops == TRUE

Closes ==
  IF m_thread_num = 0
  THEN /\ pc' = IF gone' = "no" THEN "idle" ELSE "end"
       /\ UNCHANGED m_stop_flag
  ELSE pc' = "waiting" /\ m_stop_flag' = (m_stop_flag \/ Stops)

Close ==
  /\ Explicit /\ pc = "idle" /\ gone = "no"
  /\ gone' = "no" /\ Closes
  /\ UNCHANGED <<m_thread_handle, m_thread_num, worker, closed, i, opens, wild>>

Destroy ==
  /\ pc = "idle" /\ gone = "no"
  /\ gone' = "destructor" /\ Closes
  /\ UNCHANGED <<m_thread_handle, m_thread_num, worker, closed, i, opens, wild>>

Handles == {m_thread_handle[k] : k \in {k \in Index : k < m_thread_num}}

(* WaitForMultipleObjects refuses to wait for too many objects, and for    *)
(* what is not an open handle.                                             *)
CanWait == m_thread_num <= MaxThreadNum /\ Handles \subseteq Worker \ closed

(* Deviation: the wait is over when one thread has ended. *)
WaitOver_Any == \E w \in Handles : worker[w] = "ended"

WaitOver == \A w \in Handles : worker[w] = "ended"

(* The wait returns, with or without success: the code does not look. *)
Wait ==
  /\ pc = "waiting"
  /\ CanWait => WaitOver
  /\ pc' = "closing"
  /\ UNCHANGED <<m_thread_handle, m_thread_num, m_stop_flag, worker, closed, i,
                 opens, gone, wild>>

(* Deviation: while(--m_thread_num). *)
MoreHandles_DownFirst == m_thread_num > 1

MoreHandles == m_thread_num # 0

(* while(m_thread_num--): the number after the test names the handle, and  *)
(* the test that ends the loop takes one more.                             *)
CloseOne ==
  /\ pc = "closing" /\ MoreHandles
  /\ m_thread_num' = m_thread_num - 1
  /\ IF m_thread_num - 1 \in Index
       THEN LET h == m_thread_handle[m_thread_num - 1] IN
              /\ closed' = closed \cup ({h} \cap Worker)
              /\ wild' = (wild \/ h = Junk)
              /\ UNCHANGED pc
       ELSE wild' = TRUE /\ pc' = "wild" /\ UNCHANGED closed
  /\ UNCHANGED <<m_thread_handle, m_stop_flag, worker, i, opens, gone>>

CloseEnds ==
  /\ pc = "closing" /\ ~MoreHandles
  /\ m_thread_num' = Word - 1
  /\ pc' = IF gone = "no" THEN "idle" ELSE "end"
  /\ UNCHANGED <<m_thread_handle, m_stop_flag, worker, closed, i, opens, gone, wild>>

Destroyed ==
  /\ pc = "end" /\ gone = "destructor"
  /\ gone' = "yes"
  /\ UNCHANGED <<m_thread_handle, m_thread_num, m_stop_flag, worker, closed, pc, i,
                 opens, wild>>

-----------------------------------------------------------------------------
Owner ==
  \/ \E w \in Worker : StartThread(w)
  \/ StartFails \/ Opened
  \/ Wait \/ CloseOne \/ CloseEnds \/ Destroyed

Next ==
  \/ \E w \in Worker : Test(w) \/ Run(w)
  \/ \E num \in 0..(MaxThreadNum + 1) : Open(num)
  \/ Close \/ Destroy
  \/ Owner

Spec == Init /\ [][Next]_vars

(* Threads run, the function they call returns, and the owner goes on with *)
(* what it has begun.                                                      *)
FairSpec ==
  Spec /\ WF_vars(Owner) /\ \A w \in Worker : WF_vars(Test(w) \/ Run(w))

-----------------------------------------------------------------------------
(* Every variable has its type; no handle is written outside of the array. *)
TypeOK ==
  /\ m_thread_handle \in [Index -> Worker \cup {Null, Junk}]
  /\ m_thread_num \in 0..(Word - 1) /\ m_stop_flag \in BOOLEAN
  /\ worker \in [Worker -> {"none", "test", "run", "ended"}]
  /\ closed \subseteq Worker
  /\ pc \in {"idle", "opening", "waiting", "closing", "end", "wild"}
  /\ i \in 0..(MaxThreadNum - 1) /\ opens \in 0..MaxOpens
  /\ gone \in {"no", "destructor", "yes"} /\ wild \in BOOLEAN

Alive == {w \in Worker : worker[w] \in {"test", "run"}}

(* When close() is past its wait all threads of the object have ended: the *)
(* object may go.                                                          *)
ClosedMeansEnded == pc \in {"closing", "end"} => Alive = {}

(* Every handle is closed before the object goes, and only handles are. *)
HandlesClosed ==
  /\ ~wild
  /\ gone = "yes" => closed = {w \in Worker : worker[w] # "none"}

(* When the owner leaves close() to the destructor, handles that do not    *)
(* exist are closed only after a failed start.                             *)
WildHasCause == wild => Null \in {m_thread_handle[k] : k \in Index}

(* The owner calls open() once and every thread starts. *)
Regular == opens <= 1 /\ Null \notin {m_thread_handle[k] : k \in Index}

(* Together with the types.  A null handle ends the wait of close() at     *)
(* once, and a second open() forgets the handles of the first.             *)
PoolInv ==
  /\ TypeOK /\ WildHasCause
  /\ Regular => ClosedMeansEnded /\ HandlesClosed

(* close() comes to its end. *)
CloseTerminates == pc = "waiting" ~> pc \in {"idle", "end", "wild"}
=============================================================================
