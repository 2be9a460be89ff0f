--------------------------- MODULE LibBase_proofs ---------------------------
(***************************************************************************)
(* What the queue, the free list, the thread pool, the log and the timers  *)
(* of libbase promise (LibBase.tla), proved for every number of threads,   *)
(* messages, nodes, handles, calls, lines, days and timers.  Each          *)
(* component has an invariant of its own; a step of LibBase is a step of   *)
(* one of them and leaves the others as they are.                          *)
(***************************************************************************)
EXTENDS LibBase, FiniteSetTheorems, SequenceTheorems, WellFoundedInduction, TLAPS

LEMMA ListAssumed == List!FreeListAssumption
BY LibBaseAssumed DEF LibBaseAssumption

LEMMA PoolAssumed == Pool!ThreadPoolAssumption
BY LibBaseAssumed DEF LibBaseAssumption

LEMMA LogAssumed == Logs!LogAssumption
BY LibBaseAssumed DEF LibBaseAssumption

-----------------------------------------------------------------------------
(* The queue (MsgQueue.tla).  The invariant is QueueIInv: the parts of     *)
(* QueueInv, and that the semaphore leaves room for the message that is    *)
(* just written or taken.                                                  *)

SemaphoreRoom ==
  /\ Queue!Filling => semaphore > 0
  /\ Queue!Taking => semaphore < MaxSize

(* Who appends has a message. *)
Carries ==
  \A t \in Thread : queue_pc[t] \in {"append", "count", "fill"} => data[t] \in Message

QueueIInv ==
  /\ Queue!MsgQueueAssumption
  /\ Queue!TypeOK
  /\ Carries
  /\ Queue!MutexIsOwned
  /\ SemaphoreRoom
  /\ \A t \in Thread : queue_pc[t] = "fill" => prev_count[t] = Queue!Held
  /\ \A i \in 0..(Queue!Held - 1) : m_queue[i] \in Message

-----------------------------------------------------------------------------
(* How much the queue holds, by what the owner of the mutex is doing. *)
LEMMA HeldByPlace ==
  ASSUME QueueIInv
  PROVE  /\ Queue!Held \in 0..MaxSize
         /\ mutex = {} => Queue!Held = semaphore
         /\ \A t \in Thread :
              /\ queue_pc[t] \in {"count", "unlock"} => Queue!Held = semaphore
              /\ queue_pc[t] = "fill" => Queue!Held = semaphore - 1
              /\ queue_pc[t] = "take" => Queue!Held = semaphore + 1
<1>1. semaphore \in Nat /\ MaxSize \in Nat /\ semaphore <= MaxSize
  BY DEF QueueIInv, Queue!TypeOK, Queue!MsgQueueAssumption
<1>2. Queue!Filling => ~Queue!Taking
  BY DEF QueueIInv, Queue!MutexIsOwned, Queue!Owners, Queue!Filling, Queue!Taking
<1>3. Queue!Held \in 0..MaxSize
  BY <1>1, <1>2 DEF QueueIInv, SemaphoreRoom, Queue!Held
<1>4. mutex = {} => ~Queue!Filling /\ ~Queue!Taking
  BY DEF QueueIInv, Queue!MutexIsOwned, Queue!Owners, Queue!Filling, Queue!Taking
<1>5. ASSUME NEW t \in Thread
      PROVE  /\ queue_pc[t] \in {"count", "unlock"} => ~Queue!Filling /\ ~Queue!Taking
             /\ queue_pc[t] = "fill" => Queue!Filling /\ ~Queue!Taking
             /\ queue_pc[t] = "take" => Queue!Taking /\ ~Queue!Filling
  BY DEF QueueIInv, Queue!MutexIsOwned, Queue!Owners, Queue!Filling, Queue!Taking
<1> QED
  BY <1>1, <1>2, <1>3, <1>4, <1>5 DEF Queue!Held

LEMMA InitQueue == Queue!MsgQueueAssumption /\ Queue!Init => QueueIInv
<1> SUFFICES ASSUME Queue!MsgQueueAssumption, Queue!Init PROVE QueueIInv
  OBVIOUS
<1>1. Queue!TypeOK
  BY DEF Queue!Init, Queue!TypeOK, Queue!MsgQueueAssumption, Queue!Index
<1>2. ~Queue!Filling /\ ~Queue!Taking /\ Queue!Owners = {}
  BY DEF Queue!Init, Queue!Filling, Queue!Taking, Queue!Owners
<1>3. Queue!Held = 0
  BY <1>2 DEF Queue!Held, Queue!Init
<1> QED
  BY <1>1, <1>2, <1>3 DEF Queue!Init, QueueIInv, Queue!MutexIsOwned, SemaphoreRoom,
     Queue!Filling, Carries

(* A thread that enters or leaves the lock without touching the queue. *)
LEMMA QueueUntouched ==
  ASSUME QueueIInv, UNCHANGED <<m_queue, semaphore, prev_count>>,
         Queue!TypeOK', Queue!MutexIsOwned', Carries',
         \A t \in Thread : (queue_pc'[t] = "fill" <=> queue_pc[t] = "fill")
                          /\ (queue_pc'[t] = "take" <=> queue_pc[t] = "take")
  PROVE  QueueIInv'
<1>1. (Queue!Filling' <=> Queue!Filling) /\ (Queue!Taking' <=> Queue!Taking)
  BY DEF Queue!Filling, Queue!Taking
<1>2. Queue!Held' = Queue!Held
  BY <1>1 DEF Queue!Held
<1> QED
  BY <1>1, <1>2 DEF QueueIInv, SemaphoreRoom, Queue!MsgQueueAssumption

(* Nobody but the owner of the mutex fills, takes or unlocks. *)
LEMMA OneOwner ==
  ASSUME QueueIInv, NEW t \in Thread, queue_pc[t] \in {"count", "fill", "unlock", "take"}
  PROVE  /\ mutex = {t}
         /\ \A u \in Thread : u # t =>
              queue_pc[u] \notin {"count", "fill", "unlock", "take"}
BY DEF QueueIInv, Queue!MutexIsOwned, Queue!Owners

(* How the four steps that touch the queue change what it holds. *)
LEMMA CountKeepsHeld ==
  ASSUME QueueIInv, NEW t \in Thread, Queue!Count(t)
  PROVE  Queue!Filling' /\ ~Queue!Taking' /\ Queue!Held' = semaphore /\ Queue!Held = semaphore
<1>t. /\ semaphore \in Nat /\ semaphore <= MaxSize /\ MaxSize \in Nat
      /\ DOMAIN queue_pc = Thread /\ Queue!TypeOK /\ Queue!MutexIsOwned
  BY DEF QueueIInv, Queue!TypeOK, Queue!MsgQueueAssumption
<1>3. \A u \in Thread : u # t => queue_pc'[u] = queue_pc[u] /\ queue_pc[u] \notin {"fill", "take"}
  BY <1>t, OneOwner DEF Queue!Goes, Queue!Count
<1>4. queue_pc'[t] = "fill" /\ semaphore' = semaphore + 1
  BY <1>t DEF Queue!Goes, Queue!Count
<1>5. Queue!Filling'
  BY <1>4 DEF Queue!Filling
<1>6. ~Queue!Taking'
  BY <1>3, <1>4 DEF Queue!Taking
<1>7. Queue!Held' = semaphore
  BY <1>t, <1>4, <1>5 DEF Queue!Held
<1> QED
  BY <1>5, <1>6, <1>7, HeldByPlace DEF Queue!Goes, Queue!Count

LEMMA FillAddsOne ==
  ASSUME QueueIInv, NEW t \in Thread, Queue!Fill(t)
  PROVE  ~Queue!Filling' /\ ~Queue!Taking' /\ Queue!Held' = semaphore /\ Queue!Held = semaphore - 1
<1>t. /\ semaphore \in Nat /\ semaphore <= MaxSize /\ MaxSize \in Nat
      /\ DOMAIN queue_pc = Thread /\ Queue!TypeOK /\ Queue!MutexIsOwned
  BY DEF QueueIInv, Queue!TypeOK, Queue!MsgQueueAssumption
<1>3. \A u \in Thread : u # t => queue_pc'[u] = queue_pc[u] /\ queue_pc[u] \notin {"fill", "take"}
  BY <1>t, OneOwner DEF Queue!Goes, Queue!Fill
<1>4. queue_pc'[t] = "unlock" /\ semaphore' = semaphore
  BY <1>t DEF Queue!Goes, Queue!Fill
<1>5. ~Queue!Filling' /\ ~Queue!Taking'
  BY <1>3, <1>4 DEF Queue!Goes, Queue!Filling, Queue!Taking
<1>6. Queue!Held' = semaphore
  BY <1>4, <1>5 DEF Queue!Held
<1> QED
  BY <1>5, <1>6, HeldByPlace DEF Queue!Goes, Queue!Fill

LEMMA RemoveLockKeepsHeld ==
  ASSUME QueueIInv, NEW t \in Thread, Queue!RemoveLock(t)
  PROVE  ~Queue!Filling' /\ Queue!Taking' /\ Queue!Held' = semaphore /\ Queue!Held = semaphore
<1>t. /\ semaphore \in Nat /\ semaphore <= MaxSize /\ MaxSize \in Nat
      /\ DOMAIN queue_pc = Thread /\ Queue!TypeOK /\ Queue!MutexIsOwned
  BY DEF QueueIInv, Queue!TypeOK, Queue!MsgQueueAssumption
<1>3. \A u \in Thread : u # t => queue_pc'[u] = queue_pc[u] /\ queue_pc[u] \notin {"fill", "take"}
  BY <1>t DEF Queue!Goes, Queue!RemoveLock, Queue!MutexIsOwned, Queue!Owners
<1>4. queue_pc'[t] = "take" /\ semaphore' = semaphore - 1
  BY <1>t DEF Queue!Goes, Queue!RemoveLock
<1>5. ~Queue!Filling' /\ Queue!Taking'
  BY <1>3, <1>4 DEF Queue!Filling, Queue!Taking
<1>6. Queue!Held' = semaphore
  BY <1>t, <1>4, <1>5 DEF Queue!Held
<1> QED
  BY <1>5, <1>6, HeldByPlace DEF Queue!Goes, Queue!RemoveLock

LEMMA TakeRemovesOne ==
  ASSUME QueueIInv, NEW t \in Thread, Queue!Take(t)
  PROVE  ~Queue!Filling' /\ ~Queue!Taking' /\ Queue!Held' = semaphore /\ Queue!Held = semaphore + 1
<1>t. /\ semaphore \in Nat /\ semaphore <= MaxSize /\ MaxSize \in Nat
      /\ DOMAIN queue_pc = Thread /\ Queue!TypeOK /\ Queue!MutexIsOwned
  BY DEF QueueIInv, Queue!TypeOK, Queue!MsgQueueAssumption
<1>3. \A u \in Thread : u # t =>
        queue_pc'[u] = queue_pc[u] /\ queue_pc[u] \notin {"count", "fill", "unlock", "take"}
  BY <1>t, OneOwner DEF Queue!Goes, Queue!Take
<1>4. queue_pc'[t] = "unlock" /\ semaphore' = semaphore
  BY <1>t DEF Queue!Goes, Queue!Take
<1>5. ~Queue!Filling' /\ ~Queue!Taking'
  BY <1>3, <1>4 DEF Queue!Filling, Queue!Taking
<1>6. Queue!Held' = semaphore
  BY <1>4, <1>5 DEF Queue!Held
<1> QED
  BY <1>5, <1>6, HeldByPlace DEF Queue!Goes, Queue!Take

LEMMA QueueStep == QueueIInv /\ [Queue!Next]_(Queue!vars) => QueueIInv'
<1> SUFFICES ASSUME QueueIInv, [Queue!Next]_(Queue!vars) PROVE QueueIInv'
  OBVIOUS
<1> USE DEF Queue!Goes
<1>0. Queue!MsgQueueAssumption /\ Queue!TypeOK /\ Queue!MutexIsOwned /\ SemaphoreRoom /\ Carries
  BY DEF QueueIInv
<1>t. /\ semaphore \in Nat /\ semaphore <= MaxSize /\ MaxSize \in Nat \ {0}
      /\ DOMAIN queue_pc = Thread /\ DOMAIN m_queue = Queue!Index
      /\ mutex \subseteq Thread
  BY <1>0 DEF Queue!TypeOK, Queue!MsgQueueAssumption
<1>1. ASSUME NEW t \in Thread, NEW m \in Message, Queue!CallAppend(t, m) PROVE QueueIInv'
  <2>1. Queue!TypeOK'
    BY <1>0, <1>1 DEF Queue!TypeOK, Queue!CallAppend, Queue!MsgQueueAssumption
  <2>c. Carries'
    BY <1>0, <1>1, <1>t DEF Carries, Queue!TypeOK, Queue!CallAppend
  <2>2. Queue!MutexIsOwned'
    BY <1>0, <1>1, <1>t DEF Queue!MutexIsOwned, Queue!Owners, Queue!CallAppend
  <2> QED
    BY <1>1, <1>t, <2>1, <2>2, <2>c, QueueUntouched DEF Queue!CallAppend
<1>2. ASSUME NEW t \in Thread,
             Queue!AppendLock(t) PROVE QueueIInv'
  <2>1. Queue!TypeOK'
    BY <1>0, <1>2 DEF Queue!TypeOK, Queue!AppendLock
  <2>c. Carries'
    BY <1>0, <1>2, <1>t DEF Carries, Queue!TypeOK, Queue!AppendLock
  <2>2. Queue!MutexIsOwned'
    BY <1>0, <1>2, <1>t DEF Queue!MutexIsOwned, Queue!Owners, Queue!AppendLock
  <2> QED
    BY <1>2, <1>t, <2>1, <2>2, <2>c, QueueUntouched DEF Queue!AppendLock
<1>3. ASSUME NEW t \in Thread, Queue!AppendTimeout(t) PROVE QueueIInv'
  <2>1. Queue!TypeOK'
    BY <1>0, <1>3 DEF Queue!TypeOK, Queue!AppendTimeout
  <2>c. Carries'
    BY <1>0, <1>3, <1>t DEF Carries, Queue!TypeOK, Queue!AppendTimeout
  <2>2. Queue!MutexIsOwned'
    BY <1>0, <1>3, <1>t DEF Queue!MutexIsOwned, Queue!Owners, Queue!AppendTimeout
  <2> QED
    BY <1>3, <1>t, <2>1, <2>2, <2>c, QueueUntouched DEF Queue!AppendTimeout
<1>4. ASSUME NEW t \in Thread, Queue!Count(t) PROVE QueueIInv'
  <2>1. Queue!TypeOK'
    BY <1>0, <1>4, <1>t DEF Queue!TypeOK, Queue!Count, Queue!Index
  <2>c. Carries'
    BY <1>0, <1>4, <1>t DEF Carries, Queue!TypeOK, Queue!Count
  <2>2. Queue!MutexIsOwned'
    BY <1>0, <1>4, <1>t DEF Queue!MutexIsOwned, Queue!Owners, Queue!Count
  <2>3. \A u \in Thread : u # t => queue_pc'[u] = queue_pc[u] /\ queue_pc[u] \notin {"fill", "take"}
    BY <1>4, <1>t, OneOwner DEF Queue!Count
  <2>4. Queue!Filling' /\ ~Queue!Taking' /\ Queue!Held' = semaphore /\ Queue!Held = semaphore
    BY <1>4, CountKeepsHeld
  <2>5. \A u \in Thread : queue_pc'[u] = "fill" => prev_count'[u] = Queue!Held'
    BY <1>0, <1>4, <1>t, <2>3, <2>4 DEF Queue!Count, Queue!TypeOK
  <2>6. \A i \in 0..(Queue!Held' - 1) : m_queue'[i] \in Message
    BY <1>4, <2>4 DEF Queue!Count, QueueIInv
  <2>7. SemaphoreRoom'
    BY <1>4, <1>t, <2>4 DEF SemaphoreRoom, Queue!Count
  <2> QED
    BY <1>0, <2>1, <2>2, <2>c, <2>5, <2>6, <2>7 DEF QueueIInv, Queue!MsgQueueAssumption
<1>5. ASSUME NEW t \in Thread, Queue!Full(t) PROVE QueueIInv'
  <2>1. Queue!TypeOK'
    BY <1>0, <1>5 DEF Queue!TypeOK, Queue!Full
  <2>c. Carries'
    BY <1>0, <1>5, <1>t DEF Carries, Queue!TypeOK, Queue!Full
  <2>2. Queue!MutexIsOwned'
    BY <1>0, <1>5, <1>t, OneOwner DEF Queue!MutexIsOwned, Queue!Owners, Queue!Full
  <2> QED
    BY <1>5, <1>t, <2>1, <2>2, <2>c, QueueUntouched DEF Queue!Full
<1>6. ASSUME NEW t \in Thread, Queue!Fill(t) PROVE QueueIInv'
  <2>1. Queue!TypeOK'
    <3>1. m_queue' \in [Queue!Index -> Message \cup {NoMessage}]
      BY <1>0, <1>6 DEF Queue!TypeOK, Queue!Fill
    <3> QED
      BY <1>0, <1>6, <3>1 DEF Queue!TypeOK, Queue!Fill
  <2>c. Carries'
    BY <1>0, <1>6, <1>t DEF Carries, Queue!TypeOK, Queue!Fill
  <2>2. Queue!MutexIsOwned'
    BY <1>0, <1>6, <1>t DEF Queue!MutexIsOwned, Queue!Owners, Queue!Fill
  <2>3. \A u \in Thread : u # t => queue_pc'[u] = queue_pc[u] /\ queue_pc[u] \notin {"fill", "take"}
    BY <1>6, <1>t, OneOwner DEF Queue!Fill
  <2>4. ~Queue!Filling' /\ ~Queue!Taking' /\ Queue!Held' = semaphore /\ Queue!Held = semaphore - 1
    BY <1>6, FillAddsOne
  <2>5. data[t] \in Message /\ prev_count[t] = semaphore - 1
    <3>1. prev_count[t] = Queue!Held
      BY <1>6 DEF QueueIInv, Queue!Fill
    <3> QED
      BY <1>0, <1>6, <2>4, <3>1 DEF Carries, Queue!Fill
  <2>6. \A i \in 0..(Queue!Held' - 1) : m_queue'[i] \in Message
    BY <1>6, <1>t, <2>4, <2>5 DEF Queue!Fill, QueueIInv, Queue!Index
  <2> QED
    BY <1>0, <2>1, <2>2, <2>c, <2>3, <2>4, <2>6 DEF QueueIInv, Queue!MsgQueueAssumption,
       SemaphoreRoom, Queue!Filling
<1>7. ASSUME NEW t \in Thread, Queue!Unlock(t) PROVE QueueIInv'
  <2>1. Queue!TypeOK'
    BY <1>0, <1>7 DEF Queue!TypeOK, Queue!Unlock
  <2>c. Carries'
    BY <1>0, <1>7, <1>t DEF Carries, Queue!TypeOK, Queue!Unlock
  <2>2. Queue!MutexIsOwned'
    BY <1>0, <1>7, <1>t, OneOwner DEF Queue!MutexIsOwned, Queue!Owners, Queue!Unlock
  <2> QED
    BY <1>7, <1>t, <2>1, <2>2, <2>c, QueueUntouched DEF Queue!Unlock
<1>8. ASSUME NEW t \in Thread, Queue!CallRemove(t) PROVE QueueIInv'
  <2>1. Queue!TypeOK'
    BY <1>0, <1>8 DEF Queue!TypeOK, Queue!CallRemove
  <2>c. Carries'
    BY <1>0, <1>8, <1>t DEF Carries, Queue!TypeOK, Queue!CallRemove
  <2>2. Queue!MutexIsOwned'
    BY <1>0, <1>8, <1>t DEF Queue!MutexIsOwned, Queue!Owners, Queue!CallRemove
  <2> QED
    BY <1>8, <1>t, <2>1, <2>2, <2>c, QueueUntouched DEF Queue!CallRemove
<1>9. ASSUME NEW t \in Thread, Queue!RemoveTimeout(t) PROVE QueueIInv'
  <2>1. Queue!TypeOK'
    BY <1>0, <1>9 DEF Queue!TypeOK, Queue!RemoveTimeout
  <2>c. Carries'
    BY <1>0, <1>9, <1>t DEF Carries, Queue!TypeOK, Queue!RemoveTimeout
  <2>2. Queue!MutexIsOwned'
    BY <1>0, <1>9, <1>t DEF Queue!MutexIsOwned, Queue!Owners, Queue!RemoveTimeout
  <2> QED
    BY <1>9, <1>t, <2>1, <2>2, <2>c, QueueUntouched DEF Queue!RemoveTimeout
<1>10. ASSUME NEW t \in Thread, Queue!RemoveLock(t) PROVE QueueIInv'
  <2>1. Queue!TypeOK'
    BY <1>0, <1>10, <1>t DEF Queue!TypeOK, Queue!RemoveLock
  <2>c. Carries'
    BY <1>0, <1>10, <1>t DEF Carries, Queue!TypeOK, Queue!RemoveLock
  <2>2. Queue!MutexIsOwned'
    BY <1>0, <1>10, <1>t DEF Queue!MutexIsOwned, Queue!Owners, Queue!RemoveLock
  <2>4. ~Queue!Filling' /\ Queue!Taking' /\ Queue!Held' = semaphore /\ Queue!Held = semaphore
    BY <1>10, RemoveLockKeepsHeld
  <2>5. \A i \in 0..(Queue!Held' - 1) : m_queue'[i] \in Message
    BY <1>10, <2>4 DEF Queue!RemoveLock, QueueIInv
  <2>6. SemaphoreRoom'
    BY <1>10, <1>t, <2>4 DEF SemaphoreRoom, Queue!RemoveLock
  <2> QED
    BY <1>0, <2>1, <2>2, <2>c, <2>4, <2>5, <2>6 DEF QueueIInv, Queue!MsgQueueAssumption,
       Queue!Filling
<1>11. ASSUME NEW t \in Thread, Queue!Take(t) PROVE QueueIInv'
  <2>0. semaphore < MaxSize
    BY <1>0, <1>11 DEF SemaphoreRoom, Queue!Taking, Queue!Take
  <2>1. Queue!TypeOK'
    <3>1. m_queue' \in [Queue!Index -> Message \cup {NoMessage}]
      BY <1>0, <1>11, <1>t DEF Queue!TypeOK, Queue!Take, Queue!Shifted, Queue!Index
    <3>2. m_queue[0] \in Message \cup {NoMessage}
      BY <1>0, <1>t DEF Queue!TypeOK, Queue!Index
    <3>3. 1 - parity \in {0, 1}
      BY <1>0 DEF Queue!TypeOK
    <3> QED
      BY <1>0, <1>11, <3>1, <3>2, <3>3 DEF Queue!TypeOK, Queue!Take
  <2>3. \A u \in Thread : u # t =>
          queue_pc'[u] = queue_pc[u] /\ queue_pc[u] \notin {"count", "fill", "unlock", "take"}
    BY <1>11, <1>t, OneOwner DEF Queue!Take
  <2>c. Carries'
    BY <1>0, <1>11, <1>t, <2>3 DEF Carries, Queue!TypeOK, Queue!Take
  <2>2. Queue!MutexIsOwned'
    BY <1>0, <1>11, <1>t DEF Queue!MutexIsOwned, Queue!Owners, Queue!Take
  <2>4. ~Queue!Filling' /\ ~Queue!Taking' /\ Queue!Held' = semaphore /\ Queue!Held = semaphore + 1
    BY <1>11, TakeRemovesOne
  <2>5. \A i \in 0..(Queue!Held' - 1) : m_queue'[i] \in Message
    <3>1. ASSUME NEW i \in 0..(Queue!Held' - 1) PROVE m_queue'[i] \in Message
      <4>1. i \in Queue!Index /\ i + 1 < MaxSize /\ i + 1 \in 0..(Queue!Held - 1)
        BY <1>t, <2>0, <2>4 DEF Queue!Index
      <4>2. m_queue'[i] = m_queue[i + 1]
        BY <1>11, <4>1 DEF Queue!Take, Queue!Shifted
      <4> QED
        BY <4>1, <4>2 DEF QueueIInv
    <3> QED
      BY <3>1
  <2> QED
    BY <1>0, <2>1, <2>2, <2>c, <2>4, <2>5 DEF QueueIInv, Queue!MsgQueueAssumption,
       SemaphoreRoom, Queue!Filling
<1>12. CASE UNCHANGED Queue!vars
  BY <1>12 DEF Queue!vars, QueueIInv, Queue!MsgQueueAssumption, Queue!TypeOK, Carries,
     Queue!MutexIsOwned, Queue!Owners,
     SemaphoreRoom, Queue!Filling, Queue!Taking, Queue!Held
<1> QED
  BY <1>1, <1>2, <1>3, <1>4, <1>5, <1>6, <1>7, <1>8, <1>9, <1>10, <1>11, <1>12
  DEF Queue!Next, Queue!Runs, Queue!Append_, Queue!Remove_

-----------------------------------------------------------------------------
(* The refinement: what the queue holds is the channel of MessageStream.   *)

LEMMA ContentsIsSeq ==
  ASSUME QueueIInv
  PROVE  /\ Queue!Contents \in Seq(Message) /\ Len(Queue!Contents) = Queue!Held
         /\ \A i \in 1..Queue!Held : Queue!Contents[i] = m_queue[i - 1]
<1>1. Queue!Held \in Nat
  BY HeldByPlace
<1>2. \A i \in 1..Queue!Held : m_queue[i - 1] \in Message
  BY <1>1 DEF QueueIInv
<1> QED
  BY <1>1, <1>2 DEF Queue!Contents

(* A message is written behind the others. *)
LEMMA FillPuts ==
  ASSUME QueueIInv, QueueIInv', NEW t \in Thread, Queue!Fill(t)
  PROVE  data[t] \in Message /\ Queue!Contents' = Append(Queue!Contents, data[t])
<1>1. Queue!Held' = Queue!Held + 1 /\ Queue!Held \in Nat /\ prev_count[t] = Queue!Held
  <2>1. Queue!Held' = semaphore /\ Queue!Held = semaphore - 1
    BY FillAddsOne
  <2>2. semaphore \in Nat /\ Queue!Held \in Nat
    BY HeldByPlace DEF QueueIInv, Queue!TypeOK, Queue!MsgQueueAssumption
  <2>3. prev_count[t] = Queue!Held
    BY DEF QueueIInv, Queue!Fill
  <2> QED
    BY <2>1, <2>2, <2>3
<1>2. data[t] \in Message
  BY DEF Queue!Fill, QueueIInv, Carries
<1>3. Queue!Contents \in Seq(Message) /\ Len(Queue!Contents) = Queue!Held
  BY ContentsIsSeq
<1> DEFINE new == Append(Queue!Contents, data[t])
<1>4. /\ new \in Seq(Message) /\ Len(new) = Queue!Held + 1
      /\ \A i \in 1..Queue!Held : new[i] = Queue!Contents[i]
      /\ new[Queue!Held + 1] = data[t]
  BY <1>1, <1>2, <1>3, AppendProperties
<1>5. \A i \in 0..(Queue!Held' - 1) : m_queue'[i] \in Message
  BY DEF QueueIInv
<1>6. /\ Queue!Contents' \in Seq(Message) /\ Len(Queue!Contents') = Queue!Held + 1
      /\ \A i \in 1..(Queue!Held + 1) : Queue!Contents'[i] = m_queue'[i - 1]
  BY <1>1, <1>5 DEF Queue!Contents
<1>7. prev_count[t] \in DOMAIN m_queue
  BY DEF QueueIInv, Queue!TypeOK
<1>8. \A i \in 1..(Queue!Held + 1) : Queue!Contents'[i] = new[i]
  <2>1. ASSUME NEW i \in 1..Queue!Held PROVE Queue!Contents'[i] = new[i]
    <3>1. i - 1 # prev_count[t] /\ i \in 1..(Queue!Held + 1)
      BY <1>1
    <3>2. m_queue'[i - 1] = m_queue[i - 1]
      BY <3>1, <1>1 DEF Queue!Fill, QueueIInv, Queue!TypeOK
    <3> QED
      BY <1>4, <1>6, <3>1, <3>2, ContentsIsSeq
  <2>2. Queue!Contents'[Queue!Held + 1] = data[t]
    <3>1. m_queue'[Queue!Held] = data[t]
      BY <1>1, <1>7 DEF Queue!Fill
    <3> QED
      BY <1>1, <1>6, <3>1
  <2> QED
    BY <1>1, <1>4, <2>1, <2>2
<1> HIDE DEF new
<1>9. Queue!Contents' = new
  BY <1>1, <1>4, <1>6, <1>8, SeqEqual
<1> QED
  BY <1>2, <1>9 DEF new

(* The first message is taken, and the others move up. *)
LEMMA TakeGets ==
  ASSUME QueueIInv, QueueIInv', NEW t \in Thread, Queue!Take(t)
  PROVE  Queue!Contents # <<>> /\ last' = Head(Queue!Contents) /\ Queue!Contents' = Tail(Queue!Contents)
<1>1. Queue!Held' = Queue!Held - 1 /\ Queue!Held \in Nat \ {0} /\ Queue!Held' \in Nat
  BY TakeRemovesOne, HeldByPlace DEF QueueIInv, Queue!TypeOK
<1>2. /\ Queue!Contents \in Seq(Message) /\ Len(Queue!Contents) = Queue!Held
      /\ \A i \in 1..Queue!Held : Queue!Contents[i] = m_queue[i - 1]
  BY ContentsIsSeq
<1>3. Queue!Contents # <<>>
  BY <1>1, <1>2
<1> DEFINE new == Tail(Queue!Contents)
<1>4. /\ new \in Seq(Message) /\ Len(new) = Queue!Held - 1
      /\ \A i \in 1..(Queue!Held - 1) : new[i] = Queue!Contents[i + 1]
      /\ Head(Queue!Contents) = Queue!Contents[1]
  BY <1>1, <1>2, <1>3, HeadTailProperties
<1>5. \A i \in 0..(Queue!Held' - 1) : m_queue'[i] \in Message
  BY DEF QueueIInv
<1>6. /\ Queue!Contents' \in Seq(Message) /\ Len(Queue!Contents') = Queue!Held - 1
      /\ \A i \in 1..(Queue!Held - 1) : Queue!Contents'[i] = m_queue'[i - 1]
  BY <1>1, <1>5 DEF Queue!Contents
<1>7. \A i \in 1..(Queue!Held - 1) : Queue!Contents'[i] = new[i]
  <2>1. ASSUME NEW i \in 1..(Queue!Held - 1) PROVE m_queue'[i - 1] = m_queue[i]
    <3>1. MaxSize \in Nat /\ Queue!Held <= MaxSize
      BY HeldByPlace DEF QueueIInv, Queue!MsgQueueAssumption
    <3>2. i - 1 \in Queue!Index /\ (i - 1) + 1 < MaxSize /\ (i - 1) + 1 = i
      BY <1>1, <3>1 DEF Queue!Index
    <3> QED
      BY <3>2 DEF Queue!Take, Queue!Shifted
  <2>2. ASSUME NEW i \in 1..(Queue!Held - 1) PROVE Queue!Contents[i + 1] = m_queue[i]
    <3>1. i + 1 \in 1..Queue!Held /\ (i + 1) - 1 = i
      BY <1>1
    <3> QED
      BY <1>2, <3>1
  <2> QED
    BY <1>4, <1>6, <2>1, <2>2
<1>8. last' = Head(Queue!Contents)
  BY <1>1, <1>2, <1>4 DEF Queue!Take
<1> HIDE DEF new
<1>9. Queue!Contents' = new
  BY <1>1, <1>4, <1>6, <1>7, SeqEqual
<1> QED
  BY <1>3, <1>8, <1>9 DEF new

(* The other steps leave the channel as it is. *)
LEMMA OthersStutter ==
  ASSUME UNCHANGED <<m_queue, last, parity>>, Queue!Held' = Queue!Held
  PROVE  UNCHANGED <<Queue!Contents, last, parity>>
BY DEF Queue!Contents

LEMMA SameSemaphore ==
  ASSUME QueueIInv, UNCHANGED semaphore,
         \A t \in Thread : (queue_pc'[t] = "fill" <=> queue_pc[t] = "fill")
                          /\ (queue_pc'[t] = "take" <=> queue_pc[t] = "take")
  PROVE  Queue!Held' = Queue!Held
<1>1. (Queue!Filling' <=> Queue!Filling) /\ (Queue!Taking' <=> Queue!Taking)
  BY DEF Queue!Filling, Queue!Taking
<1> QED
  BY <1>1 DEF Queue!Held

LEMMA StreamStep ==
  QueueIInv /\ QueueIInv' /\ [Queue!Next]_(Queue!vars) => [Queue!Stream!Next]_(Queue!Stream!vars)
<1> SUFFICES ASSUME QueueIInv, QueueIInv', [Queue!Next]_(Queue!vars)
             PROVE  [Queue!Stream!Next]_(Queue!Stream!vars)
  OBVIOUS
<1>t. DOMAIN queue_pc = Thread
  BY DEF QueueIInv, Queue!TypeOK
<1>1. ASSUME NEW t \in Thread, NEW m \in Message, Queue!CallAppend(t, m)
      PROVE  UNCHANGED <<Queue!Contents, last, parity>>
  <2>1. Queue!Held' = Queue!Held
    BY <1>1, <1>t, SameSemaphore DEF Queue!CallAppend, Queue!Goes
  <2> QED
    BY <1>1, <2>1, OthersStutter DEF Queue!CallAppend
<1>2. ASSUME NEW t \in Thread,
             Queue!AppendLock(t) \/ Queue!AppendTimeout(t) \/ Queue!Full(t) \/ Queue!Unlock(t)
      PROVE  UNCHANGED <<Queue!Contents, last, parity>>
  <2>1. Queue!Held' = Queue!Held
    BY <1>2, <1>t, SameSemaphore DEF Queue!AppendLock, Queue!AppendTimeout, Queue!Full,
       Queue!Unlock, Queue!Goes
  <2> QED
    BY <1>2, <2>1, OthersStutter DEF Queue!AppendLock, Queue!AppendTimeout, Queue!Full,
       Queue!Unlock
<1>3. ASSUME NEW t \in Thread, Queue!CallRemove(t) \/ Queue!RemoveTimeout(t)
      PROVE  UNCHANGED <<Queue!Contents, last, parity>>
  <2>1. Queue!Held' = Queue!Held
    BY <1>3, <1>t, SameSemaphore DEF Queue!CallRemove, Queue!RemoveTimeout, Queue!Goes
  <2> QED
    BY <1>3, <2>1, OthersStutter DEF Queue!CallRemove, Queue!RemoveTimeout
<1>4. ASSUME NEW t \in Thread, Queue!Count(t) \/ Queue!RemoveLock(t)
      PROVE  UNCHANGED <<Queue!Contents, last, parity>>
  <2>1. Queue!Held' = Queue!Held
    BY <1>4, CountKeepsHeld, RemoveLockKeepsHeld
  <2> QED
    BY <1>4, <2>1, OthersStutter DEF Queue!Count, Queue!RemoveLock
<1>5. ASSUME NEW t \in Thread, Queue!Fill(t) PROVE Queue!Stream!Next
  <2>1. data[t] \in Message /\ Queue!Contents' = Append(Queue!Contents, data[t])
    BY <1>5, FillPuts
  <2> QED
    BY <1>5, <2>1 DEF Queue!Fill, Queue!Stream!Next, Queue!Stream!Put
<1>6. ASSUME NEW t \in Thread, Queue!Take(t) PROVE Queue!Stream!Next
  <2>1. Queue!Contents # <<>> /\ last' = Head(Queue!Contents) /\ Queue!Contents' = Tail(Queue!Contents)
    BY <1>6, TakeGets
  <2> QED
    BY <1>6, <2>1 DEF Queue!Take, Queue!Stream!Next, Queue!Stream!Get
<1>7. CASE UNCHANGED Queue!vars
  BY <1>7 DEF Queue!vars, Queue!Stream!vars, Queue!Contents, Queue!Held, Queue!Filling,
     Queue!Taking
<1> QED
  BY <1>1, <1>2, <1>3, <1>4, <1>5, <1>6, <1>7
  DEF Queue!Next, Queue!Runs, Queue!Append_, Queue!Remove_, Queue!Stream!vars


-----------------------------------------------------------------------------
(* The free list (FreeList.tla).  What is reached from a node along the    *)
(* links is the least set that is closed under them; taking the first node *)
(* or putting one before it changes this set by the one node, because no   *)
(* two links of the list lead to the same node and none to the first.  The *)
(* invariant ListIInv adds who holds the lock and who holds which node.    *)

(* The instance has a Cardinality of its own.                              *)
LEMMA SameCardinality == ASSUME NEW S PROVE List!Cardinality(S) = Cardinality(S)
BY DEF List!Cardinality, Cardinality


(* The nodes that are reached from the node h along the links nx.          *)
Closed(S, h, nx) == ({h} \cup {nx[m] : m \in S}) \ {List!Null} \subseteq S
Reach(h, nx) == {n \in List!Node : \A S \in SUBSET List!Node : Closed(S, h, nx) => n \in S}

LEMMA ReachFacts ==
  ASSUME NEW h \in List!NodeOrNull, NEW nx \in [List!Node -> List!NodeOrNull]
  PROVE  /\ Reach(h, nx) \subseteq List!Node /\ List!Null \notin List!Node
         /\ h # List!Null => h \in Reach(h, nx)
         /\ \A m \in Reach(h, nx) : nx[m] # List!Null => nx[m] \in Reach(h, nx)
         /\ \A S \in SUBSET List!Node : Closed(S, h, nx) => Reach(h, nx) \subseteq S
<1>1. List!Null \notin List!Node /\ List!NodeOrNull = List!Node \cup {List!Null}
  BY DEF List!Null, List!Node, List!NodeOrNull
<1>2. Reach(h, nx) \subseteq List!Node
      /\ \A S \in SUBSET List!Node : Closed(S, h, nx) => Reach(h, nx) \subseteq S
  BY DEF Reach
<1>3. h # List!Null => h \in Reach(h, nx)
  BY <1>1 DEF Reach, Closed
<1>4. ASSUME NEW m \in Reach(h, nx), nx[m] # List!Null
      PROVE  nx[m] \in Reach(h, nx)
  <2>1. m \in List!Node /\ nx[m] \in List!Node
    BY <1>1, <1>4 DEF Reach
  <2>2. ASSUME NEW S \in SUBSET List!Node, Closed(S, h, nx)
        PROVE  nx[m] \in S
    <3>1. m \in S
      BY <2>2 DEF Reach
    <3> QED
      BY <1>4, <2>2, <3>1 DEF Closed
  <2> QED
    BY <2>1, <2>2 DEF Reach
<1> QED
  BY <1>1, <1>2, <1>3, <1>4

(* The first node is taken from the list, *)
LEMMA ReachPop ==
  ASSUME NEW h \in List!Node, NEW nx \in [List!Node -> List!NodeOrNull],
         \A m \in Reach(h, nx) : nx[m] # h
  PROVE  Reach(nx[h], nx) = Reach(h, nx) \ {h}
<1> DEFINE R == Reach(h, nx)
           T == Reach(nx[h], nx)
<1>1. /\ R \subseteq List!Node /\ List!Null \notin List!Node /\ h \in R
      /\ \A m \in R : nx[m] # List!Null => nx[m] \in R
      /\ \A S \in SUBSET List!Node : Closed(S, h, nx) => R \subseteq S
  BY ReachFacts DEF List!NodeOrNull
<1>2. /\ T \subseteq List!Node
      /\ nx[h] # List!Null => nx[h] \in T
      /\ \A m \in T : nx[m] # List!Null => nx[m] \in T
      /\ \A S \in SUBSET List!Node : Closed(S, nx[h], nx) => T \subseteq S
  BY ReachFacts DEF List!NodeOrNull
<1>3. \A m \in R : nx[m] # h
  OBVIOUS
<1> HIDE DEF R, T
<1>4. T \subseteq R \ {h}
  <2>1. Closed(R \ {h}, nx[h], nx)
    BY <1>1, <1>3 DEF Closed
  <2> QED
    BY <1>1, <1>2, <2>1
<1>5. R \subseteq T \cup {h}
  <2>1. Closed(T \cup {h}, h, nx)
    BY <1>2 DEF Closed
  <2> QED
    BY <1>1, <1>2, <2>1
<1> QED
  BY <1>4, <1>5 DEF R, T

(* a node that points at the first is put before it, *)
LEMMA ReachPush ==
  ASSUME NEW h \in List!NodeOrNull, NEW nx \in [List!Node -> List!NodeOrNull],
         NEW n \in List!Node, nx[n] = h
  PROVE  Reach(n, nx) = Reach(h, nx) \cup {n}
<1> DEFINE R == Reach(h, nx)
           T == Reach(n, nx)
<1>1. /\ R \subseteq List!Node /\ (h # List!Null => h \in R)
      /\ \A m \in R : nx[m] # List!Null => nx[m] \in R
      /\ \A S \in SUBSET List!Node : Closed(S, h, nx) => R \subseteq S
  BY ReachFacts
<1>2. /\ T \subseteq List!Node /\ n \in T
      /\ \A m \in T : nx[m] # List!Null => nx[m] \in T
      /\ \A S \in SUBSET List!Node : Closed(S, n, nx) => T \subseteq S
  BY ReachFacts DEF List!NodeOrNull
<1> HIDE DEF R, T
<1>3. T \subseteq R \cup {n}
  <2>1. Closed(R \cup {n}, n, nx)
    BY <1>1 DEF Closed
  <2> QED
    BY <1>1, <1>2, <2>1
<1>4. R \subseteq T
  <2>1. Closed(T, h, nx)
    BY <1>2 DEF Closed
  <2> QED
    BY <1>1, <1>2, <2>1
<1> QED
  BY <1>2, <1>3, <1>4 DEF R, T

(* and the link of a node that is not in the list changes nothing.         *)
LEMMA ReachSame ==
  ASSUME NEW h \in List!NodeOrNull, NEW nx \in [List!Node -> List!NodeOrNull],
         NEW n \in List!Node, NEW v \in List!NodeOrNull, n \notin Reach(h, nx)
  PROVE  Reach(h, [nx EXCEPT ![n] = v]) = Reach(h, nx)
<1> DEFINE my == [nx EXCEPT ![n] = v]
           R == Reach(h, nx)
           T == Reach(h, my)
<1>0. my \in [List!Node -> List!NodeOrNull] /\ \A m \in List!Node : m # n => my[m] = nx[m]
  OBVIOUS
<1> HIDE DEF my
<1>1. /\ R \subseteq List!Node /\ (h # List!Null => h \in R)
      /\ \A m \in R : nx[m] # List!Null => nx[m] \in R
      /\ \A S \in SUBSET List!Node : Closed(S, h, nx) => R \subseteq S
  BY ReachFacts
<1>2. /\ T \subseteq List!Node /\ (h # List!Null => h \in T)
      /\ \A m \in T : my[m] # List!Null => my[m] \in T
      /\ \A S \in SUBSET List!Node : Closed(S, h, my) => T \subseteq S
  BY <1>0, ReachFacts
<1>3. n \notin R
  OBVIOUS
<1> HIDE DEF R, T
<1>4. T \subseteq R
  <2>1. Closed(R, h, my)
    BY <1>0, <1>1, <1>3 DEF Closed
  <2> QED
    BY <1>1, <1>2, <2>1
<1>5. R \subseteq T
  <2>1. \A m \in T \cap R : m \in List!Node /\ m # n /\ my[m] = nx[m]
    BY <1>0, <1>2, <1>3
  <2>2. Closed(T \cap R, h, nx)
    BY <1>1, <1>2, <2>1 DEF Closed
  <2>3. T \cap R \in SUBSET List!Node
    BY <1>1
  <2> QED
    BY <1>1, <2>2, <2>3
<1> QED
  BY <1>4, <1>5 DEF R, T, my

-----------------------------------------------------------------------------
Reached == Reach(free_list_, next_node_)

(* The lock has one owner, the thread that is at the list. *)
AtList == {t \in Thread : list_pc[t] \in {"head", "unlink", "point", "link"}}
LockHeld == lock_ = AtList /\ \A t, u \in AtList : t = u

(* No two links point at the same node, and none at the first. *)
ListInOrder ==
  \A m \in Reached : next_node_[m] # List!Null =>
    /\ next_node_[m] # free_list_
    /\ \A n \in Reached : next_node_[n] = next_node_[m] => n = m

(* The nodes on their way to the list: made, used by nobody, not in it,    *)
(* and each in the hands of one thread.                                    *)
Freeing == {t \in Thread : list_pc[t] \in {"free", "point", "link"}}
Hands ==
  \A t \in Freeing :
    /\ p[t] \in nodes \ Reached /\ owner[p[t]] = {}
    /\ \A u \in Freeing : p[u] = p[t] => u = t

AtWork ==
  \A t \in Thread :
    /\ list_pc[t] = "unlink" => p[t] = free_list_ /\ free_list_ # List!Null
    /\ list_pc[t] = "link" => next_node_[p[t]] = free_list_

Owners ==
  \A n \in List!Node :
    /\ owner[n] = {} \/ \E t \in Thread : owner[n] = {t}
    /\ owner[n] # {} => n \in nodes \ Reached

Made == (\E k \in Nat : nodes = 1..k) /\ Reached \subseteq nodes

Kept ==
  ended = "no" =>
    \A n \in nodes : owner[n] # {} \/ n \in Reached \/ \E t \in Freeing : p[t] = n

Still == ended # "no" => \A t \in Thread : list_pc[t] = "idle"

ListIInv ==
  /\ List!TypeOK /\ LockHeld /\ ListInOrder /\ Hands /\ AtWork /\ Owners /\ Made
  /\ Kept /\ Still

LEMMA ListedIsReached == List!Listed = Reached
BY DEF List!Listed, Reached, Reach, Closed

LEMMA ListImplies == ListIInv => List!FreeListInv
<1> SUFFICES ASSUME ListIInv PROVE List!FreeListInv
  OBVIOUS
<1>1. List!InHand = {p[t] : t \in Freeing}
  BY DEF List!InHand, Freeing
<1>2. List!OneOwner
  <2> SUFFICES ASSUME NEW n \in List!Node
               PROVE  /\ Cardinality(owner[n]) <= 1
                      /\ owner[n] # {} => n \in nodes \ (Reached \cup List!InHand)
    BY ListedIsReached, SameCardinality DEF List!OneOwner
  <2>1. owner[n] = {} \/ \E t \in Thread : owner[n] = {t}
    BY DEF ListIInv, Owners
  <2>2. Cardinality({}) = 0 /\ \A t : Cardinality({t}) = 1
    BY FS_EmptySet, FS_Singleton
  <2>3. Cardinality(owner[n]) <= 1
    <3>1. CASE owner[n] = {}
      BY <2>2, <3>1
    <3>2. ASSUME NEW t \in Thread, owner[n] = {t}
          PROVE  Cardinality(owner[n]) <= 1
      <4>1. Cardinality(owner[n]) = 1
        BY <2>2, <3>2, Zenon
      <4> QED
        BY <4>1
    <3> QED
      BY <2>1, <3>1, <3>2
  <2>4. owner[n] # {} => n \in nodes \ (Reached \cup List!InHand)
    BY <1>1 DEF ListIInv, Owners, Hands
  <2> QED
    BY <2>3, <2>4
<1>3. List!NoneLost
  BY <1>1, ListedIsReached DEF ListIInv, Kept, List!NoneLost
<1> QED
  BY <1>2, <1>3 DEF List!FreeListInv, ListIInv

LEMMA InitList == List!Init => ListIInv
<1> SUFFICES ASSUME List!Init PROVE ListIInv
  OBVIOUS
<1>1. List!TypeOK
  BY DEF List!Init, List!TypeOK, List!NodeOrNull
<1>2. Reached = {}
  <2>1. Closed({}, List!Null, next_node_)
    BY DEF Closed
  <2> QED
    BY <2>1 DEF List!Init, Reached, Reach
<1>3. nodes = 1..0 /\ 0 \in Nat
  BY DEF List!Init
<1>4. AtList = {} /\ Freeing = {}
  BY DEF List!Init, AtList, Freeing
<1> QED
  BY <1>1, <1>2, <1>3, <1>4 DEF List!Init, ListIInv, LockHeld, ListInOrder, Hands, AtWork,
     Owners, Made, Kept, Still

-----------------------------------------------------------------------------
LEMMA ListTypes ==
  ASSUME ListIInv
  PROVE  /\ free_list_ \in List!NodeOrNull /\ next_node_ \in [List!Node -> List!NodeOrNull]
         /\ nodes \subseteq List!Node /\ List!Null \notin List!Node
         /\ List!NodeOrNull = List!Node \cup {List!Null}
         /\ list_pc \in [Thread -> {"idle", "lock", "head", "unlink", "new", "free", "point", "link"}]
         /\ p \in [Thread -> List!NodeOrNull] /\ owner \in [List!Node -> SUBSET Thread]
         /\ Reached \subseteq nodes
         /\ free_list_ # List!Null => free_list_ \in Reached
         /\ \A m \in Reached : next_node_[m] # List!Null => next_node_[m] \in Reached
<1>1. List!Null \notin List!Node /\ List!NodeOrNull = List!Node \cup {List!Null}
  BY DEF List!Null, List!Node, List!NodeOrNull
<1>2. free_list_ \in List!NodeOrNull /\ next_node_ \in [List!Node -> List!NodeOrNull]
  BY DEF ListIInv, List!TypeOK
<1> QED
  BY <1>1, <1>2, ReachFacts DEF ListIInv, List!TypeOK, Made, Reached

(* Steps that leave the list and the owners as they are: a thread that is  *)
(* not at the list moves, or one enters it or leaves it empty-handed.      *)
LEMMA WalkKeeps ==
  ASSUME ListIInv, NEW t \in Thread, NEW place \in {"idle", "lock", "head", "unlink", "new"},
         List!Goes(t, place), t \notin Freeing, list_pc[t] # "unlink",
         UNCHANGED <<free_list_, next_node_, nodes, deleted, owner, ended>>,
         \A u \in Thread : u # t => p'[u] = p[u], p' \in [Thread -> List!NodeOrNull],
         place = "unlink" => p'[t] = free_list_ /\ free_list_ # List!Null,
         \/ place \in {"idle", "lock", "new"} /\ lock_' = lock_ \ {t}
         \/ place \in {"head", "unlink"} /\ lock_' = {t} /\ lock_ \subseteq {t},
         ended = "no"
  PROVE  ListIInv'
<1>0. /\ lock_ = AtList /\ \A u, v \in AtList : u = v
      /\ lock_ \in SUBSET Thread
      /\ list_pc \in [Thread -> {"idle", "lock", "head", "unlink", "new", "free", "point", "link"}]
  BY ListTypes DEF ListIInv, LockHeld, List!TypeOK
<1>1. /\ list_pc'[t] = place /\ \A u \in Thread : u # t => list_pc'[u] = list_pc[u]
      /\ list_pc' \in [Thread -> {"idle", "lock", "head", "unlink", "new", "free", "point", "link"}]
  BY <1>0 DEF List!Goes
<1>2. Reached' = Reached
  BY DEF Reached
<1>3. Freeing' = Freeing /\ \A u \in Freeing : p'[u] = p[u]
  BY <1>1 DEF Freeing
<1>4. List!TypeOK'
  BY <1>0, <1>1 DEF ListIInv, List!TypeOK
<1>5. LockHeld'
  <2>1. CASE place \in {"idle", "lock", "new"} /\ lock_' = lock_ \ {t}
    <3>1. AtList' = AtList \ {t}
      BY <1>1, <2>1 DEF AtList
    <3> QED
      BY <1>0, <2>1, <3>1 DEF LockHeld
  <2>2. CASE place \in {"head", "unlink"} /\ lock_' = {t} /\ lock_ \subseteq {t}
    <3>1. AtList' = AtList \cup {t}
      BY <1>1, <2>2 DEF AtList
    <3> QED
      BY <1>0, <2>2, <3>1 DEF LockHeld
  <2> QED
    BY <2>1, <2>2
<1>6. ListInOrder' /\ Owners' /\ Made'
  BY <1>2 DEF ListIInv, ListInOrder, Owners, Made
<1>7. Hands' /\ Kept'
  BY <1>2, <1>3 DEF ListIInv, Hands, Kept
<1>8. AtWork'
  BY <1>1 DEF ListIInv, AtWork
<1>9. Still'
  BY DEF Still
<1> QED
  BY <1>4, <1>5, <1>6, <1>7, <1>8, <1>9 DEF ListIInv

LEMMA LookKeeps ==
  ASSUME ListIInv, NEW t \in Thread, List!Look(t) \/ List!Lock(t) \/ List!Head(t)
  PROVE  ListIInv'
<1>0. /\ list_pc \in [Thread -> {"idle", "lock", "head", "unlink", "new", "free", "point", "link"}]
      /\ p \in [Thread -> List!NodeOrNull] /\ free_list_ \in List!NodeOrNull
      /\ lock_ = AtList /\ \A u, v \in AtList : u = v
      /\ (list_pc[t] = "idle" \/ ended = "no")
  BY ListTypes DEF ListIInv, LockHeld, List!TypeOK, Still
<1>1. CASE List!Look(t)
  <2>1. PICK place \in {"lock", "new"} : List!Goes(t, place)
    BY <1>1 DEF List!Look
  <2>2. t \notin Freeing /\ t \notin lock_ /\ list_pc[t] # "unlink" /\ ended = "no"
    BY <1>0, <1>1 DEF List!Look, Freeing, AtList
  <2>3. lock_' = lock_ \ {t} /\ p' = p
        /\ UNCHANGED <<free_list_, next_node_, nodes, deleted, owner, ended>>
    BY <1>1, <2>2 DEF List!Look
  <2> QED
    BY <1>0, <2>1, <2>2, <2>3, WalkKeeps
<1>2. CASE List!Lock(t)
  <2>1. /\ List!Goes(t, "head") /\ t \notin Freeing /\ list_pc[t] # "unlink" /\ ended = "no"
        /\ lock_' = {t} /\ lock_ \subseteq {t} /\ p' = p
        /\ UNCHANGED <<free_list_, next_node_, nodes, deleted, owner, ended>>
    BY <1>0, <1>2 DEF List!Lock, Freeing
  <2> QED
    BY <1>0, <2>1, WalkKeeps
<1>3. CASE List!Head(t)
  <2>1. /\ t \notin Freeing /\ list_pc[t] # "unlink" /\ ended = "no" /\ lock_ \subseteq {t}
        /\ t \in lock_
        /\ UNCHANGED <<free_list_, next_node_, nodes, deleted, owner, ended>>
    BY <1>0, <1>3 DEF List!Head, Freeing, AtList
  <2>2. CASE free_list_ # List!Null
    <3>1. /\ List!Goes(t, "unlink") /\ lock_' = {t}
          /\ p' = [p EXCEPT ![t] = free_list_]
      BY <1>3, <2>1, <2>2 DEF List!Head
    <3>2. /\ p' \in [Thread -> List!NodeOrNull] /\ p'[t] = free_list_
          /\ \A u \in Thread : u # t => p'[u] = p[u]
      BY <1>0, <3>1
    <3> QED
      BY <2>1, <2>2, <3>1, <3>2, WalkKeeps
  <2>3. CASE ~(free_list_ # List!Null)
    <3>1. List!Goes(t, "new") /\ lock_' = lock_ \ {t} /\ p' = p
      BY <1>3, <2>3 DEF List!Head
    <3> QED
      BY <1>0, <2>1, <3>1, WalkKeeps
  <2> QED
    BY <2>2, <2>3
<1> QED
  BY <1>1, <1>2, <1>3

LEMMA NewKeeps ==
  ASSUME ListIInv, NEW t \in Thread, List!New(t)
  PROVE  ListIInv'
<1>0. /\ list_pc \in [Thread -> {"idle", "lock", "head", "unlink", "new", "free", "point", "link"}]
      /\ p \in [Thread -> List!NodeOrNull] /\ owner \in [List!Node -> SUBSET Thread]
      /\ free_list_ \in List!NodeOrNull /\ next_node_ \in [List!Node -> List!NodeOrNull]
      /\ Reached \subseteq nodes /\ nodes \subseteq List!Node
      /\ List!Null \in List!NodeOrNull
  BY ListTypes
<1>1. PICK n \in List!Node : /\ n \notin nodes /\ nodes' = nodes \cup {n}
                        /\ \E k \in Nat : nodes' = 1..k
                        /\ next_node_' = [next_node_ EXCEPT ![n] = List!Null]
                        /\ List!Gives(t, n)
  <2>1. PICK k \in Nat : nodes = 1..k
    BY DEF ListIInv, Made
  <2>2. Cardinality(nodes) = k
    <3>1. Cardinality(1..k) = IF 1 > k THEN 0 ELSE k - 1 + 1
      BY <2>1, FS_Interval
    <3> QED
      BY <2>1, <3>1
  <2>3. /\ k + 1 \in List!Node /\ k + 1 \notin nodes
        /\ nodes \cup {k + 1} = 1..(k + 1)
    <3>1. k < MaxNode
      BY <2>2, SameCardinality DEF List!New
    <3> QED
      BY <2>1, <3>1, ListAssumed DEF List!Node, List!FreeListAssumption
  <2>4. /\ nodes' = nodes \cup {k + 1}
        /\ next_node_' = [next_node_ EXCEPT ![k + 1] = List!Null]
        /\ List!Gives(t, k + 1)
    BY <2>2, SameCardinality DEF List!New
  <2>5. \E j \in Nat : nodes' = 1..j
    BY <2>1, <2>3, <2>4
  <2> DEFINE n == k + 1
  <2>6. /\ n \in List!Node /\ n \notin nodes /\ nodes' = nodes \cup {n}
        /\ next_node_' = [next_node_ EXCEPT ![n] = List!Null]
        /\ List!Gives(t, n)
    BY <2>3, <2>4
  <2> HIDE DEF n
  <2> QED
    BY <2>5, <2>6, Zenon
<1>2. /\ list_pc[t] = "new" /\ list_pc'[t] = "idle"
      /\ \A u \in Thread : u # t => list_pc'[u] = list_pc[u]
      /\ list_pc' \in [Thread -> {"idle", "lock", "head", "unlink", "new", "free", "point", "link"}]
      /\ UNCHANGED <<free_list_, deleted, lock_, p, ended>>
  BY <1>0 DEF List!New, List!Goes
<1>3. /\ owner' \in [List!Node -> SUBSET Thread] /\ owner'[n] = {t}
      /\ \A m \in List!Node : m # n => owner'[m] = owner[m]
      /\ next_node_' \in [List!Node -> List!NodeOrNull]
      /\ \A m \in List!Node : m # n => next_node_'[m] = next_node_[m]
  <2>1. owner[n] = {}
    BY <1>1 DEF ListIInv, Owners
  <2> QED
    BY <1>0, <1>1, <2>1 DEF List!Gives
<1>4. Reached' = Reached
  <2>1. n \notin Reached
    BY <1>0, <1>1
  <2>2. Reach(free_list_, [next_node_ EXCEPT ![n] = List!Null]) = Reached
    BY <1>0, <2>1, ReachSame DEF Reached
  <2> QED
    BY <1>1, <1>2, <2>2 DEF Reached
<1>5. AtList' = AtList /\ Freeing' = Freeing
  BY <1>2 DEF AtList, Freeing
<1>6. \A m \in Reached : m \in List!Node /\ m # n /\ next_node_'[m] = next_node_[m]
  BY <1>0, <1>1, <1>3
<1>7. List!TypeOK'
  BY <1>0, <1>1, <1>2, <1>3 DEF ListIInv, List!TypeOK
<1>8. LockHeld' /\ ListInOrder' /\ Made'
  BY <1>0, <1>1, <1>2, <1>4, <1>5, <1>6 DEF ListIInv, LockHeld, ListInOrder, Made
<1>9. Hands'
  BY <1>0, <1>1, <1>2, <1>3, <1>4, <1>5 DEF ListIInv, Hands
<1>10. AtWork'
  <2>1. \A u \in Thread : list_pc[u] = "link" => p[u] \in List!Node /\ p[u] # n
    BY <1>0, <1>1 DEF ListIInv, Hands, Freeing
  <2> QED
    BY <1>2, <1>3, <2>1 DEF ListIInv, AtWork
<1>11. Owners'
  BY <1>0, <1>1, <1>3, <1>4 DEF ListIInv, Owners
<1>12. Kept'
  BY <1>0, <1>1, <1>2, <1>3, <1>4, <1>5 DEF ListIInv, Kept
<1>13. Still'
  BY <1>2 DEF ListIInv, Still
<1> QED
  BY <1>7, <1>8, <1>9, <1>10, <1>11, <1>12, <1>13 DEF ListIInv

(* The head of the list is given to the caller. *)
LEMMA UnlinkKeeps ==
  ASSUME ListIInv, NEW t \in Thread, List!Unlink(t)
  PROVE  ListIInv'
<1>0. /\ list_pc \in [Thread -> {"idle", "lock", "head", "unlink", "new", "free", "point", "link"}]
      /\ p \in [Thread -> List!NodeOrNull] /\ owner \in [List!Node -> SUBSET Thread]
      /\ next_node_ \in [List!Node -> List!NodeOrNull]
      /\ List!NodeOrNull = List!Node \cup {List!Null}
      /\ Reached \subseteq nodes /\ nodes \subseteq List!Node
      /\ lock_ = AtList /\ (\A u, v \in AtList : u = v) /\ lock_ \in SUBSET Thread
  BY ListTypes DEF ListIInv, LockHeld, List!TypeOK
<1>1. PICK h \in List!Node : h = p[t] /\ free_list_ = h /\ h \in Reached
  BY ListTypes DEF List!Unlink, ListIInv, AtWork
<1>2. /\ list_pc[t] = "unlink" /\ list_pc'[t] = "idle"
      /\ \A u \in Thread : u # t => list_pc'[u] = list_pc[u]
      /\ list_pc' \in [Thread -> {"idle", "lock", "head", "unlink", "new", "free", "point", "link"}]
      /\ free_list_' = next_node_[h] /\ List!Gives(t, h) /\ lock_' = lock_ \ {t}
      /\ UNCHANGED <<next_node_, nodes, deleted, p, ended>>
  BY <1>0, <1>1 DEF List!Unlink, List!Goes
<1>3. /\ owner' \in [List!Node -> SUBSET Thread] /\ owner'[h] = {t}
      /\ \A m \in List!Node : m # h => owner'[m] = owner[m]
  <2>1. owner[h] = {}
    BY <1>1 DEF ListIInv, Owners
  <2> QED
    BY <1>0, <1>2, <2>1 DEF List!Gives
<1>4. \A m \in Reached : next_node_[m] # h
  <2>1. h # List!Null
    BY <1>1, ListTypes
  <2> QED
    BY <1>1, <2>1 DEF ListIInv, ListInOrder
<1>5. Reached' = Reached \ {h}
  <2>1. Reach(next_node_[h], next_node_) = Reach(h, next_node_) \ {h}
    BY <1>0, <1>1, <1>4, ReachPop DEF Reached
  <2> QED
    BY <1>1, <1>2, <2>1 DEF Reached
<1>6. AtList' = AtList \ {t} /\ Freeing' = Freeing /\ AtList = {t}
  BY <1>0, <1>2 DEF AtList, Freeing
<1>7. List!TypeOK'
  BY <1>0, <1>1, <1>2, <1>3 DEF ListIInv, List!TypeOK
<1>8. LockHeld' /\ Made'
  BY <1>0, <1>2, <1>5, <1>6 DEF ListIInv, LockHeld, Made
<1>9. ListInOrder'
  BY <1>1, <1>2, <1>5 DEF ListIInv, ListInOrder
<1>10. Hands'
  BY <1>0, <1>1, <1>2, <1>3, <1>5, <1>6 DEF ListIInv, Hands
<1>11. AtWork'
  <2>1. \A u \in Thread : list_pc'[u] # "unlink" /\ list_pc'[u] # "link"
    BY <1>2, <1>6 DEF AtList
  <2> QED
    BY <2>1 DEF AtWork
<1>12. Owners'
  BY <1>0, <1>1, <1>2, <1>3, <1>5 DEF ListIInv, Owners
<1>13. Kept'
  BY <1>0, <1>1, <1>2, <1>3, <1>5, <1>6 DEF ListIInv, Kept
<1>14. Still'
  BY <1>2 DEF ListIInv, Still
<1> QED
  BY <1>7, <1>8, <1>9, <1>10, <1>11, <1>12, <1>13, <1>14 DEF ListIInv

(* The caller gives a node up; it waits for the lock. *)
LEMMA FreeKeeps ==
  ASSUME ListIInv, NEW t \in Thread, NEW n \in List!Node, List!Free(t, n)
  PROVE  ListIInv'
<1>0. /\ list_pc \in [Thread -> {"idle", "lock", "head", "unlink", "new", "free", "point", "link"}]
      /\ p \in [Thread -> List!NodeOrNull] /\ owner \in [List!Node -> SUBSET Thread]
      /\ List!NodeOrNull = List!Node \cup {List!Null}
      /\ Reached \subseteq nodes /\ nodes \subseteq List!Node
  BY ListTypes
<1>1. /\ list_pc[t] = "idle" /\ list_pc'[t] = "free"
      /\ \A u \in Thread : u # t => list_pc'[u] = list_pc[u]
      /\ list_pc' \in [Thread -> {"idle", "lock", "head", "unlink", "new", "free", "point", "link"}]
      /\ p'[t] = n /\ (\A u \in Thread : u # t => p'[u] = p[u])
      /\ p' \in [Thread -> List!NodeOrNull]
      /\ ended = "no"
      /\ UNCHANGED <<free_list_, next_node_, nodes, deleted, lock_, ended>>
  BY <1>0 DEF List!Free, List!Goes
<1>2. /\ owner[n] = {t} /\ n \in nodes \ Reached
      /\ owner' \in [List!Node -> SUBSET Thread] /\ owner'[n] = {}
      /\ \A m \in List!Node : m # n => owner'[m] = owner[m]
  <2>1. owner[n] = {t} /\ n \in nodes \ Reached
    BY DEF List!Free, ListIInv, Owners
  <2> QED
    BY <1>0, <2>1 DEF List!Free
<1>3. Reached' = Reached
  BY <1>1 DEF Reached
<1>4. AtList' = AtList /\ Freeing' = Freeing \cup {t} /\ t \notin Freeing
  BY <1>1 DEF AtList, Freeing
<1>5. List!TypeOK'
  BY <1>0, <1>1, <1>2 DEF ListIInv, List!TypeOK
<1>6. LockHeld' /\ ListInOrder' /\ Made' /\ Still'
  BY <1>1, <1>3, <1>4 DEF ListIInv, LockHeld, ListInOrder, Made, Still
<1>7. Hands'
  <2>1. \A u \in Freeing : u \in Thread /\ u # t /\ p'[u] = p[u] /\ p[u] # n /\ p[u] \in List!Node
    BY <1>0, <1>1, <1>2, <1>4 DEF ListIInv, Hands, Freeing
  <2> QED
    BY <1>1, <1>2, <1>3, <1>4, <2>1 DEF ListIInv, Hands
<1>8. AtWork'
  BY <1>1 DEF ListIInv, AtWork
<1>9. Owners'
  BY <1>1, <1>2, <1>3 DEF ListIInv, Owners
<1>10. Kept'
  <2>1. \A u \in Freeing : u \in Freeing' /\ p'[u] = p[u]
    BY <1>1, <1>4 DEF Freeing
  <2>2. t \in Freeing' /\ p'[t] = n
    BY <1>1, <1>4
  <2> QED
    BY <1>0, <1>1, <1>2, <1>3, <2>1, <2>2 DEF ListIInv, Kept
<1> QED
  BY <1>5, <1>6, <1>7, <1>8, <1>9, <1>10 DEF ListIInv

(* With the lock it points its node at the head. *)
LEMMA FreeLockKeeps ==
  ASSUME ListIInv, NEW t \in Thread, List!FreeLock(t)
  PROVE  ListIInv'
<1>0. /\ list_pc \in [Thread -> {"idle", "lock", "head", "unlink", "new", "free", "point", "link"}]
      /\ lock_ = AtList /\ lock_ = {}
  BY ListTypes DEF ListIInv, LockHeld, List!FreeLock
<1>1. /\ list_pc[t] = "free" /\ list_pc'[t] = "point"
      /\ \A u \in Thread : u # t => list_pc'[u] = list_pc[u]
      /\ list_pc' \in [Thread -> {"idle", "lock", "head", "unlink", "new", "free", "point", "link"}]
      /\ lock_' = {t}
      /\ UNCHANGED <<free_list_, next_node_, nodes, deleted, p, owner, ended>>
  BY <1>0 DEF List!FreeLock, List!Goes
<1>2. Reached' = Reached /\ AtList' = {t} /\ Freeing' = Freeing
  BY <1>0, <1>1 DEF Reached, AtList, Freeing
<1>3. List!TypeOK'
  BY <1>1 DEF ListIInv, List!TypeOK
<1>4. /\ LockHeld' /\ ListInOrder' /\ Made' /\ Hands' /\ Owners' /\ Kept'
  BY <1>1, <1>2 DEF ListIInv, LockHeld, ListInOrder, Made, Hands, Owners, Kept
<1>5. AtWork' /\ Still'
  BY <1>1 DEF ListIInv, AtWork, Still
<1> QED
  BY <1>3, <1>4, <1>5 DEF ListIInv

LEMMA PointKeeps ==
  ASSUME ListIInv, NEW t \in Thread, List!Point(t)
  PROVE  ListIInv'
<1>0. /\ list_pc \in [Thread -> {"idle", "lock", "head", "unlink", "new", "free", "point", "link"}]
      /\ next_node_ \in [List!Node -> List!NodeOrNull] /\ free_list_ \in List!NodeOrNull
      /\ nodes \subseteq List!Node /\ Reached \subseteq nodes
      /\ lock_ = AtList /\ \A u, v \in AtList : u = v
  BY ListTypes DEF ListIInv, LockHeld
<1>1. PICK n \in List!Node : n = p[t] /\ n \notin Reached
  BY <1>0 DEF ListIInv, Hands, Freeing, List!Point
<1>2. /\ list_pc[t] = "point" /\ list_pc'[t] = "link"
      /\ \A u \in Thread : u # t => list_pc'[u] = list_pc[u]
      /\ list_pc' \in [Thread -> {"idle", "lock", "head", "unlink", "new", "free", "point", "link"}]
      /\ next_node_' = [next_node_ EXCEPT ![n] = free_list_]
      /\ next_node_' \in [List!Node -> List!NodeOrNull] /\ next_node_'[n] = free_list_
      /\ UNCHANGED <<free_list_, nodes, deleted, lock_, p, owner, ended>>
  BY <1>0, <1>1 DEF List!Point, List!Goes
<1>3. Reached' = Reached
  <2>1. Reach(free_list_, [next_node_ EXCEPT ![n] = free_list_]) = Reached
    BY <1>0, <1>1, ReachSame DEF Reached
  <2> QED
    BY <1>2, <2>1 DEF Reached
<1>4. AtList' = AtList /\ AtList = {t} /\ Freeing' = Freeing
  BY <1>0, <1>2 DEF AtList, Freeing
<1>5. List!TypeOK'
  BY <1>2 DEF ListIInv, List!TypeOK
<1>6. LockHeld' /\ Made' /\ Hands' /\ Owners' /\ Kept'
  BY <1>2, <1>3, <1>4 DEF ListIInv, LockHeld, Made, Hands, Owners, Kept
<1>7. ListInOrder'
  <2>1. \A m \in Reached : next_node_'[m] = next_node_[m]
    BY <1>0, <1>1, <1>2
  <2> QED
    BY <1>2, <1>3, <2>1 DEF ListIInv, ListInOrder
<1>8. AtWork'
  <2>1. \A u \in Thread : u # t => list_pc'[u] # "unlink" /\ list_pc'[u] # "link"
    BY <1>2, <1>4 DEF AtList
  <2> QED
    BY <1>1, <1>2, <2>1 DEF AtWork
<1>9. Still'
  BY <1>2 DEF ListIInv, Still
<1> QED
  BY <1>5, <1>6, <1>7, <1>8, <1>9 DEF ListIInv

LEMMA LinkKeeps ==
  ASSUME ListIInv, NEW t \in Thread, List!Link(t)
  PROVE  ListIInv'
<1>0. /\ list_pc \in [Thread -> {"idle", "lock", "head", "unlink", "new", "free", "point", "link"}]
      /\ next_node_ \in [List!Node -> List!NodeOrNull] /\ free_list_ \in List!NodeOrNull
      /\ nodes \subseteq List!Node /\ Reached \subseteq nodes
      /\ List!NodeOrNull = List!Node \cup {List!Null} /\ List!Null \notin List!Node
      /\ lock_ = AtList /\ (\A u, v \in AtList : u = v) /\ lock_ \in SUBSET Thread
      /\ free_list_ # List!Null => free_list_ \in Reached
      /\ \A m \in Reached : next_node_[m] # List!Null => next_node_[m] \in Reached
  BY ListTypes DEF ListIInv, LockHeld, List!TypeOK
<1>1. PICK n \in List!Node : /\ n = p[t] /\ n \in nodes \ Reached /\ owner[n] = {}
                        /\ next_node_[n] = free_list_
                        /\ \A u \in Freeing : p[u] = n => u = t
  BY <1>0 DEF ListIInv, Hands, Freeing, AtWork, List!Link
<1>2. /\ list_pc[t] = "link" /\ list_pc'[t] = "idle"
      /\ \A u \in Thread : u # t => list_pc'[u] = list_pc[u]
      /\ list_pc' \in [Thread -> {"idle", "lock", "head", "unlink", "new", "free", "point", "link"}]
      /\ free_list_' = n /\ lock_' = lock_ \ {t}
      /\ UNCHANGED <<next_node_, nodes, deleted, p, owner, ended>>
  BY <1>0, <1>1 DEF List!Link, List!Goes
<1>3. Reached' = Reached \cup {n}
  <2>1. Reach(n, next_node_) = Reach(free_list_, next_node_) \cup {n}
    BY <1>0, <1>1, ReachPush
  <2> QED
    BY <1>2, <2>1 DEF Reached
<1>4. AtList' = {} /\ AtList = {t} /\ Freeing' = Freeing \ {t}
  BY <1>0, <1>2 DEF AtList, Freeing
<1>5. List!TypeOK'
  BY <1>0, <1>1, <1>2 DEF ListIInv, List!TypeOK
<1>6. LockHeld' /\ Made'
  <2>1. LockHeld'
    BY <1>0, <1>2, <1>4 DEF LockHeld
  <2>2. (\E k \in Nat : nodes' = 1..k) /\ Reached' \subseteq nodes'
    BY <1>0, <1>1, <1>2, <1>3 DEF ListIInv, Made
  <2> QED
    BY <2>1, <2>2 DEF Made
<1>7. ListInOrder'
  <2> SUFFICES ASSUME NEW m \in Reached \cup {n}, next_node_[m] # List!Null
               PROVE  /\ next_node_[m] # n
                      /\ \A k \in Reached \cup {n} : next_node_[k] = next_node_[m] => k = m
    BY <1>2, <1>3 DEF ListInOrder
  <2>1. \A k \in Reached : next_node_[k] # List!Null => next_node_[k] # free_list_
    BY DEF ListIInv, ListInOrder
  <2>2. CASE m = n
    BY <1>0, <1>1, <2>1, <2>2
  <2>3. CASE m \in Reached
    <3>1. \A k \in Reached : next_node_[k] = next_node_[m] => k = m
      BY <2>3 DEF ListIInv, ListInOrder
    <3> QED
      BY <1>0, <1>1, <2>1, <2>3, <3>1
  <2> QED
    BY <2>2, <2>3
<1>8. Hands'
  BY <1>1, <1>2, <1>3, <1>4 DEF ListIInv, Hands
<1>9. AtWork'
  <2>1. \A u \in Thread : list_pc'[u] # "unlink" /\ list_pc'[u] # "link"
    BY <1>2, <1>4 DEF AtList
  <2> QED
    BY <2>1 DEF AtWork
<1>10. Owners'
  BY <1>1, <1>2, <1>3 DEF ListIInv, Owners
<1>11. Kept'
  BY <1>1, <1>2, <1>3, <1>4 DEF ListIInv, Kept
<1>12. Still'
  BY <1>2 DEF ListIInv, Still
<1> QED
  BY <1>5, <1>6, <1>7, <1>8, <1>9, <1>10, <1>11, <1>12 DEF ListIInv

(* The destructor: no call is under way, and none follows. *)
LEMMA ClearKeeps ==
  ASSUME ListIInv, List!Clear
  PROVE  ListIInv'
<1>0. /\ free_list_ \in List!NodeOrNull /\ next_node_ \in [List!Node -> List!NodeOrNull]
      /\ List!NodeOrNull = List!Node \cup {List!Null} /\ lock_ = AtList
  BY ListTypes DEF ListIInv, LockHeld
<1>1. /\ \A t \in Thread : list_pc[t] = "idle"
      /\ free_list_' = List!Null /\ ended' \in {"done", "wild"}
      /\ deleted' \subseteq List!Node
      /\ UNCHANGED <<next_node_, nodes, lock_, list_pc, p, owner>>
  BY <1>0 DEF List!Clear
<1>2. Reached' = {}
  <2>1. Closed({}, List!Null, next_node_)
    BY DEF Closed
  <2>2. Reach(List!Null, next_node_) = {}
    BY <2>1 DEF Reach
  <2> QED
    BY <1>1, <2>2 DEF Reached
<1>3. AtList = {} /\ Freeing = {} /\ AtList' = {} /\ Freeing' = {}
  BY <1>1 DEF AtList, Freeing
<1>4. List!TypeOK'
  BY <1>0, <1>1 DEF ListIInv, List!TypeOK
<1>5. LockHeld' /\ ListInOrder' /\ Hands' /\ Kept'
  BY <1>0, <1>1, <1>2, <1>3 DEF LockHeld, ListInOrder, Hands, Kept
<1>6. AtWork' /\ Owners' /\ Made' /\ Still'
  BY <1>1, <1>2 DEF ListIInv, AtWork, Owners, Made, Still
<1> QED
  BY <1>4, <1>5, <1>6 DEF ListIInv

LEMMA ListStep == ListIInv /\ [List!Next]_(List!vars) => ListIInv'
<1> SUFFICES ASSUME ListIInv, [List!Next]_(List!vars) PROVE ListIInv'
  OBVIOUS
<1>1. CASE UNCHANGED List!vars
  BY <1>1 DEF List!vars, ListIInv, List!TypeOK, LockHeld, AtList, ListInOrder, Reached,
     Hands, Freeing,
     AtWork, Owners, Made, Kept, Still
<1> QED
  BY <1>1, LookKeeps, NewKeeps, UnlinkKeeps, FreeKeeps, FreeLockKeeps, PointKeeps,
     LinkKeeps, ClearKeeps DEF List!Next, List!Alloc

-----------------------------------------------------------------------------
(* The threads (ThreadPool.tla).  The invariant is PoolIInv: in every phase *)
(* of the object, which threads were started and which handles are written *)
(* and closed.                                                             *)

(* The handles of the first n places, and the threads that were started. *)
Below(n) == {m_thread_handle[k] : k \in {k \in Pool!Index : k < n}}
Started == {w \in Pool!Worker : worker[w] # "none"}
Failed == Pool!Null \in {m_thread_handle[k] : k \in Pool!Index}

(* The phases of the object: how many handles there are and whether they   *)
(* were written.                                                           *)
Phases ==
  /\ pool_pc \in {"idle", "opening"} => gone = "no"
  /\ pool_pc \in {"waiting", "closing"} => gone = "destructor"
  /\ pool_pc = "end" => gone # "no"
  /\ pool_pc # "end" => m_thread_num < MaxThreadNum
  /\ pool_pc = "opening" => pool_i <= m_thread_num /\ opens > 0 /\ Below(pool_i) \subseteq Pool!Worker
  /\ pool_pc \in {"idle", "waiting", "closing"} => Failed \/ Below(m_thread_num) \subseteq Pool!Worker
  /\ pool_pc \notin {"closing", "end"} => ~wild
  /\ pool_pc # "wild"

(* Before the first open() there is nothing, and in it no start has failed. *)
FirstOpen ==
  /\ opens = 0 => Started = {} /\ ~Failed /\ (pool_pc # "end" => m_thread_num = 0)
  /\ opens = 1 /\ pool_pc = "opening" => ~Failed

(* Without a second open() and a failed start the handles are those of the *)
(* threads that were started, and close() takes one after the other.       *)
Accounted ==
  Pool!Regular =>
    /\ pool_pc \in {"idle", "waiting"} => closed = {} /\ Started = Below(m_thread_num)
    /\ pool_pc = "opening" => closed = {} /\ Started = Below(pool_i)
    /\ pool_pc = "closing" => Pool!Alive = {} /\ Started = closed \cup Below(m_thread_num)
    /\ pool_pc = "end" => Pool!Alive = {} /\ Started = closed

PoolIInv == Pool!TypeOK /\ Pool!WildHasCause /\ Phases /\ FirstOpen /\ Accounted

LEMMA PoolNumbers ==
  /\ MaxThreadNum \in Nat /\ MaxThreadNum > 0 /\ Word \in Nat /\ Word > MaxThreadNum
  /\ Pool!Index = 0..(MaxThreadNum - 1) /\ Pool!Null \notin Pool!Worker
  /\ Pool!Junk \notin Pool!Worker /\ Pool!Null # Pool!Junk
BY PoolAssumed DEF Pool!ThreadPoolAssumption, Pool!Index, Pool!Null, Pool!Junk, Pool!Worker

LEMMA PoolImplies == PoolIInv => Pool!PoolInv
<1> SUFFICES ASSUME PoolIInv PROVE Pool!PoolInv
  OBVIOUS
<1>1. Pool!Regular <=> opens <= 1 /\ ~Failed
  BY DEF Pool!Regular, Failed
<1>2. ASSUME Pool!Regular
      PROVE  Pool!ClosedMeansEnded /\ Pool!HandlesClosed
  <2>1. Pool!ClosedMeansEnded
    BY <1>2 DEF PoolIInv, Accounted, Pool!ClosedMeansEnded
  <2>2. ~wild
    BY <1>1, <1>2 DEF PoolIInv, Pool!WildHasCause, Failed
  <2>3. gone = "yes" => pool_pc = "end"
    BY DEF PoolIInv, Phases, Pool!TypeOK
  <2> QED
    BY <1>2, <2>1, <2>2, <2>3 DEF PoolIInv, Accounted, Pool!HandlesClosed, Started
<1> QED
  BY <1>2 DEF Pool!PoolInv, PoolIInv

LEMMA InitPool == Pool!Init => PoolIInv
<1> SUFFICES ASSUME Pool!Init PROVE PoolIInv
  OBVIOUS
<1>1. Pool!TypeOK
  <2>1. /\ 0 \in 0..(Word - 1) /\ 0 \in 0..(MaxThreadNum - 1) /\ 0 \in 0..MaxOpens
    BY PoolNumbers, PoolAssumed DEF Pool!ThreadPoolAssumption
  <2>2. m_thread_handle \in [Pool!Index -> Pool!Worker \cup {Pool!Null, Pool!Junk}]
    BY DEF Pool!Init
  <2>3. worker \in [Pool!Worker -> {"none", "test", "run", "ended"}]
    BY DEF Pool!Init
  <2>4. closed \subseteq Pool!Worker
    BY DEF Pool!Init
  <2> QED
    BY <2>1, <2>2, <2>3, <2>4 DEF Pool!Init, Pool!TypeOK
<1>2. ~Failed /\ Started = {} /\ Below(m_thread_num) = {}
  BY PoolNumbers DEF Pool!Init, Failed, Started, Below, Pool!Junk, Pool!Null
<1>3. m_thread_num = 0 /\ opens = 0 /\ pool_pc = "idle" /\ gone = "no" /\ ~wild /\ closed = {}
  BY DEF Pool!Init
<1> QED
  BY <1>1, <1>2, <1>3, PoolNumbers DEF PoolIInv, Pool!WildHasCause, Phases, FirstOpen,
     Accounted

(* The threads: a step of one changes who is alive and nothing else.       *)
LEMMA WorkerKeeps ==
  ASSUME PoolIInv, NEW w \in Pool!Worker, Pool!Test(w) \/ Pool!Run(w)
  PROVE  PoolIInv'
<1>0. worker \in [Pool!Worker -> {"none", "test", "run", "ended"}]
  BY DEF PoolIInv, Pool!TypeOK
<1>1. /\ worker[w] \in {"test", "run"}
      /\ worker' \in [Pool!Worker -> {"none", "test", "run", "ended"}]
      /\ worker'[w] \in {"test", "run", "ended"}
      /\ \A v \in Pool!Worker : v # w => worker'[v] = worker[v]
      /\ UNCHANGED <<m_thread_handle, m_thread_num, m_stop_flag, closed, pool_pc, pool_i, opens,
                     gone, wild>>
  BY <1>0 DEF Pool!Test, Pool!Run, Pool!owned
<1>2. Started' = Started /\ Pool!Alive' \subseteq Pool!Alive /\ \A n : Below(n)' = Below(n)
  BY <1>1 DEF Started, Pool!Alive, Below
<1>3. (Failed' <=> Failed) /\ (Pool!Regular' <=> Pool!Regular)
      /\ Below(m_thread_num)' = Below(m_thread_num) /\ Below(pool_i)' = Below(pool_i)
  BY <1>1 DEF Failed, Pool!Regular, Below
<1>4. Pool!TypeOK' /\ Pool!WildHasCause'
  BY <1>1 DEF PoolIInv, Pool!TypeOK, Pool!WildHasCause
<1>5. Phases' /\ FirstOpen'
  BY <1>1, <1>2, <1>3 DEF PoolIInv, Phases, FirstOpen
<1>6. Accounted'
  BY <1>1, <1>2, <1>3 DEF PoolIInv, Accounted
<1> QED
  BY <1>4, <1>5, <1>6 DEF PoolIInv

(* open() *)
LEMMA OpenKeeps ==
  ASSUME PoolIInv, NEW num \in 0..(MaxThreadNum + 1), Pool!Open(num)
  PROVE  PoolIInv'
<1>1. /\ pool_pc = "idle" /\ gone = "no" /\ num < MaxThreadNum /\ ~wild
      /\ opens \in Nat /\ opens < MaxOpens /\ MaxOpens \in Nat
      /\ m_thread_num' = num /\ pool_i' = 0 /\ opens' = opens + 1 /\ pool_pc' = "opening"
      /\ UNCHANGED <<m_thread_handle, m_stop_flag, worker, closed, gone, wild>>
  BY PoolAssumed DEF Pool!Open, Pool!Admits, PoolIInv, Phases, Pool!TypeOK,
     Pool!ThreadPoolAssumption
<1>2. Below(pool_i)' = {}
  BY <1>1, PoolNumbers DEF Below
<1>3. Started' = Started /\ (Failed' <=> Failed)
  BY <1>1 DEF Started, Failed
<1>4. Pool!TypeOK' /\ Pool!WildHasCause'
  BY <1>1, PoolNumbers DEF PoolIInv, Pool!TypeOK, Pool!WildHasCause
<1>5. Phases'
  BY <1>1, <1>2, PoolNumbers DEF Phases
<1>6. opens' = 1 => Started = {} /\ ~Failed /\ closed = {}
  <2> SUFFICES ASSUME opens' = 1
               PROVE  Started = {} /\ ~Failed /\ closed = {}
    OBVIOUS
  <2>1. opens = 0
    BY <1>1
  <2>2. Started = {} /\ ~Failed
    BY <2>1 DEF PoolIInv, FirstOpen
  <2>3. Pool!Regular
    BY <2>1, <2>2 DEF Pool!Regular, Failed
  <2> QED
    BY <1>1, <2>2, <2>3 DEF PoolIInv, Accounted
<1>7. opens' # 0 /\ (Pool!Regular' => opens' = 1)
  BY <1>1 DEF Pool!Regular
<1>8. FirstOpen'
  BY <1>3, <1>6, <1>7 DEF FirstOpen
<1>9. Accounted'
  BY <1>1, <1>2, <1>3, <1>6, <1>7 DEF Accounted
<1> QED
  BY <1>4, <1>5, <1>8, <1>9 DEF PoolIInv

LEMMA StartKeeps ==
  ASSUME PoolIInv, NEW w \in Pool!Worker, Pool!StartThread(w)
  PROVE  PoolIInv'
<1>1. /\ pool_pc = "opening" /\ pool_i < m_thread_num /\ worker[w] = "none"
      /\ pool_i \in Pool!Index /\ pool_i \in Nat /\ m_thread_num < MaxThreadNum
      /\ m_thread_num \in Nat
      /\ m_thread_handle \in [Pool!Index -> Pool!Worker \cup {Pool!Null, Pool!Junk}]
      /\ worker \in [Pool!Worker -> {"none", "test", "run", "ended"}]
      /\ opens \in Nat /\ opens > 0 /\ gone = "no" /\ ~wild
      /\ m_thread_handle' = [m_thread_handle EXCEPT ![pool_i] = w]
      /\ worker' = [worker EXCEPT ![w] = "test"]
      /\ pool_i' = pool_i + 1
      /\ UNCHANGED <<m_thread_num, m_stop_flag, closed, pool_pc, opens, gone, wild>>
  BY PoolNumbers DEF Pool!StartThread, Pool!Fresh, PoolIInv, Phases, Pool!TypeOK
<1>2. /\ m_thread_handle' \in [Pool!Index -> Pool!Worker \cup {Pool!Null, Pool!Junk}]
      /\ m_thread_handle'[pool_i] = w
      /\ \A k \in Pool!Index : k # pool_i => m_thread_handle'[k] = m_thread_handle[k]
      /\ worker' \in [Pool!Worker -> {"none", "test", "run", "ended"}]
      /\ worker'[w] = "test" /\ \A v \in Pool!Worker : v # w => worker'[v] = worker[v]
  BY <1>1
<1>3. Below(pool_i)' = Below(pool_i) \cup {w}
  <2>1. {k \in Pool!Index : k < pool_i'} = {k \in Pool!Index : k < pool_i} \cup {pool_i}
    BY <1>1, PoolNumbers
  <2>2. \A k \in {k \in Pool!Index : k < pool_i} : k \in Pool!Index /\ k # pool_i
    BY <1>1, PoolNumbers
  <2> QED
    BY <1>2, <2>1, <2>2 DEF Below
<1>4. Started' = Started \cup {w}
  BY <1>2 DEF Started
<1>5. opens = 1 => ~Failed
  BY <1>1 DEF PoolIInv, FirstOpen
<1>6. ~Failed => ~Failed'
  BY <1>1, <1>2, PoolNumbers DEF Failed
<1>7. Pool!TypeOK' /\ Pool!WildHasCause'
  BY <1>1, <1>2, PoolNumbers DEF PoolIInv, Pool!TypeOK, Pool!WildHasCause
<1>8. Phases'
  <2>1. pool_i' <= m_thread_num
    BY <1>1
  <2>2. Below(pool_i)' \subseteq Pool!Worker
    BY <1>1, <1>3 DEF PoolIInv, Phases
  <2> QED
    BY <1>1, <2>1, <2>2 DEF Phases
<1>9. FirstOpen'
  BY <1>1, <1>5, <1>6 DEF FirstOpen
<1>10. Accounted'
  <2> SUFFICES ASSUME Pool!Regular'
               PROVE  closed = {} /\ Started' = Below(pool_i)'
    BY <1>1 DEF Accounted
  <2>1. opens = 1
    BY <1>1 DEF Pool!Regular
  <2>2. Pool!Regular
    BY <1>5, <2>1 DEF Pool!Regular, Failed
  <2>3. closed = {} /\ Started = Below(pool_i)
    BY <1>1, <2>2 DEF PoolIInv, Accounted
  <2> QED
    BY <1>3, <1>4, <2>3
<1> QED
  BY <1>7, <1>8, <1>9, <1>10 DEF PoolIInv

LEMMA FailKeeps ==
  ASSUME PoolIInv, Pool!StartFails
  PROVE  PoolIInv'
<1>1. /\ pool_pc = "opening" /\ pool_i < m_thread_num /\ pool_pc' = "idle"
      /\ pool_i \in Pool!Index /\ m_thread_num < MaxThreadNum
      /\ m_thread_handle \in [Pool!Index -> Pool!Worker \cup {Pool!Null, Pool!Junk}]
      /\ opens \in Nat /\ opens > 0 /\ gone = "no" /\ ~wild
      /\ m_thread_handle' = [m_thread_handle EXCEPT ![pool_i] = Pool!Null]
      /\ UNCHANGED <<m_thread_num, m_stop_flag, worker, closed, pool_i, opens, gone, wild>>
  BY PoolNumbers DEF Pool!StartFails, PoolIInv, Phases, Pool!TypeOK
<1>2. /\ m_thread_handle' \in [Pool!Index -> Pool!Worker \cup {Pool!Null, Pool!Junk}]
      /\ m_thread_handle'[pool_i] = Pool!Null
  BY <1>1
<1>3. Failed' /\ ~Pool!Regular'
  BY <1>1, <1>2 DEF Failed, Pool!Regular
<1>4. Pool!TypeOK' /\ Pool!WildHasCause'
  BY <1>1, <1>2 DEF PoolIInv, Pool!TypeOK, Pool!WildHasCause
<1>5. Phases' /\ FirstOpen'
  BY <1>1, <1>3 DEF Phases, FirstOpen
<1> QED
  BY <1>3, <1>4, <1>5 DEF PoolIInv, Accounted

LEMMA OpenedKeeps ==
  ASSUME PoolIInv, Pool!Opened
  PROVE  PoolIInv'
<1>1. /\ pool_pc = "opening" /\ pool_i = m_thread_num /\ pool_pc' = "idle" /\ opens \in Nat
      /\ opens > 0
      /\ UNCHANGED <<m_thread_handle, m_thread_num, m_stop_flag, worker, closed, pool_i,
                     opens, gone, wild>>
  BY DEF Pool!Opened, PoolIInv, Phases, Pool!TypeOK
<1>2. /\ Started' = Started /\ (Failed' <=> Failed) /\ (Pool!Regular' <=> Pool!Regular)
      /\ Below(m_thread_num)' = Below(pool_i)
  BY <1>1 DEF Started, Failed, Pool!Regular, Below
<1>3. Pool!TypeOK' /\ Pool!WildHasCause'
  BY <1>1 DEF PoolIInv, Pool!TypeOK, Pool!WildHasCause
<1>4. Phases'
  BY <1>1, <1>2 DEF PoolIInv, Phases
<1>5. FirstOpen'
  BY <1>1 DEF FirstOpen
<1>6. Accounted'
  BY <1>1, <1>2 DEF PoolIInv, Accounted
<1> QED
  BY <1>3, <1>4, <1>5, <1>6 DEF PoolIInv

(* close(), called by the destructor. *)
LEMMA DestroyKeeps ==
  ASSUME PoolIInv, Pool!Destroy
  PROVE  PoolIInv'
<1>1. /\ pool_pc = "idle" /\ gone' = "destructor" /\ m_stop_flag' \in BOOLEAN
      /\ \/ m_thread_num = 0 /\ pool_pc' = "end"
         \/ pool_pc' = "waiting"
      /\ UNCHANGED <<m_thread_handle, m_thread_num, worker, closed, pool_i, opens, wild>>
  BY DEF Pool!Destroy, Pool!Closes, Pool!Stops, PoolIInv, Pool!TypeOK
<1>2. /\ Started' = Started /\ (Failed' <=> Failed) /\ (Pool!Regular' <=> Pool!Regular)
      /\ Below(m_thread_num)' = Below(m_thread_num) /\ Pool!Alive' = Pool!Alive
  BY <1>1 DEF Started, Failed, Pool!Regular, Below, Pool!Alive
<1>3. Pool!TypeOK' /\ Pool!WildHasCause'
  BY <1>1 DEF PoolIInv, Pool!TypeOK, Pool!WildHasCause
<1>4. Phases'
  BY <1>1, <1>2 DEF PoolIInv, Phases
<1>5. FirstOpen'
  BY <1>1, <1>2 DEF PoolIInv, FirstOpen
<1>6. m_thread_num = 0 => Below(m_thread_num) = {}
  BY PoolNumbers DEF Below
<1>7. Started = {} => Pool!Alive = {}
  BY DEF Started, Pool!Alive
<1>8. Accounted'
  BY <1>1, <1>2, <1>6, <1>7 DEF PoolIInv, Accounted
<1> QED
  BY <1>3, <1>4, <1>5, <1>8 DEF PoolIInv

LEMMA WaitKeeps ==
  ASSUME PoolIInv, Pool!Wait
  PROVE  PoolIInv'
<1>1. /\ pool_pc = "waiting" /\ pool_pc' = "closing" /\ (Pool!CanWait => Pool!WaitOver)
      /\ UNCHANGED <<m_thread_handle, m_thread_num, m_stop_flag, worker, closed, pool_i,
                     opens, gone, wild>>
  BY DEF Pool!Wait
<1>2. /\ Started' = Started /\ (Failed' <=> Failed) /\ (Pool!Regular' <=> Pool!Regular)
      /\ Below(m_thread_num)' = Below(m_thread_num) /\ Pool!Alive' = Pool!Alive
  BY <1>1 DEF Started, Failed, Pool!Regular, Below, Pool!Alive
<1>3. Pool!TypeOK' /\ Pool!WildHasCause'
  BY <1>1 DEF PoolIInv, Pool!TypeOK, Pool!WildHasCause
<1>4. Phases' /\ FirstOpen'
  BY <1>1, <1>2 DEF PoolIInv, Phases, FirstOpen
<1>5. Accounted'
  <2> SUFFICES ASSUME Pool!Regular
               PROVE  Pool!Alive = {} /\ Started = closed \cup Below(m_thread_num)
    BY <1>1, <1>2 DEF Accounted
  <2>1. closed = {} /\ Started = Below(m_thread_num)
    BY <1>1 DEF PoolIInv, Accounted
  <2>2. Below(m_thread_num) = Pool!Handles
    BY DEF Below, Pool!Handles
  <2>3. Pool!CanWait
    <3>1. m_thread_num < MaxThreadNum /\ m_thread_num \in Nat
      BY <1>1, PoolNumbers DEF PoolIInv, Phases, Pool!TypeOK
    <3> QED
      BY <2>1, <2>2, <3>1, PoolNumbers DEF Pool!CanWait, Started
  <2>4. Pool!Alive = {}
    BY <1>1, <2>1, <2>2, <2>3 DEF Pool!WaitOver, Pool!Alive, Started
  <2> QED
    BY <2>1, <2>4
<1> QED
  BY <1>3, <1>4, <1>5 DEF PoolIInv

LEMMA CloseOneKeeps ==
  ASSUME PoolIInv, Pool!CloseOne
  PROVE  PoolIInv'
<1>1. /\ pool_pc = "closing" /\ m_thread_num # 0 /\ m_thread_num \in Nat
      /\ m_thread_num < MaxThreadNum /\ gone = "destructor"
      /\ Failed \/ Below(m_thread_num) \subseteq Pool!Worker
      /\ m_thread_handle \in [Pool!Index -> Pool!Worker \cup {Pool!Null, Pool!Junk}]
      /\ closed \subseteq Pool!Worker
  BY PoolNumbers DEF Pool!CloseOne, Pool!MoreHandles, PoolIInv, Phases, Pool!TypeOK
<1>2. PICK k \in Pool!Index : k = m_thread_num - 1
  BY <1>1, PoolNumbers
<1>3. PICK h \in Pool!Worker \cup {Pool!Null, Pool!Junk} : h = m_thread_handle[k]
  BY <1>1
<1>4. /\ m_thread_num' = k /\ pool_pc' = pool_pc
      /\ closed' = closed \cup ({h} \cap Pool!Worker) /\ wild' = (wild \/ h = Pool!Junk)
      /\ UNCHANGED <<m_thread_handle, m_stop_flag, worker, pool_i, opens, gone>>
  BY <1>2, <1>3 DEF Pool!CloseOne
<1>5. Below(m_thread_num) = Below(m_thread_num)' \cup {h}
  <2>1. {j \in Pool!Index : j < m_thread_num} = {j \in Pool!Index : j < k} \cup {k}
    BY <1>1, <1>2, PoolNumbers
  <2> QED
    BY <1>3, <1>4, <2>1 DEF Below
<1>6. /\ Started' = Started /\ (Failed' <=> Failed)
      /\ (Pool!Regular' <=> Pool!Regular) /\ Pool!Alive' = Pool!Alive
  BY <1>4 DEF Started, Failed, Pool!Regular, Pool!Alive
<1>7. ~Failed => h \in Pool!Worker
  BY <1>1, <1>5
<1>8. Pool!TypeOK'
  <2>1. k \in 0..(Word - 1)
    BY <1>2, PoolNumbers
  <2> QED
    BY <1>1, <1>4, <2>1 DEF PoolIInv, Pool!TypeOK
<1>9. Pool!WildHasCause'
  BY <1>4, <1>7, PoolNumbers DEF PoolIInv, Pool!WildHasCause, Failed
<1>10. Phases'
  <2>1. k < MaxThreadNum
    BY <1>2, PoolNumbers
  <2> QED
    BY <1>1, <1>4, <1>5, <1>6, <2>1 DEF Phases
<1>11. FirstOpen'
  <2>1. opens # 0
    BY <1>1 DEF PoolIInv, FirstOpen
  <2> QED
    BY <1>1, <1>4, <2>1 DEF FirstOpen
<1>12. Accounted'
  <2> SUFFICES ASSUME Pool!Regular
               PROVE  Pool!Alive = {} /\ Started = closed' \cup Below(m_thread_num)'
    BY <1>1, <1>4, <1>6 DEF Accounted
  <2>1. Pool!Alive = {} /\ Started = closed \cup Below(m_thread_num)
    BY <1>1 DEF PoolIInv, Accounted
  <2>2. h \in Pool!Worker
    BY <1>7 DEF Pool!Regular, Failed
  <2> QED
    BY <1>4, <1>5, <2>1, <2>2
<1> QED
  BY <1>8, <1>9, <1>10, <1>11, <1>12 DEF PoolIInv

LEMMA CloseEndsKeeps ==
  ASSUME PoolIInv, Pool!CloseEnds \/ Pool!Destroyed
  PROVE  PoolIInv'
<1>1. /\ pool_pc \in {"closing", "end"} /\ pool_pc' = "end"
      /\ gone' \in {"destructor", "yes"}
      /\ pool_pc = "closing" => m_thread_num = 0
      /\ m_thread_num' \in 0..(Word - 1)
      /\ UNCHANGED <<m_thread_handle, m_stop_flag, worker, closed, pool_i, opens, wild>>
  BY PoolNumbers DEF Pool!CloseEnds, Pool!MoreHandles, Pool!Destroyed, PoolIInv, Phases,
     Pool!TypeOK
<1>2. /\ Started' = Started /\ (Failed' <=> Failed) /\ (Pool!Regular' <=> Pool!Regular)
      /\ Pool!Alive' = Pool!Alive
  BY <1>1 DEF Started, Failed, Pool!Regular, Pool!Alive
<1>3. Pool!TypeOK' /\ Pool!WildHasCause' /\ Phases'
  BY <1>1 DEF PoolIInv, Pool!TypeOK, Pool!WildHasCause, Phases
<1>4. FirstOpen'
  BY <1>1, <1>2 DEF PoolIInv, FirstOpen
<1>5. m_thread_num = 0 => Below(m_thread_num) = {}
  BY PoolNumbers DEF Below
<1>6. Accounted'
  BY <1>1, <1>2, <1>5 DEF PoolIInv, Accounted
<1> QED
  BY <1>3, <1>4, <1>6 DEF PoolIInv

LEMMA PoolStep == PoolIInv /\ [Pool!Next]_(Pool!vars) => PoolIInv'
<1> SUFFICES ASSUME PoolIInv, [Pool!Next]_(Pool!vars) PROVE PoolIInv'
  OBVIOUS
<1>1. CASE UNCHANGED Pool!vars
  BY <1>1 DEF Pool!vars, PoolIInv, Pool!TypeOK, Pool!WildHasCause, Phases, FirstOpen,
     Accounted, Below,
     Started, Failed, Pool!Regular, Pool!Alive
<1>2. ~Pool!Close
  BY DEF Pool!Close
<1> QED
  BY <1>1, <1>2, WorkerKeeps, OpenKeeps, StartKeeps, FailKeeps, OpenedKeeps, DestroyKeeps,
     WaitKeeps, CloseOneKeeps, CloseEndsKeeps DEF Pool!Next, Pool!Owner

-----------------------------------------------------------------------------
(* The log (Log.tla).  The invariant is LogIInv: one thread is inside the  *)
(* lock, the counter belongs to the present file, the two files are files  *)
(* of their kind, and no line is after the one that is about to be written. *)

Day == 1..MaxDay
File == [kind : {"all", "err"}, lines : Seq(Day)]

(* The days of the lines s go up, and none is after d.                     *)
GoUp(s) == \A a, b \in DOMAIN s : a <= b => s[a] <= s[b]
UpTo(s, d) == \A a \in DOMAIN s : s[a] <= d

Inside == {"stamp", "err", "all", "count"}
Stamped == {"err", "all", "count"}

(* One thread is inside the lock, and it owns it.                          *)
OneInside == \A t \in LogThread : log_pc[t] \in Inside => lock = {t}

(* A thread that is about to count has written the line it counts; at the  *)
(* other times the counter is the number of the lines.                     *)
Counted ==
  /\ m_log_line > 0 => m_all_log_file # Logs!NoFile
  /\ Logs!Pending => m_all_log_file # Logs!NoFile
  /\ m_log_line > 0 \/ Logs!Pending =>
       Len(files[m_all_log_file].lines) = m_log_line + (IF Logs!Pending THEN 1 ELSE 0)

(* The two files are files of their kind, and none is too long.            *)
Kinds ==
  /\ m_all_log_file # Logs!NoFile => files[m_all_log_file].kind = "all"
  /\ m_err_log_file # Logs!NoFile => files[m_err_log_file].kind = "err"
  /\ \A f \in DOMAIN files : files[f].kind = "all" => Len(files[f].lines) <= MaxLogLine

(* The lines of a file go up, and none is after the line a thread carries. *)
InTime ==
  /\ \A t \in LogThread : line[t].day <= day
  /\ \A f \in DOMAIN files :
       /\ GoUp(files[f].lines) /\ UpTo(files[f].lines, day)
       /\ \A t \in LogThread : log_pc[t] \in Stamped => UpTo(files[f].lines, line[t].day)

LogIInv ==
  /\ Logs!TypeOK /\ files \in Seq(File)
  /\ OneInside /\ Counted /\ Kinds /\ InTime

-----------------------------------------------------------------------------
LEMMA LogNumbers ==
  /\ MaxLogLine \in Nat /\ MaxLogLine > 0 /\ MaxDay \in Nat /\ MaxDay > 0
  /\ MaxCalls \in Nat /\ Day \subseteq Nat /\ 1 \in Day /\ Logs!NoFile = 0
BY LogAssumed DEF Logs!LogAssumption, Day, Logs!NoFile

(* A day that is not before the lines of s is put behind them.             *)
LEMMA GoUpAppend ==
  ASSUME NEW s \in Seq(Day), NEW d \in Day, GoUp(s), UpTo(s, d)
  PROVE  GoUp(Append(s, d)) /\ UpTo(Append(s, d), d)
<1> DEFINE r == Append(s, d)
<1>1. /\ Len(s) \in Nat /\ DOMAIN s = 1..Len(s) /\ DOMAIN r = 1..(Len(s) + 1)
      /\ \A a \in 1..Len(s) : r[a] = s[a] /\ s[a] \in Day
      /\ r[Len(s) + 1] = d
  BY AppendProperties, LenProperties, ElementOfSeq
<1>2. d \in Nat /\ Day \subseteq Nat
  BY LogNumbers
<1> HIDE DEF r
<1>3. \A a \in DOMAIN r : a \in DOMAIN s \/ a = Len(s) + 1
  BY <1>1
<1>4. UpTo(r, d)
  <2> SUFFICES ASSUME NEW a \in DOMAIN r PROVE r[a] <= d
    BY DEF UpTo
  <2>1. CASE a \in DOMAIN s
    BY <1>1, <2>1 DEF UpTo
  <2>2. CASE a = Len(s) + 1
    BY <1>1, <1>2, <2>2
  <2> QED
    BY <1>3, <2>1, <2>2
<1>5. GoUp(r)
  <2> SUFFICES ASSUME NEW a \in DOMAIN r, NEW b \in DOMAIN r, a <= b
               PROVE  r[a] <= r[b]
    BY DEF GoUp
  <2>1. CASE b = Len(s) + 1
    BY <1>1, <1>4, <2>1 DEF UpTo
  <2>2. CASE b \in DOMAIN s
    <3>1. a \in DOMAIN s
      BY <1>1, <2>2
    <3> QED
      BY <1>1, <2>2, <3>1 DEF GoUp
  <2> QED
    BY <1>3, <2>1, <2>2
<1> QED
  BY <1>4, <1>5 DEF r

LEMMA GoUpShort ==
  ASSUME NEW d \in Day
  PROVE  /\ <<>> \in Seq(Day) /\ GoUp(<<>>) /\ UpTo(<<>>, d) /\ Len(<<>>) = 0
         /\ <<d>> \in Seq(Day) /\ GoUp(<<d>>) /\ UpTo(<<d>>, d) /\ Len(<<d>>) = 1
<1>1. d \in Nat
  BY LogNumbers
<1> QED
  BY <1>1 DEF GoUp, UpTo

LEMMA Later ==
  ASSUME NEW s \in Seq(Day), NEW d \in Day, NEW e \in Day, UpTo(s, d), d <= e
  PROVE  UpTo(s, e)
<1>1. DOMAIN s = 1..Len(s) /\ \A a \in 1..Len(s) : s[a] \in Day
  BY LenProperties, ElementOfSeq
<1> SUFFICES ASSUME NEW a \in DOMAIN s PROVE s[a] <= e
  BY DEF UpTo
<1>2. s[a] <= d /\ s[a] \in Nat /\ d \in Nat /\ e \in Nat
  BY <1>1, LogNumbers DEF UpTo
<1> QED
  BY <1>2

(* What a list of files must be for the lines of day d to come behind.     *)
Ready(fs, d) ==
  /\ fs \in Seq(File)
  /\ \A f \in DOMAIN fs :
       /\ GoUp(fs[f].lines) /\ UpTo(fs[f].lines, d)
       /\ fs[f].kind = "all" => Len(fs[f].lines) <= MaxLogLine

(* gs are the files fs with a new file r; with a line more in the file g.  *)
OneMore(fs, gs, r) == gs = Append(fs, r)
LineMore(fs, gs, g, d) == gs = [fs EXCEPT ![g].lines = Append(@, d)]

(* A new file, with one line or none.                                      *)
LEMMA OpensFile ==
  ASSUME NEW fs, NEW d \in Day, Ready(fs, d), NEW kind \in {"all", "err"},
         NEW lines \in {<<>>, <<d>>}, NEW r, r = [kind |-> kind, lines |-> lines],
         NEW gs, OneMore(fs, gs, r)
  PROVE  /\ Ready(gs, d) /\ Len(gs) = Len(fs) + 1 /\ Len(fs) \in Nat
         /\ gs[Len(fs) + 1] = r
         /\ \A f \in 1..Len(fs) : gs[f] = fs[f]
<1>1. r \in File /\ GoUp(r.lines) /\ UpTo(r.lines, d) /\ Len(r.lines) <= MaxLogLine
  <2>1. lines \in Seq(Day) /\ GoUp(lines) /\ UpTo(lines, d) /\ Len(lines) \in {0, 1}
    BY GoUpShort
  <2>2. \A n \in {0, 1} : n <= MaxLogLine
    BY LogNumbers
  <2>3. Len(lines) <= MaxLogLine
    BY <2>1, <2>2, Zenon
  <2> QED
    BY <2>1, <2>3 DEF File
<1>2. fs \in Seq(File)
  BY DEF Ready
<1>3. /\ gs \in Seq(File) /\ Len(gs) = Len(fs) + 1 /\ Len(fs) \in Nat
      /\ gs[Len(fs) + 1] = r
      /\ \A f \in 1..Len(fs) : gs[f] = fs[f]
  BY <1>1, <1>2, AppendProperties, LenProperties DEF OneMore
<1>4. DOMAIN fs = 1..Len(fs) /\ DOMAIN gs = 1..(Len(fs) + 1)
  BY <1>2, <1>3, LenProperties
<1>5. \A f \in DOMAIN gs : f = Len(fs) + 1 \/ (f \in DOMAIN fs /\ gs[f] = fs[f])
  BY <1>3, <1>4
<1>6. Ready(gs, d)
  <2> SUFFICES ASSUME NEW f \in DOMAIN gs
               PROVE  /\ GoUp(gs[f].lines) /\ UpTo(gs[f].lines, d)
                      /\ gs[f].kind = "all" => Len(gs[f].lines) <= MaxLogLine
    BY <1>3 DEF Ready
  <2>1. CASE f = Len(fs) + 1
    BY <1>1, <1>3, <2>1
  <2>2. CASE f \in DOMAIN fs /\ gs[f] = fs[f]
    BY <2>2 DEF Ready
  <2> QED
    BY <1>5, <2>1, <2>2
<1> QED
  BY <1>3, <1>6

(* A line more in an old file.                                             *)
LEMMA ExtendsFile ==
  ASSUME NEW fs, NEW d \in Day, Ready(fs, d), NEW g \in 1..Len(fs),
         fs[g].kind = "all" => Len(fs[g].lines) < MaxLogLine,
         NEW gs, LineMore(fs, gs, g, d)
  PROVE  /\ Ready(gs, d) /\ Len(gs) = Len(fs)
         /\ gs[g].kind = fs[g].kind
         /\ Len(fs[g].lines) \in Nat /\ Len(gs[g].lines) = Len(fs[g].lines) + 1
         /\ \A f \in 1..Len(fs) : f # g => gs[f] = fs[f]
<1>1. fs \in Seq(File) /\ DOMAIN fs = 1..Len(fs) /\ Len(fs) \in Nat
  BY LenProperties DEF Ready
<1>2. fs[g] \in File /\ fs[g].lines \in Seq(Day)
  <2>1. fs[g] \in File
    BY <1>1, ElementOfSeq
  <2> QED
    BY <2>1 DEF File
<1> DEFINE s == fs[g].lines
<1>3. /\ GoUp(Append(s, d)) /\ UpTo(Append(s, d), d) /\ Append(s, d) \in Seq(Day)
      /\ Len(s) \in Nat /\ Len(Append(s, d)) = Len(s) + 1
  <2>1. GoUp(s) /\ UpTo(s, d)
    BY <1>1 DEF Ready
  <2> QED
    BY <1>2, <2>1, GoUpAppend, AppendProperties, LenProperties
<1> DEFINE new == [fs[g] EXCEPT !.lines = Append(s, d)]
<1>4. new \in File /\ new.lines = Append(s, d) /\ new.kind = fs[g].kind
  BY <1>2, <1>3 DEF File
<1>5. gs = [fs EXCEPT ![g] = new]
  BY <1>1 DEF LineMore
<1>6. /\ gs \in Seq(File) /\ Len(gs) = Len(fs) /\ gs[g] = new
      /\ \A f \in 1..Len(fs) : f # g => gs[f] = fs[f]
  <2> HIDE DEF new, s
  <2>1. /\ [fs EXCEPT ![g] = new] \in Seq(File) /\ Len([fs EXCEPT ![g] = new]) = Len(fs)
        /\ \A f \in 1..Len(fs) : [fs EXCEPT ![g] = new][f] = IF f = g THEN new ELSE fs[f]
    BY <1>1, <1>4, ExceptSeq
  <2> QED
    BY <1>5, <2>1, Zenon
<1>7. DOMAIN gs = 1..Len(fs)
  BY <1>1, <1>5
<1>8. Ready(gs, d)
  <2> SUFFICES ASSUME NEW f \in DOMAIN gs
               PROVE  /\ GoUp(gs[f].lines) /\ UpTo(gs[f].lines, d)
                      /\ gs[f].kind = "all" => Len(gs[f].lines) <= MaxLogLine
    BY <1>6 DEF Ready
  <2>1. CASE f = g
    <3>1. fs[g].kind = "all" => Len(s) + 1 <= MaxLogLine
      BY <1>3, LogNumbers
    <3> HIDE DEF new, s
    <3> QED
      BY <1>3, <1>4, <1>6, <2>1, <3>1
  <2>2. CASE f # g
    BY <1>1, <1>6, <1>7, <2>2 DEF Ready
  <2> QED
    BY <2>1, <2>2
<1> QED
  BY <1>3, <1>4, <1>6, <1>8

-----------------------------------------------------------------------------
LEMMA LogTypes ==
  ASSUME LogIInv
  PROVE  /\ m_log_level \in Logs!Level /\ m_log_line \in 0..(MaxLogLine - 1)
         /\ m_log_line \in Nat
         /\ files \in Seq(File) /\ Len(files) \in Nat /\ DOMAIN files = 1..Len(files)
         /\ m_err_log_file \in 0..Len(files) /\ m_all_log_file \in 0..Len(files)
         /\ log_pc \in [LogThread -> {"idle", "lock", "stamp", "err", "all", "count"}]
         /\ line \in [LogThread -> [level : Logs!Level, day : Day]]
         /\ day \in Day /\ calls \in 0..MaxCalls /\ lock \in SUBSET LogThread
<1>1. m_log_line \in Nat
  BY LogNumbers DEF LogIInv, Logs!TypeOK
<1>2. Len(files) \in Nat /\ DOMAIN files = 1..Len(files)
  BY LenProperties DEF LogIInv
<1> QED
  BY <1>1, <1>2 DEF LogIInv, Logs!TypeOK, Day

(* Conversely the types of the files follow from the sequence.             *)
LEMMA LogTypesEnough ==
  ASSUME NEW fs \in Seq(File), NEW f \in DOMAIN fs
  PROVE  /\ fs[f].kind \in {"all", "err"}
         /\ fs[f].lines \in Seq(1..MaxDay) /\ fs[f].lines \in Seq(Day)
<1>1. DOMAIN fs = 1..Len(fs)
  BY LenProperties
<1>2. fs[f] \in File
  BY <1>1, ElementOfSeq
<1> QED
  BY <1>2 DEF File, Day

(* The thread inside the lock is alone there.                              *)
LEMMA Alone ==
  ASSUME LogIInv, NEW t \in LogThread, log_pc[t] \in Inside
  PROVE  /\ lock = {t} /\ lock \ {t} = {}
         /\ \A u \in LogThread : u # t => log_pc[u] \notin Inside
         /\ Logs!Pending <=> log_pc[t] = "count"
<1>1. lock = {t}
  BY DEF LogIInv, OneInside
<1>2. \A u \in LogThread : u # t => log_pc[u] \notin Inside
  BY <1>1 DEF LogIInv, OneInside
<1> QED
  BY <1>1, <1>2 DEF Logs!Pending, Inside

(* Where it goes, nobody else comes.                                       *)
LEMMA GoesOn ==
  ASSUME LogIInv, NEW t \in LogThread, log_pc[t] \in Inside,
         NEW place \in {"idle", "err", "all", "count"}, Logs!Goes(t, place),
         place = "idle" => lock' = lock \ {t}, place # "idle" => lock' = lock
  PROVE  /\ OneInside' /\ (Logs!Pending' <=> place = "count")
         /\ log_pc' \in [LogThread -> {"idle", "lock", "stamp", "err", "all", "count"}]
         /\ lock' \in SUBSET LogThread
         /\ log_pc'[t] = place /\ \A u \in LogThread : u # t => log_pc'[u] \notin Inside
<1>1. /\ log_pc' \in [LogThread -> {"idle", "lock", "stamp", "err", "all", "count"}]
      /\ log_pc'[t] = place /\ \A u \in LogThread : u # t => log_pc'[u] = log_pc[u]
  BY LogTypes DEF Logs!Goes
<1>2. \A u \in LogThread : u # t => log_pc'[u] \notin Inside
  BY <1>1, Alone
<1>3. OneInside'
  BY <1>1, <1>2, Alone DEF OneInside, Inside
<1>4. Logs!Pending' <=> place = "count"
  BY <1>1, <1>2 DEF Logs!Pending, Inside
<1> QED
  BY <1>1, <1>2, <1>3, <1>4, Alone

(* The lines of a file so far are ready for the line that a thread carries *)
(* and stay behind the clock.                                              *)
LEMMA LinesReady ==
  ASSUME LogIInv, NEW t \in LogThread, log_pc[t] \in Stamped
  PROVE  /\ Ready(files, line[t].day) /\ line[t].day \in Day
         /\ line[t].day <= day
<1>1. files \in Seq(File) /\ line[t].day \in Day
  BY LogTypes
<1> QED
  BY <1>1 DEF LogIInv, InTime, Kinds, Ready

LEMMA LinesStay ==
  ASSUME LogIInv, NEW t \in LogThread, log_pc[t] \in Inside, UNCHANGED <<line, day>>,
         Ready(files', line[t].day), \A u \in LogThread : u # t => log_pc'[u] \notin Inside
  PROVE  /\ InTime'
         /\ \A f \in DOMAIN files' :
              files'[f].kind = "all" => Len(files'[f].lines) <= MaxLogLine
<1>1. line[t].day \in Day /\ line[t].day <= day /\ day \in Day /\ day' = day /\ line' = line
  BY LogTypes DEF LogIInv, InTime
<1>2. files' \in Seq(File)
  BY DEF Ready
<1>3. ASSUME NEW f \in DOMAIN files'
      PROVE  /\ GoUp(files'[f].lines) /\ UpTo(files'[f].lines, line[t].day)
             /\ UpTo(files'[f].lines, day)
  <2>1. files'[f].lines \in Seq(Day)
    BY <1>2, LogTypesEnough
  <2>2. GoUp(files'[f].lines) /\ UpTo(files'[f].lines, line[t].day)
    BY DEF Ready
  <2> QED
    BY <1>1, <2>1, <2>2, Later
<1>4. \A u \in LogThread : log_pc'[u] \in Stamped => u = t
  BY DEF Stamped, Inside
<1>5. \A u \in LogThread : line[u].day <= day
  BY DEF LogIInv, InTime
<1>6. InTime'
  BY <1>1, <1>3, <1>4, <1>5 DEF InTime
<1> QED
  BY <1>6 DEF Ready

-----------------------------------------------------------------------------
(* The initial state, and the steps that write nothing.                    *)
LEMMA InitLog == Logs!Init => LogIInv
<1> SUFFICES ASSUME Logs!Init PROVE LogIInv
  OBVIOUS
<1>1. files = <<>> /\ Len(files) = 0 /\ DOMAIN files = {} /\ files \in Seq(File)
  BY DEF Logs!Init
<1>2. 0 \in 0..(MaxLogLine - 1) /\ 0 \in 0..MaxCalls /\ 1 \in Day
  BY LogNumbers
<1>3. line \in [LogThread -> [level : Logs!Level, day : Day]]
  BY <1>2 DEF Logs!Init, Logs!Level
<1>4. log_pc \in [LogThread -> {"idle", "lock", "stamp", "err", "all", "count"}]
  BY DEF Logs!Init
<1>5. \A t \in LogThread : log_pc[t] = "idle" /\ line[t].day = 1 /\ day = 1
  BY DEF Logs!Init
<1>6. m_log_line = 0 /\ m_err_log_file = 0 /\ m_all_log_file = 0 /\ m_log_level \in Logs!Level
      /\ lock = {} /\ day = 1 /\ calls = 0
  BY DEF Logs!Init, Logs!NoFile, Logs!Level
<1>7. Logs!TypeOK
  <2>1. {m_err_log_file, m_all_log_file} \subseteq 0..Len(files)
    BY <1>1, <1>6
  <2> QED
    BY <1>1, <1>2, <1>3, <1>4, <1>6, <2>1 DEF Logs!TypeOK, Day
<1>8. ~Logs!Pending
  BY <1>5 DEF Logs!Pending
<1>9. OneInside
  BY <1>5 DEF OneInside, Inside
<1>10. Counted /\ Kinds
  BY <1>1, <1>6, <1>8 DEF Counted, Kinds, Logs!NoFile
<1>11. InTime
  BY <1>1, <1>5 DEF InTime
<1> QED
  BY <1>1, <1>7, <1>9, <1>10, <1>11 DEF LogIInv

LEMMA NextDayKeeps == LogIInv /\ Logs!NextDay => LogIInv'
<1> SUFFICES ASSUME LogIInv, Logs!NextDay PROVE LogIInv'
  OBVIOUS
<1>1. /\ day' = day + 1 /\ day < MaxDay /\ day \in Day
      /\ UNCHANGED <<m_log_level, m_log_line, m_err_log_file, m_all_log_file, files,
                     lock, log_pc, line, calls>>
  BY LogTypes DEF Logs!NextDay, Logs!state
<1>2. day' \in Day /\ day <= day'
  BY <1>1, LogNumbers DEF Day
<1>3. Logs!TypeOK' /\ files' \in Seq(File)
  BY <1>1, <1>2 DEF LogIInv, Logs!TypeOK, Day
<1>4. OneInside' /\ Counted' /\ Kinds'
  BY <1>1 DEF LogIInv, OneInside, Counted, Kinds, Logs!Pending
<1>5. \A f \in DOMAIN files : UpTo(files[f].lines, day')
  <2> SUFFICES ASSUME NEW f \in DOMAIN files PROVE UpTo(files[f].lines, day')
    OBVIOUS
  <2>1. files[f].lines \in Seq(Day)
    BY LogTypesEnough DEF LogIInv
  <2>2. UpTo(files[f].lines, day)
    BY DEF LogIInv, InTime
  <2> QED
    BY <1>1, <1>2, <2>1, <2>2, Later
<1>6. \A t \in LogThread : line[t].day <= day'
  <2> SUFFICES ASSUME NEW t \in LogThread PROVE line[t].day <= day'
    OBVIOUS
  <2>1. line[t].day <= day
    BY DEF LogIInv, InTime
  <2>2. line[t].day \in Nat /\ day \in Nat
    BY LogTypes, LogNumbers
  <2> QED
    BY <1>1, <2>1, <2>2
<1>7. InTime'
  BY <1>1, <1>5, <1>6 DEF LogIInv, InTime
<1> QED
  BY <1>3, <1>4, <1>7 DEF LogIInv

LEMMA SetLevelKeeps ==
  ASSUME LogIInv, NEW level \in Logs!Level, Logs!SetLevel(level)
  PROVE  LogIInv'
<1>1. /\ m_log_level' \in Logs!Level
      /\ UNCHANGED <<m_log_line, m_err_log_file, m_all_log_file, files, lock, log_pc, line,
                     day, calls>>
  BY DEF Logs!SetLevel
<1> QED
  BY <1>1 DEF LogIInv, Logs!TypeOK, OneInside, Counted, Kinds, Logs!Pending, InTime

LEMMA LoggingKeeps ==
  ASSUME LogIInv, NEW t \in LogThread, NEW level \in Logs!Level, Logs!Logging(t, level)
  PROVE  LogIInv'
<1>1. /\ log_pc[t] = "idle" /\ calls < MaxCalls /\ calls' = calls + 1
      /\ line' = [line EXCEPT ![t].level = level] /\ log_pc' = [log_pc EXCEPT ![t] = "lock"]
      /\ UNCHANGED <<m_log_level, m_log_line, m_err_log_file, m_all_log_file, files,
                     lock, day>>
  BY DEF Logs!Logging, Logs!Goes, Logs!state
<1>2. /\ log_pc' \in [LogThread -> {"idle", "lock", "stamp", "err", "all", "count"}]
      /\ \A u \in LogThread : log_pc'[u] = log_pc[u] \/ (u = t /\ log_pc'[u] = "lock")
      /\ line' \in [LogThread -> [level : Logs!Level, day : Day]]
      /\ \A u \in LogThread : line'[u].day = line[u].day
  BY <1>1, LogTypes
<1>3. calls' \in 0..MaxCalls
  BY <1>1, LogTypes, LogNumbers
<1>4. Logs!Pending' <=> Logs!Pending
  BY <1>1, <1>2 DEF Logs!Pending
<1>5. \A u \in LogThread : log_pc'[u] \in Inside => log_pc[u] \in Inside
  BY <1>2 DEF Inside
<1>6. \A u \in LogThread : log_pc'[u] \in Stamped => log_pc[u] \in Stamped
  BY <1>2 DEF Stamped
<1>7. Logs!TypeOK' /\ files' \in Seq(File)
  BY <1>1, <1>2, <1>3 DEF LogIInv, Logs!TypeOK, Day
<1>8. OneInside' /\ Counted' /\ Kinds'
  BY <1>1, <1>4, <1>5 DEF LogIInv, OneInside, Counted, Kinds
<1>9. InTime'
  BY <1>1, <1>2, <1>6 DEF LogIInv, InTime
<1> QED
  BY <1>7, <1>8, <1>9 DEF LogIInv

LEMMA EnterKeeps ==
  ASSUME LogIInv, NEW t \in LogThread, Logs!Enter(t)
  PROVE  LogIInv'
<1>1. /\ log_pc[t] = "lock" /\ lock = {}
      /\ UNCHANGED <<m_log_level, m_log_line, m_err_log_file, m_all_log_file, files,
                     line, day, calls>>
  BY DEF Logs!Enter, Logs!MayEnter, Logs!state
<1>2. /\ log_pc' \in [LogThread -> {"idle", "lock", "stamp", "err", "all", "count"}]
      /\ \A u \in LogThread : u # t => log_pc'[u] = log_pc[u]
      /\ \/ log_pc'[t] = "idle" /\ lock' = lock
         \/ log_pc'[t] = "stamp" /\ lock' = {t}
  BY <1>1, LogTypes DEF Logs!Enter, Logs!Goes
<1>3. \A u \in LogThread : log_pc[u] \notin Inside
  BY <1>1 DEF LogIInv, OneInside
<1>4. ~Logs!Pending /\ ~Logs!Pending'
  BY <1>1, <1>2, <1>3 DEF Logs!Pending, Inside
<1>5. OneInside'
  BY <1>2, <1>3 DEF OneInside, Inside
<1>6. \A u \in LogThread : log_pc'[u] \notin Stamped
  BY <1>2, <1>3 DEF Inside, Stamped
<1>7. Logs!TypeOK' /\ files' \in Seq(File)
  BY <1>1, <1>2 DEF LogIInv, Logs!TypeOK
<1>8. Counted' /\ Kinds'
  BY <1>1, <1>4 DEF LogIInv, Counted, Kinds
<1>9. InTime'
  BY <1>1, <1>6 DEF LogIInv, InTime
<1> QED
  BY <1>5, <1>7, <1>8, <1>9 DEF LogIInv

LEMMA StampKeeps ==
  ASSUME LogIInv, NEW t \in LogThread, Logs!Stamp(t)
  PROVE  LogIInv'
<1>1. /\ log_pc[t] = "stamp" /\ log_pc[t] \in Inside
      /\ line' = [line EXCEPT ![t].day = day]
      /\ UNCHANGED <<m_log_level, m_log_line, m_err_log_file, m_all_log_file, files,
                     lock, day, calls>>
  BY DEF Logs!Stamp, Logs!state, Inside
<1>2. PICK place \in {"err", "all"} : Logs!Goes(t, place)
  BY DEF Logs!Stamp
<1>3. /\ OneInside' /\ ~Logs!Pending' /\ ~Logs!Pending
      /\ log_pc' \in [LogThread -> {"idle", "lock", "stamp", "err", "all", "count"}]
      /\ \A u \in LogThread : u # t => log_pc'[u] \notin Inside
  BY <1>1, <1>2, GoesOn, Alone
<1>4. /\ line' \in [LogThread -> [level : Logs!Level, day : Day]] /\ line'[t].day = day
      /\ \A u \in LogThread : u # t => line'[u] = line[u]
  BY <1>1, LogTypes
<1>5. Logs!TypeOK' /\ files' \in Seq(File)
  BY <1>1, <1>3, <1>4 DEF LogIInv, Logs!TypeOK, Day
<1>6. Counted' /\ Kinds'
  BY <1>1, <1>3 DEF LogIInv, Counted, Kinds
<1>7. InTime'
  <2>1. \A u \in LogThread : line'[u].day <= day
    <3> SUFFICES ASSUME NEW u \in LogThread PROVE line'[u].day <= day
      OBVIOUS
    <3>1. day \in Nat
      BY LogTypes, LogNumbers
    <3>2. day <= day
      BY <3>1
    <3> QED
      BY <1>4, <3>2 DEF LogIInv, InTime
  <2>2. \A u \in LogThread : log_pc'[u] \in Stamped => u = t
    BY <1>3 DEF Stamped, Inside
  <2> QED
    BY <1>1, <1>4, <2>1, <2>2 DEF LogIInv, InTime
<1> QED
  BY <1>3, <1>5, <1>6, <1>7 DEF LogIInv

-----------------------------------------------------------------------------
(* The steps that write. *)
LEMMA ErrKeeps ==
  ASSUME LogIInv, NEW t \in LogThread, Logs!LogToErrFile(t) \/ Logs!ErrFileFails(t)
  PROVE  LogIInv'
<1>0. PICK d \in Day : d = line[t].day
  BY LogTypes
<1>1. /\ log_pc[t] = "err" /\ log_pc[t] \in Inside /\ log_pc[t] \in Stamped
      /\ UNCHANGED <<m_log_level, m_log_line, m_all_log_file, line, day, calls>>
  BY DEF Logs!LogToErrFile, Logs!ErrFileFails, Inside, Stamped
<1>2. PICK place \in {"idle", "err", "all", "count"} :
        /\ place # "count" /\ Logs!Goes(t, place)
        /\ place = "idle" => lock' = lock \ {t}
        /\ place # "idle" => lock' = lock
  BY DEF Logs!LogToErrFile, Logs!ErrFileFails, Logs!Thrown, Logs!Leaves
<1>3. /\ OneInside' /\ ~Logs!Pending' /\ ~Logs!Pending
      /\ log_pc' \in [LogThread -> {"idle", "lock", "stamp", "err", "all", "count"}]
      /\ lock' \in SUBSET LogThread
      /\ \A u \in LogThread : u # t => log_pc'[u] \notin Inside
  BY <1>1, <1>2, GoesOn, Alone
<1>4. /\ files \in Seq(File) /\ Len(files) \in Nat /\ DOMAIN files = 1..Len(files)
      /\ m_err_log_file \in 0..Len(files) /\ m_all_log_file \in 0..Len(files)
      /\ day \in Day /\ d \in Day /\ Ready(files, d)
  BY <1>0, <1>1, LogTypes, LinesReady
<1>5. /\ Ready(files', d) /\ Len(files') \in Nat /\ Len(files') >= Len(files)
      /\ m_err_log_file' \in 0..Len(files')
      /\ m_err_log_file' # Logs!NoFile => files'[m_err_log_file'].kind = "err"
      /\ \A f \in 1..Len(files) : files[f].kind = "all" => files'[f] = files[f]
  <2>1. CASE files' = files /\ m_err_log_file' \in {m_err_log_file, Logs!NoFile}
    BY <1>4, <2>1 DEF LogIInv, Kinds, Logs!NoFile
  <2>2. CASE /\ m_err_log_file' = Len(files) + 1
             /\ files' = Logs!NewFile("err", t) \/ files' = Logs!EmptyFile("err")
    <3>1. PICK lines \in {<<>>, <<d>>} :
            OneMore(files, files', [kind |-> "err", lines |-> lines])
      BY <2>2, <1>0 DEF Logs!NewFile, Logs!EmptyFile, OneMore
    <3>2. PICK r : /\ r = [kind |-> "err", lines |-> lines]
                   /\ OneMore(files, files', r) /\ "err" \in {"all", "err"}
      BY <3>1
    <3>3. /\ Ready(files', d) /\ Len(files') = Len(files) + 1
          /\ files'[Len(files) + 1] = r
          /\ \A f \in 1..Len(files) : files'[f] = files[f]
      BY <1>4, <3>1, <3>2, OpensFile
    <3>4. r.kind = "err"
      BY <3>2
    <3> QED
      BY <1>4, <2>2, <3>3, <3>4
  <2>3. CASE m_err_log_file # Logs!NoFile /\ UNCHANGED m_err_log_file
             /\ files' = Logs!OldFile(m_err_log_file, t)
    <3>1. /\ m_err_log_file \in 1..Len(files) /\ files[m_err_log_file].kind = "err"
          /\ ~(files[m_err_log_file].kind = "all")
          /\ LineMore(files, files', m_err_log_file, d)
      BY <1>0, <1>4, <2>3 DEF LogIInv, Kinds, Logs!NoFile, Logs!OldFile, LineMore
    <3>2. /\ Ready(files', d) /\ Len(files') = Len(files)
          /\ files'[m_err_log_file].kind = "err"
          /\ \A f \in 1..Len(files) : f # m_err_log_file => files'[f] = files[f]
      BY <1>4, <3>1, ExtendsFile
    <3> QED
      BY <1>4, <2>3, <3>1, <3>2
  <2>4. \/ files' = files /\ m_err_log_file' \in {m_err_log_file, Logs!NoFile}
        \/ /\ m_err_log_file' = Len(files) + 1
           /\ files' = Logs!NewFile("err", t) \/ files' = Logs!EmptyFile("err")
        \/ /\ m_err_log_file # Logs!NoFile /\ UNCHANGED m_err_log_file
           /\ files' = Logs!OldFile(m_err_log_file, t)
    BY Zenon DEF Logs!LogToErrFile, Logs!ErrFileFails, Logs!Renews
  <2> QED
    BY <2>1, <2>2, <2>3, <2>4
<1>6. m_all_log_file \in 0..Len(files')
  BY <1>4, <1>5
<1>7. m_all_log_file # Logs!NoFile =>
        /\ m_all_log_file \in 1..Len(files) /\ files[m_all_log_file].kind = "all"
        /\ files'[m_all_log_file] = files[m_all_log_file]
  BY <1>4, <1>5 DEF LogIInv, Kinds, Logs!NoFile
<1>8. /\ InTime'
      /\ \A f \in DOMAIN files' :
           files'[f].kind = "all" => Len(files'[f].lines) <= MaxLogLine
  BY <1>0, <1>1, <1>3, <1>5, LinesStay
<1>9. files' \in Seq(File)
  BY <1>5 DEF Ready
<1>10. Logs!TypeOK'
  BY <1>1, <1>3, <1>5, <1>6, <1>9, LogTypesEnough DEF LogIInv, Logs!TypeOK
<1>11. Counted' /\ Kinds'
  BY <1>1, <1>3, <1>5, <1>7, <1>8 DEF LogIInv, Counted, Kinds
<1> QED
  BY <1>3, <1>8, <1>9, <1>10, <1>11 DEF LogIInv

LEMMA AllKeeps ==
  ASSUME LogIInv, NEW t \in LogThread, Logs!LogToFile(t) \/ Logs!AllFileFails(t)
  PROVE  LogIInv'
<1>0. PICK d \in Day : d = line[t].day
  BY LogTypes
<1>1. /\ log_pc[t] = "all" /\ log_pc[t] \in Inside /\ log_pc[t] \in Stamped
      /\ UNCHANGED <<m_log_level, m_log_line, m_err_log_file, line, day, calls>>
  BY DEF Logs!LogToFile, Logs!AllFileFails, Inside, Stamped
<1>2. PICK place \in {"idle", "err", "all", "count"} :
        /\ Logs!Goes(t, place)
        /\ place = "idle" => lock' = lock \ {t}
        /\ place # "idle" => lock' = lock
        /\ \/ place = "idle" /\ Logs!AllFileFails(t)
           \/ place = "count" /\ Logs!LogToFile(t)
  BY DEF Logs!LogToFile, Logs!AllFileFails, Logs!Thrown, Logs!Leaves
<1>3. /\ OneInside' /\ (Logs!Pending' <=> place = "count") /\ ~Logs!Pending
      /\ log_pc' \in [LogThread -> {"idle", "lock", "stamp", "err", "all", "count"}]
      /\ lock' \in SUBSET LogThread
      /\ \A u \in LogThread : u # t => log_pc'[u] \notin Inside
  BY <1>1, <1>2, GoesOn, Alone
<1>4. /\ files \in Seq(File) /\ Len(files) \in Nat /\ DOMAIN files = 1..Len(files)
      /\ m_err_log_file \in 0..Len(files) /\ m_all_log_file \in 0..Len(files)
      /\ day \in Day /\ d \in Day /\ Ready(files, d) /\ m_log_line \in Nat
  BY <1>0, <1>1, LogTypes, LinesReady
(* The counter is 0, or there is a file with as many lines.                *)
<1>5. \/ m_log_line = 0
      \/ m_all_log_file # Logs!NoFile /\ Len(files[m_all_log_file].lines) = m_log_line
  BY <1>3, <1>4 DEF LogIInv, Counted
<1>6. /\ Ready(files', d) /\ Len(files') \in Nat /\ Len(files') >= Len(files)
      /\ m_all_log_file' \in 0..Len(files')
      /\ m_all_log_file' # Logs!NoFile => files'[m_all_log_file'].kind = "all"
      /\ \A f \in 1..Len(files) : files[f].kind = "err" => files'[f] = files[f]
      /\ place = "count" =>
           m_all_log_file' # Logs!NoFile /\ Len(files'[m_all_log_file'].lines) = m_log_line + 1
      /\ m_log_line # 0 /\ place # "count" =>
           m_all_log_file' = m_all_log_file /\ files' = files
  <2> DEFINE Fails == /\ files' = files /\ place # "count"
                      /\ \/ m_all_log_file' = m_all_log_file
                         \/ m_log_line = 0 /\ m_all_log_file' = Logs!NoFile
             Opens == /\ m_all_log_file' = Len(files) + 1 /\ m_log_line = 0
                      /\ \/ files' = Logs!NewFile("all", t)
                         \/ files' = Logs!EmptyFile("all") /\ place # "count"
             Extends == /\ m_all_log_file # Logs!NoFile /\ m_log_line # 0
                        /\ UNCHANGED m_all_log_file
                        /\ files' = Logs!OldFile(m_all_log_file, t) /\ place = "count"
  <2>1. CASE Fails
    BY <1>4, <2>1 DEF LogIInv, Kinds, Logs!NoFile
  <2>2. CASE Opens
    <3>1. PICK lines \in {<<>>, <<d>>} :
            /\ OneMore(files, files', [kind |-> "all", lines |-> lines])
            /\ place = "count" => lines = <<d>>
      BY <2>2, <1>0 DEF Logs!NewFile, Logs!EmptyFile, OneMore
    <3>2. PICK r : /\ r = [kind |-> "all", lines |-> lines]
                   /\ OneMore(files, files', r) /\ "all" \in {"all", "err"}
      BY <3>1
    <3>3. /\ Ready(files', d) /\ Len(files') = Len(files) + 1
          /\ files'[Len(files) + 1] = r
          /\ \A f \in 1..Len(files) : files'[f] = files[f]
      BY <1>4, <3>1, <3>2, OpensFile
    <3>4. r.kind = "all" /\ (place = "count" => Len(r.lines) = 1)
      BY <3>1, <3>2, <1>4, GoUpShort
    <3>5. m_all_log_file' # Logs!NoFile
      BY <1>4, <2>2 DEF Logs!NoFile
    <3> QED
      BY <1>4, <2>2, <3>3, <3>4, <3>5
  <2>3. CASE Extends
    <3>1. /\ m_all_log_file \in 1..Len(files) /\ files[m_all_log_file].kind = "all"
          /\ LineMore(files, files', m_all_log_file, d)
      BY <1>0, <1>4, <2>3 DEF LogIInv, Kinds, Logs!NoFile, Logs!OldFile, LineMore
    <3>2. Len(files[m_all_log_file].lines) < MaxLogLine
      BY <1>5, <2>3, LogTypes, LogNumbers
    <3>3. /\ Ready(files', d) /\ Len(files') = Len(files)
          /\ files'[m_all_log_file].kind = "all"
          /\ Len(files'[m_all_log_file].lines) = Len(files[m_all_log_file].lines) + 1
          /\ \A f \in 1..Len(files) : f # m_all_log_file => files'[f] = files[f]
      BY <1>4, <3>1, <3>2, ExtendsFile
    <3>4. Len(files'[m_all_log_file].lines) = m_log_line + 1
      BY <1>5, <2>3, <3>3
    <3> QED
      BY <1>4, <2>3, <3>1, <3>3, <3>4
  <2>4. Fails \/ Opens \/ Extends
    <3>1. Logs!Renews(m_all_log_file) <=> m_log_line = 0
      BY <1>5 DEF Logs!Renews
    <3>2. m_log_line # 0 => m_all_log_file # Logs!NoFile
      BY <1>5
    <3>3. CASE Logs!AllFileFails(t) /\ place = "idle"
      BY <3>1, <3>2, <3>3, Zenon DEF Logs!AllFileFails
    <3>4. CASE Logs!LogToFile(t) /\ place = "count"
      BY <3>1, <3>2, <3>4, Zenon DEF Logs!LogToFile
    <3> QED
      BY <1>2, <3>3, <3>4
  <2> HIDE DEF Fails, Opens, Extends
  <2> QED
    BY <2>1, <2>2, <2>3, <2>4
<1>7. m_err_log_file \in 0..Len(files')
  BY <1>4, <1>6
<1>8. m_err_log_file # Logs!NoFile => files'[m_err_log_file].kind = "err"
  BY <1>4, <1>6 DEF LogIInv, Kinds, Logs!NoFile
<1>9. /\ InTime'
      /\ \A f \in DOMAIN files' :
           files'[f].kind = "all" => Len(files'[f].lines) <= MaxLogLine
  BY <1>0, <1>1, <1>3, <1>6, LinesStay
<1>10. files' \in Seq(File)
  BY <1>6 DEF Ready
<1>11. Logs!TypeOK'
  BY <1>1, <1>3, <1>6, <1>7, <1>10, LogTypesEnough DEF LogIInv, Logs!TypeOK
<1>12. Kinds'
  BY <1>1, <1>6, <1>8, <1>9 DEF Kinds
<1>13. Counted'
  <2>1. CASE place = "count"
    BY <1>1, <1>3, <1>6, <2>1 DEF Counted
  <2>2. CASE place # "count"
    <3>1. m_log_line # 0 => m_all_log_file' = m_all_log_file /\ files' = files
      BY <1>6, <2>2
    <3>2. ~Logs!Pending' /\ m_log_line' = m_log_line
      BY <1>1, <1>3, <2>2
    <3>3. m_log_line > 0 => m_log_line # 0 /\ m_log_line + 0 = m_log_line
      BY <1>4
    <3> QED
      BY <1>4, <1>5, <3>1, <3>2, <3>3 DEF Counted
  <2> QED
    BY <2>1, <2>2
<1> QED
  BY <1>3, <1>9, <1>10, <1>11, <1>12, <1>13 DEF LogIInv

LEMMA CountKeeps ==
  ASSUME LogIInv, NEW t \in LogThread, Logs!Count(t)
  PROVE  LogIInv'
<1>1. /\ log_pc[t] = "count" /\ log_pc[t] \in Inside
      /\ m_log_line' = Logs!NextLine /\ Logs!Goes(t, "idle") /\ lock' = lock \ {t}
      /\ UNCHANGED <<m_log_level, m_err_log_file, m_all_log_file, files, line, day, calls>>
  BY DEF Logs!Count, Logs!Leaves, Inside
<1>2. /\ OneInside' /\ ~Logs!Pending' /\ Logs!Pending
      /\ log_pc' \in [LogThread -> {"idle", "lock", "stamp", "err", "all", "count"}]
      /\ lock' \in SUBSET LogThread
      /\ \A u \in LogThread : u # t => log_pc'[u] \notin Inside
      /\ log_pc'[t] = "idle"
  BY <1>1, GoesOn, Alone
<1>3. /\ m_log_line' \in 0..(MaxLogLine - 1)
      /\ m_log_line' = m_log_line + 1 \/ m_log_line' = 0
  BY <1>1, LogTypes, LogNumbers DEF Logs!NextLine
<1>4. Logs!TypeOK' /\ files' \in Seq(File)
  BY <1>1, <1>2, <1>3 DEF LogIInv, Logs!TypeOK
<1>5. m_all_log_file # Logs!NoFile /\ Len(files[m_all_log_file].lines) = m_log_line + 1
  BY <1>2 DEF LogIInv, Counted
<1>6. Counted'
  BY <1>1, <1>2, <1>3, <1>5 DEF Counted
<1>7. Kinds'
  BY <1>1 DEF LogIInv, Kinds
<1>8. \A u \in LogThread : log_pc'[u] \notin Stamped
  BY <1>2 DEF Inside, Stamped
<1>9. InTime'
  BY <1>1, <1>8 DEF LogIInv, InTime
<1> QED
  BY <1>2, <1>4, <1>6, <1>7, <1>9 DEF LogIInv

LEMMA LogStep == LogIInv /\ [Logs!Next]_(Logs!vars) => LogIInv'
<1> SUFFICES ASSUME LogIInv, [Logs!Next]_(Logs!vars) PROVE LogIInv'
  OBVIOUS
<1>1. CASE UNCHANGED Logs!vars
  BY <1>1 DEF Logs!vars, LogIInv, Logs!TypeOK, OneInside, Counted, Kinds, Logs!Pending,
     InTime
<1>2. CASE Logs!NextDay
  BY <1>2, NextDayKeeps
<1>3. CASE \E level \in Logs!Level : Logs!SetLevel(level)
  BY <1>3, SetLevelKeeps
<1>4. ASSUME NEW t \in LogThread,
             \/ \E level \in Logs!Level : Logs!Logging(t, level)
             \/ Logs!Enter(t) \/ Logs!Writes(t)
      PROVE  LogIInv'
  BY <1>4, LoggingKeeps, EnterKeeps, StampKeeps, ErrKeeps, AllKeeps,
     CountKeeps DEF Logs!Writes
<1> QED
  BY <1>1, <1>2, <1>3, <1>4 DEF Logs!Next

LEMMA LogImplies == LogIInv => Logs!TypeOK /\ Logs!CountIsLines /\ Logs!TimesGoUp
<1> SUFFICES ASSUME LogIInv PROVE Logs!TypeOK /\ Logs!CountIsLines /\ Logs!TimesGoUp
  OBVIOUS
<1>1. Logs!CountIsLines
  BY DEF LogIInv, Counted, Kinds, Logs!CountIsLines
<1>2. Logs!TimesGoUp
  BY DEF LogIInv, InTime, GoUp, Logs!TimesGoUp
<1> QED
  BY <1>1, <1>2 DEF LogIInv

-----------------------------------------------------------------------------
(* The timers (Timer.tla), whose callbacks leave them alone.  The          *)
(* invariant is TimerIInv.                                                 *)

LEMMA TimersAssumed == Timers!TimerAssumption
BY LibBaseAssumed DEF LibBaseAssumption

(* The instance has a Cardinality of its own.                              *)
LEMMA TimerCardinality == ASSUME NEW S PROVE Timers!Cardinality(S) = Cardinality(S)
BY DEF Timers!Cardinality, Cardinality

(* One slot for each timer that is wanted, and none for another.           *)
OneSlotEach ==
  /\ \A k, l \in Timers!Slot : func[k] = func[l] /\ func[k] # Timers!None => k = l
  /\ \A k \in Timers!Slot : func[k] # Timers!None => func[k] \in live
  /\ \A w \in live : \E k \in Timers!Slot : func[k] = w

(* While run() is in its loop nobody registers and nobody unregisters.     *)
InRun ==
  /\ calling # Timers!None => timer_i \in Timers!Slot /\ func[timer_i] = calling
  /\ \A k \in Timers!Slot : stamp[k] <= now
  /\ timer_i # Slots => ~crashed /\ \A k \in Timers!Slot : stamp[k] <= time_stamp
  /\ \A k \in Timers!Slot : func[k] # Timers!None => interval[k] \in Interval
  /\ crashed => Cardinality(live) = Slots

TimerIInv == Timers!TypeOK /\ OneSlotEach /\ InRun

-----------------------------------------------------------------------------
LEMMA TimerNumbers ==
  /\ Slots \in Nat /\ Slots > 0 /\ Second \in Nat /\ Word \in Nat /\ Word > 0
  /\ Interval \subseteq Nat /\ MaxTime \in Nat /\ MaxTime > 0 /\ MaxTimers \in Nat
  /\ Timers!Slot = 0..(Slots - 1) /\ Timers!Slot \subseteq Nat
  /\ Slots \notin Timers!Slot
  /\ Timers!Timers \subseteq Nat /\ Timers!None \notin Timers!Timers /\ Timers!None = 0
BY TimersAssumed DEF Timers!TimerAssumption, Timers!Slot, Timers!Timers, Timers!None

LEMMA TimerTypes ==
  ASSUME TimerIInv
  PROVE  /\ func \in [Timers!Slot -> Timers!Timers \cup {Timers!None}]
         /\ stamp \in [Timers!Slot -> 0..MaxTime]
         /\ interval \in [Timers!Slot -> Interval \cup {0}]
         /\ now \in 1..MaxTime /\ now \in Nat
         /\ last_time_stamp \in 0..now /\ time_stamp \in 0..now /\ time_stamp \in Nat
         /\ timer_i \in 0..Slots /\ (timer_i \in Timers!Slot <=> timer_i # Slots)
         /\ calling \in Timers!Timers \cup {Timers!None} /\ count \in 0..MaxTimers
         /\ live \subseteq 1..count
<1>1. now \in Nat
  BY TimerNumbers DEF TimerIInv, Timers!TypeOK
<1>2. time_stamp \in Nat
  BY <1>1 DEF TimerIInv, Timers!TypeOK
<1>3. timer_i \in Timers!Slot <=> timer_i # Slots
  BY TimerNumbers DEF TimerIInv, Timers!TypeOK
<1> QED
  BY <1>1, <1>2, <1>3 DEF TimerIInv, Timers!TypeOK

(* A set of numbers up to n has a greatest one: n less the least distance  *)
(* from n.                                                                 *)
LEMMA HasGreatest ==
  ASSUME NEW n \in Nat, NEW S \in SUBSET (0..n), S # {}
  PROVE  \E k \in S : \A l \in S : l <= k
<1> DEFINE T == {n - k : k \in S}
           R == OpToRel(<, Nat)
<1>1. T \subseteq Nat /\ T # {}
  <2>1. \A k \in S : n - k \in Nat
    OBVIOUS
  <2> QED
    BY <2>1
<1>2. \E x \in T : \A y \in T : ~(<<y, x>> \in R)
  <2> HIDE DEF T, R
  <2>1. IsWellFoundedOn(R, Nat)
    BY NatLessThanWellFounded DEF R
  <2> QED
    BY <1>1, <2>1, WFMin
<1>3. PICK x \in T : \A y \in T : ~(y < x)
  BY <1>1, <1>2 DEF OpToRel
<1>4. PICK k \in S : x = n - k
  BY <1>3
<1>5. ASSUME NEW l \in S PROVE l <= k
  <2>1. n - l \in T
    OBVIOUS
  <2>2. ~(n - l < n - k)
    BY <1>3, <1>4, <2>1
  <2>3. n \in Nat /\ l \in Nat /\ k \in Nat
    OBVIOUS
  <2> QED
    BY <2>2, <2>3
<1> QED
  BY <1>5

LEMMA ChosenIsFree ==
  ASSUME Timers!FreeSlots # {}
  PROVE  Timers!Chosen \in Timers!FreeSlots /\ Timers!Chosen \in Timers!Slot
<1>1. Timers!FreeSlots \subseteq Timers!Slot
  BY DEF Timers!FreeSlots
<1>2. \E k \in Timers!FreeSlots : \A l \in Timers!FreeSlots : l <= k
  <2>1. Slots - 1 \in Nat /\ Timers!FreeSlots \subseteq 0..(Slots - 1)
    BY <1>1, TimerNumbers
  <2> QED
    BY <2>1, HasGreatest
<1> QED
  BY <1>1, <1>2 DEF Timers!Chosen

(* Calls come from outside of run(). *)
LEMMA CallsFromOutside ==
  ASSUME TimerIInv, Timers!MayCall
  PROVE  timer_i = Slots /\ ~crashed /\ calling = Timers!None
BY TimerTypes DEF TimerIInv, InRun, Timers!MayCall

-----------------------------------------------------------------------------
LEMMA InitTimers == Timers!Init => TimerIInv
<1> SUFFICES ASSUME Timers!Init PROVE TimerIInv
  OBVIOUS
<1>1. 0 \in 0..MaxTime /\ 1 \in 1..MaxTime /\ Slots \in 0..Slots /\ 0 \in 0..MaxTimers
      /\ 0 \in 0..1
  BY TimerNumbers
<1>2. /\ func \in [Timers!Slot -> Timers!Timers \cup {Timers!None}]
      /\ stamp \in [Timers!Slot -> 0..MaxTime]
      /\ interval \in [Timers!Slot -> Interval \cup {0}]
  BY <1>1 DEF Timers!Init
<1>3. Timers!TypeOK
  BY <1>1, <1>2 DEF Timers!Init, Timers!TypeOK
<1>4. OneSlotEach
  BY DEF Timers!Init, OneSlotEach
<1>5. InRun
  BY DEF Timers!Init, InRun
<1> QED
  BY <1>3, <1>4, <1>5 DEF TimerIInv

LEMMA TickKeeps == TimerIInv /\ Timers!Tick => TimerIInv'
<1> SUFFICES ASSUME TimerIInv, Timers!Tick PROVE TimerIInv'
  OBVIOUS
<1>1. /\ now' = now + 1 /\ now < MaxTime
      /\ UNCHANGED <<func, stamp, interval, last_time_stamp, time_stamp, timer_i, calling,
                     live, count, crashed>>
  BY DEF Timers!Tick, Timers!slots, Timers!frame
<1>2. now' \in 1..MaxTime /\ last_time_stamp \in 0..now' /\ time_stamp \in 0..now'
  BY <1>1, TimerTypes, TimerNumbers
<1>3. Timers!TypeOK'
  BY <1>1, <1>2 DEF TimerIInv, Timers!TypeOK
<1>4. \A k \in Timers!Slot : stamp[k] <= now'
  <2>1. now \in Nat /\ \A k \in Timers!Slot : stamp[k] \in Nat
    BY TimerTypes
  <2> QED
    BY <1>1, <2>1 DEF TimerIInv, InRun
<1>5. OneSlotEach'
  BY <1>1 DEF TimerIInv, OneSlotEach
<1>6. InRun'
  BY <1>1, <1>4 DEF TimerIInv, InRun
<1> QED
  BY <1>3, <1>5, <1>6 DEF TimerIInv

LEMMA RegisterKeeps ==
  ASSUME TimerIInv, NEW iv \in Interval, Timers!Register(iv)
  PROVE  TimerIInv'
<1> DEFINE c == Timers!Chosen
<1>1. /\ timer_i = Slots /\ ~crashed /\ calling = Timers!None /\ count < MaxTimers
      /\ c \in Timers!Slot /\ func[c] = Timers!None
      /\ count' = count + 1 /\ live' = live \cup {count + 1}
      /\ func' = [func EXCEPT ![c] = count + 1]
      /\ stamp' = [stamp EXCEPT ![c] = now]
      /\ interval' = [interval EXCEPT ![c] = iv]
      /\ UNCHANGED <<now, last_time_stamp, time_stamp, timer_i, calling, crashed>>
  BY CallsFromOutside, ChosenIsFree DEF Timers!Register, Timers!FreeSlots,
     Timers!frame, Timers!Kept
<1>2. /\ count + 1 \in Timers!Timers /\ count + 1 \in 0..MaxTimers /\ now \in 0..MaxTime
      /\ live' \subseteq 1..(count + 1)
      /\ count + 1 \notin live
  <2>1. count \in Nat /\ count + 1 <= MaxTimers
    BY <1>1, TimerTypes, TimerNumbers
  <2>2. count + 1 \in Timers!Timers /\ count + 1 \in 0..MaxTimers
    BY <2>1, TimerNumbers DEF Timers!Timers
  <2>3. now \in 0..MaxTime
    BY TimerTypes
  <2>4. live \subseteq 1..count
    BY TimerTypes
  <2> QED
    BY <1>1, <2>1, <2>2, <2>3, <2>4
<1> HIDE DEF c
<1>3. /\ func' \in [Timers!Slot -> Timers!Timers \cup {Timers!None}]
      /\ func'[c] = count + 1
      /\ \A k \in Timers!Slot : k # c => func'[k] = func[k]
  BY <1>1, <1>2, TimerTypes
<1>4. /\ stamp' \in [Timers!Slot -> 0..MaxTime]
      /\ interval' \in [Timers!Slot -> Interval \cup {0}]
      /\ interval'[c] = iv
      /\ \A k \in Timers!Slot : k # c => interval'[k] = interval[k]
  BY <1>1, <1>2, TimerTypes
<1>5. Timers!TypeOK'
  BY <1>1, <1>2, <1>3, <1>4 DEF TimerIInv, Timers!TypeOK
<1>6. OneSlotEach'
  <2>1. \A k \in Timers!Slot : k # c => func[k] # count + 1
    <3>1. \A k \in Timers!Slot : func[k] # Timers!None => func[k] \in live
      BY DEF TimerIInv, OneSlotEach
    <3>2. count + 1 # Timers!None
      BY <1>2, TimerNumbers
    <3> QED
      BY <1>2, <3>1, <3>2
  <2>2. \A k, l \in Timers!Slot : func'[k] = func'[l] /\ func'[k] # Timers!None => k = l
    BY <1>3, <2>1 DEF TimerIInv, OneSlotEach
  <2>3. \A k \in Timers!Slot : func'[k] # Timers!None => func'[k] \in live'
    BY <1>1, <1>3 DEF TimerIInv, OneSlotEach
  <2>4. \A w \in live' : \E k \in Timers!Slot : func'[k] = w
    <3> SUFFICES ASSUME NEW w \in live' PROVE \E k \in Timers!Slot : func'[k] = w
      OBVIOUS
    <3>1. CASE w = count + 1
      BY <1>1, <1>3, <3>1
    <3>2. CASE w \in live
      <4>1. PICK k \in Timers!Slot : func[k] = w
        BY <3>2 DEF TimerIInv, OneSlotEach
      <4>2. w # Timers!None
        BY <3>2, TimerTypes, TimerNumbers
      <4> QED
        BY <1>1, <1>3, <4>1, <4>2
    <3> QED
      BY <1>1, <3>1, <3>2
  <2> QED
    BY <2>2, <2>3, <2>4 DEF OneSlotEach
<1>7. InRun'
  BY <1>1, <1>3, <1>4 DEF TimerIInv, InRun
<1> QED
  BY <1>5, <1>6, <1>7 DEF TimerIInv

(* Without a free slot there are as many timers as slots. *)
LEMMA RegisterFullKeeps == TimerIInv /\ Timers!RegisterFull => TimerIInv'
<1> SUFFICES ASSUME TimerIInv, Timers!RegisterFull PROVE TimerIInv'
  OBVIOUS
<1>1. /\ timer_i = Slots /\ calling = Timers!None /\ Timers!FreeSlots = {}
      /\ crashed' = TRUE
      /\ UNCHANGED <<func, stamp, interval, now, last_time_stamp, time_stamp, timer_i, calling,
                     live, count>>
  BY CallsFromOutside DEF Timers!RegisterFull, Timers!slots, Timers!frame
<1>2. Cardinality(live) = Slots
  <2>1. \A k \in Timers!Slot : func[k] # Timers!None /\ func[k] \in live
    BY <1>1 DEF Timers!FreeSlots, TimerIInv, OneSlotEach
  <2>2. func \in Bijection(Timers!Slot, live)
    <3>1. func \in [Timers!Slot -> live]
      BY <2>1, TimerTypes
    <3>2. \A k, l \in Timers!Slot : func[k] = func[l] => k = l
      BY <2>1 DEF TimerIInv, OneSlotEach
    <3>3. \A w \in live : \E k \in Timers!Slot : func[k] = w
      BY DEF TimerIInv, OneSlotEach
    <3> QED
      BY <3>1, <3>2, <3>3 DEF Bijection, Injection, Surjection, IsInjective
  <2>3. IsFiniteSet(Timers!Slot) /\ Cardinality(Timers!Slot) = Slots
    <3>1. 0 \in Int /\ Slots - 1 \in Int /\ ~(0 > Slots - 1) /\ (Slots - 1) - 0 + 1 = Slots
      BY TimerNumbers
    <3>2. /\ IsFiniteSet(0..(Slots - 1))
          /\ Cardinality(0..(Slots - 1)) = IF 0 > Slots - 1 THEN 0 ELSE (Slots - 1) - 0 + 1
      BY <3>1, FS_Interval
    <3> QED
      BY <3>1, <3>2, TimerNumbers
  <2>4. ExistsBijection(Timers!Slot, live)
    BY <2>2 DEF ExistsBijection
  <2> QED
    BY <2>3, <2>4, FS_Bijection
<1>3. Timers!TypeOK'
  BY <1>1 DEF TimerIInv, Timers!TypeOK
<1>4. OneSlotEach'
  BY <1>1 DEF TimerIInv, OneSlotEach
<1>5. InRun'
  BY <1>1, <1>2 DEF TimerIInv, InRun
<1> QED
  BY <1>3, <1>4, <1>5 DEF TimerIInv

(* A slot that is cleared, whose timer goes. *)
LEMMA ClearedKeeps ==
  ASSUME TimerIInv, NEW k \in Timers!Slot, func[k] # Timers!None, Timers!Cleared(k),
         live' = live \ {func[k]},
         UNCHANGED <<now, count>>
  PROVE  /\ func' \in [Timers!Slot -> Timers!Timers \cup {Timers!None}]
         /\ stamp' \in [Timers!Slot -> 0..MaxTime]
         /\ interval' \in [Timers!Slot -> Interval \cup {0}] /\ live' \subseteq 1..count
         /\ OneSlotEach'
         /\ \A l \in Timers!Slot : func'[l] # Timers!None => interval'[l] \in Interval
         /\ \A l \in Timers!Slot : stamp'[l] = 0 \/ stamp'[l] = stamp[l]
<1>1. /\ func' \in [Timers!Slot -> Timers!Timers \cup {Timers!None}]
      /\ func'[k] = Timers!None
      /\ \A l \in Timers!Slot : l # k => func'[l] = func[l]
  BY TimerTypes DEF Timers!Cleared
<1>2. /\ stamp' \in [Timers!Slot -> 0..MaxTime] /\ stamp'[k] = 0
      /\ \A l \in Timers!Slot : l # k => stamp'[l] = stamp[l]
  <2>1. 0 \in 0..MaxTime
    BY TimerNumbers
  <2> QED
    BY <2>1, TimerTypes DEF Timers!Cleared
<1>3. /\ interval' \in [Timers!Slot -> Interval \cup {0}]
      /\ \A l \in Timers!Slot : l # k => interval'[l] = interval[l]
  BY TimerTypes DEF Timers!Cleared
<1>4. \A l \in Timers!Slot : l # k /\ func[l] # Timers!None => func[l] # func[k]
  BY DEF TimerIInv, OneSlotEach
<1>5. OneSlotEach'
  <2>1. \A m, l \in Timers!Slot : func'[m] = func'[l] /\ func'[m] # Timers!None => m = l
    BY <1>1 DEF TimerIInv, OneSlotEach
  <2>2. \A l \in Timers!Slot : func'[l] # Timers!None => func'[l] \in live'
    BY <1>1, <1>4 DEF TimerIInv, OneSlotEach
  <2>3. \A w \in live' : \E l \in Timers!Slot : func'[l] = w
    BY <1>1 DEF TimerIInv, OneSlotEach
  <2> QED
    BY <2>1, <2>2, <2>3 DEF OneSlotEach
<1>6. \A l \in Timers!Slot : func'[l] # Timers!None => interval'[l] \in Interval
  BY <1>1, <1>3 DEF TimerIInv, InRun
<1> QED
  BY <1>1, <1>2, <1>3, <1>5, <1>6, TimerTypes

LEMMA UnRegisterKeeps ==
  ASSUME TimerIInv, NEW k \in Timers!Slot, Timers!UnRegister(k)
  PROVE  TimerIInv'
<1>1. /\ timer_i = Slots /\ ~crashed /\ calling = Timers!None
      /\ func[k] # Timers!None /\ Timers!Cleared(k) /\ live' = live \ {func[k]}
      /\ UNCHANGED <<now, last_time_stamp, time_stamp, timer_i, calling, count, crashed>>
  BY CallsFromOutside DEF Timers!UnRegister, Timers!frame
<1>2. /\ func' \in [Timers!Slot -> Timers!Timers \cup {Timers!None}]
      /\ stamp' \in [Timers!Slot -> 0..MaxTime]
      /\ interval' \in [Timers!Slot -> Interval \cup {0}] /\ live' \subseteq 1..count
      /\ OneSlotEach'
      /\ \A l \in Timers!Slot : func'[l] # Timers!None => interval'[l] \in Interval
      /\ \A l \in Timers!Slot : stamp'[l] = 0 \/ stamp'[l] = stamp[l]
  BY <1>1, ClearedKeeps
<1>3. Timers!TypeOK'
  BY <1>1, <1>2 DEF TimerIInv, Timers!TypeOK
<1>4. \A l \in Timers!Slot : stamp'[l] <= now
  <2>1. 0 <= now
    BY TimerTypes
  <2>2. \A l \in Timers!Slot : stamp[l] <= now
    BY DEF TimerIInv, InRun
  <2>3. \A l \in Timers!Slot : stamp'[l] = 0 \/ stamp'[l] = stamp[l]
    BY <1>2
  <2> QED
    BY <2>1, <2>2, <2>3
<1>5. InRun'
  BY <1>1, <1>2, <1>4 DEF InRun
<1> QED
  BY <1>2, <1>3, <1>5 DEF TimerIInv

(* run() reads the clock and starts its loop, or does not. *)
LEMMA RunKeeps == TimerIInv /\ Timers!Run => TimerIInv'
<1> SUFFICES ASSUME TimerIInv, Timers!Run PROVE TimerIInv'
  OBVIOUS
<1>1. /\ timer_i = Slots /\ ~crashed /\ calling = Timers!None
      /\ time_stamp' = now /\ last_time_stamp' \in {last_time_stamp, now}
      /\ timer_i' \in {0, Slots}
      /\ UNCHANGED <<func, stamp, interval, now, calling, live, count, crashed>>
  <2>1. timer_i = Slots => calling = Timers!None
    BY TimerTypes, TimerNumbers DEF TimerIInv, InRun
  <2> QED
    BY <2>1 DEF Timers!Run, Timers!slots
<1>2. now \in 0..now /\ {0, Slots} \subseteq 0..Slots
  BY TimerTypes, TimerNumbers
<1>3. last_time_stamp' \in 0..now'
  BY <1>1, <1>2, TimerTypes
<1>4. Timers!TypeOK'
  BY <1>1, <1>2, <1>3 DEF TimerIInv, Timers!TypeOK
<1>5. OneSlotEach'
  BY <1>1 DEF TimerIInv, OneSlotEach
<1>6. \A k \in Timers!Slot : stamp[k] <= now
  BY DEF TimerIInv, InRun
<1>7. InRun'
  BY <1>1, <1>6 DEF TimerIInv, InRun
<1> QED
  BY <1>4, <1>5, <1>7 DEF TimerIInv

(* The loop goes on. *)
LEMMA NextSlot ==
  ASSUME TimerIInv, timer_i \in Timers!Slot
  PROVE  timer_i + 1 \in 0..Slots /\ timer_i # Slots
BY TimerTypes, TimerNumbers DEF Timers!Slot

LEMMA SkipKeeps == TimerIInv /\ Timers!Skip => TimerIInv'
<1> SUFFICES ASSUME TimerIInv, Timers!Skip PROVE TimerIInv'
  OBVIOUS
<1>1. /\ calling = Timers!None /\ timer_i' \in 0..Slots /\ timer_i # Slots
      /\ UNCHANGED <<func, stamp, interval, now, last_time_stamp, time_stamp, calling,
                     live, count, crashed>>
  BY NextSlot DEF Timers!Skip, Timers!slots
<1>2. Timers!TypeOK'
  BY <1>1 DEF TimerIInv, Timers!TypeOK
<1>3. OneSlotEach'
  BY <1>1 DEF TimerIInv, OneSlotEach
<1>4. InRun'
  BY <1>1 DEF TimerIInv, InRun
<1> QED
  BY <1>2, <1>3, <1>4 DEF TimerIInv

LEMMA CallKeeps == TimerIInv /\ Timers!Call => TimerIInv'
<1> SUFFICES ASSUME TimerIInv, Timers!Call PROVE TimerIInv'
  OBVIOUS
<1>1. /\ timer_i \in Timers!Slot /\ calling' = func[timer_i]
      /\ UNCHANGED <<func, stamp, interval, now, last_time_stamp, time_stamp, timer_i,
                     live, count, crashed>>
  BY DEF Timers!Call, Timers!slots
<1>2. Timers!TypeOK'
  <2>1. calling' \in Timers!Timers \cup {Timers!None}
    BY <1>1, TimerTypes
  <2> QED
    BY <1>1, <2>1 DEF TimerIInv, Timers!TypeOK
<1>3. OneSlotEach'
  BY <1>1 DEF TimerIInv, OneSlotEach
<1>4. InRun'
  BY <1>1 DEF TimerIInv, InRun
<1> QED
  BY <1>2, <1>3, <1>4 DEF TimerIInv

LEMMA ReturnsTrueKeeps == TimerIInv /\ Timers!ReturnsTrue => TimerIInv'
<1> SUFFICES ASSUME TimerIInv, Timers!ReturnsTrue PROVE TimerIInv'
  OBVIOUS
<1>1. /\ timer_i \in Timers!Slot /\ timer_i # Slots /\ timer_i' \in 0..Slots
      /\ calling' = Timers!None
      /\ stamp' = [stamp EXCEPT ![timer_i] = time_stamp]
      /\ UNCHANGED <<func, interval, now, last_time_stamp, time_stamp, live, count, crashed>>
  <2>1. timer_i \in Timers!Slot
    BY DEF Timers!ReturnsTrue, TimerIInv, InRun
  <2> QED
    BY <2>1, NextSlot DEF Timers!ReturnsTrue, Timers!Restarted
<1>2. time_stamp \in 0..MaxTime /\ time_stamp <= now /\ time_stamp <= time_stamp
  BY TimerTypes, TimerNumbers
<1>3. stamp' \in [Timers!Slot -> 0..MaxTime]
      /\ \A k \in Timers!Slot : stamp'[k] = stamp[k] \/ stamp'[k] = time_stamp
  BY <1>1, <1>2, TimerTypes
<1>4. Timers!TypeOK'
  BY <1>1, <1>3 DEF TimerIInv, Timers!TypeOK
<1>5. OneSlotEach'
  BY <1>1 DEF TimerIInv, OneSlotEach
<1>6. InRun'
  <2>1. \A k \in Timers!Slot : stamp'[k] <= now' /\ stamp'[k] <= time_stamp'
    BY <1>1, <1>2, <1>3 DEF TimerIInv, InRun
  <2> QED
    BY <1>1, <2>1 DEF TimerIInv, InRun
<1> QED
  BY <1>4, <1>5, <1>6 DEF TimerIInv

LEMMA ReturnsFalseKeeps == TimerIInv /\ Timers!ReturnsFalse => TimerIInv'
<1> SUFFICES ASSUME TimerIInv, Timers!ReturnsFalse PROVE TimerIInv'
  OBVIOUS
<1>1. /\ timer_i \in Timers!Slot /\ timer_i # Slots /\ timer_i' \in 0..Slots
      /\ calling' = Timers!None /\ ~crashed
      /\ func[timer_i] # Timers!None /\ Timers!Cleared(timer_i)
      /\ live' = live \ {func[timer_i]}
      /\ UNCHANGED <<now, last_time_stamp, time_stamp, count, crashed>>
  <2>1. timer_i \in Timers!Slot /\ func[timer_i] = calling
    BY DEF Timers!ReturnsFalse, TimerIInv, InRun
  <2> QED
    BY <2>1, NextSlot DEF Timers!ReturnsFalse
<1>2. /\ func' \in [Timers!Slot -> Timers!Timers \cup {Timers!None}]
      /\ stamp' \in [Timers!Slot -> 0..MaxTime]
      /\ interval' \in [Timers!Slot -> Interval \cup {0}] /\ live' \subseteq 1..count
      /\ OneSlotEach'
      /\ \A l \in Timers!Slot : func'[l] # Timers!None => interval'[l] \in Interval
      /\ \A l \in Timers!Slot : stamp'[l] = 0 \/ stamp'[l] = stamp[l]
  BY <1>1, ClearedKeeps
<1>3. Timers!TypeOK'
  BY <1>1, <1>2 DEF TimerIInv, Timers!TypeOK
<1>4. InRun'
  <2>1. 0 <= now /\ 0 <= time_stamp
    BY TimerTypes
  <2>2. \A k \in Timers!Slot : stamp'[k] <= now' /\ stamp'[k] <= time_stamp'
    BY <1>1, <1>2, <2>1 DEF TimerIInv, InRun
  <2> QED
    BY <1>1, <1>2, <2>2 DEF InRun
<1> QED
  BY <1>2, <1>3, <1>4 DEF TimerIInv

LEMMA UnchangedTimers == TimerIInv /\ UNCHANGED Timers!vars => TimerIInv'
BY DEF TimerIInv, Timers!TypeOK, OneSlotEach, InRun, Timers!vars

LEMMA TimerStep == TimerIInv /\ [Timers!Next]_(Timers!vars) => TimerIInv'
BY TickKeeps, RunKeeps, SkipKeeps, CallKeeps, ReturnsTrueKeeps, ReturnsFalseKeeps,
   RegisterFullKeeps, RegisterKeeps, UnRegisterKeeps, UnchangedTimers
   DEF Timers!Next, Timers!Loop

LEMMA TimerIInvGives == TimerIInv => Timers!TypeOK /\ Timers!SlotsAreLive
<1> SUFFICES ASSUME TimerIInv PROVE Timers!TypeOK /\ Timers!SlotsAreLive
  OBVIOUS
<1>1. \A k \in Timers!Slot : func[k] # Timers!None => func[k] \in live
  BY DEF TimerIInv, OneSlotEach
<1>2. \A w \in live : w # Timers!None /\ \E k \in Timers!Slot : func[k] = w
  BY TimerTypes, TimerNumbers DEF TimerIInv, OneSlotEach
<1>3. {func[k] : k \in Timers!Slot} \ {Timers!None} = live
  BY <1>1, <1>2
<1> QED
  BY <1>3, TimerCardinality DEF TimerIInv, InRun, Timers!SlotsAreLive

(* The word holds the product, so that what is due has waited. *)
LEMMA CallsAreNotEarly ==
  ASSUME TimerIInv, \A iv \in Interval : iv * Second < Word, Timers!Next,
         calling = Timers!None, calling' # Timers!None
  PROVE  now >= stamp[timer_i] + interval[timer_i] * Second
<1>1. Timers!Call
  BY DEF Timers!Next, Timers!Loop, Timers!Tick, Timers!RegisterFull, Timers!Register,
     Timers!UnRegister, Timers!Run, Timers!Skip, Timers!ReturnsTrue,
         Timers!ReturnsFalse, Timers!frame
<1>2. /\ timer_i \in Timers!Slot /\ func[timer_i] # Timers!None
      /\ \/ stamp[timer_i] > time_stamp
         \/ (interval[timer_i] * Second) % Word <= time_stamp - stamp[timer_i]
  BY <1>1 DEF Timers!Call, Timers!Due, Timers!Passed
<1>3. stamp[timer_i] <= time_stamp /\ interval[timer_i] \in Interval
  BY <1>2, TimerTypes DEF TimerIInv, InRun
<1> DEFINE product == interval[timer_i] * Second
<1>4. product \in Nat /\ product < Word /\ Word \in Nat
  <2>1. interval[timer_i] \in Nat /\ Second \in Nat /\ Word \in Nat
    BY <1>3, TimerNumbers
  <2>2. \A a, b \in Nat : a * b \in Nat
    OBVIOUS
  <2> QED
    BY <1>3, <2>1, <2>2
<1>5. product % Word = product
  <2> HIDE DEF product
  <2> QED
    BY <1>4
<1>6. stamp[timer_i] \in Nat /\ time_stamp \in Nat /\ now \in Nat /\ time_stamp <= now
  BY <1>2, TimerTypes
<1>7. product <= time_stamp - stamp[timer_i]
  <2>1. ~(stamp[timer_i] > time_stamp)
    BY <1>3, <1>6
  <2> QED
    BY <1>2, <1>5, <2>1
<1> HIDE DEF product
<1>8. now >= stamp[timer_i] + product
  BY <1>4, <1>6, <1>7
<1> QED
  BY <1>8 DEF product

-----------------------------------------------------------------------------
(* The components together: a step of LibBase is a step of each component, *)
(* or leaves it as it is.                                                  *)
LEMMA StepOfEach ==
  [Next]_vars => /\ [Queue!Next]_(Queue!vars) /\ [List!Next]_(List!vars)
                 /\ [Pool!Next]_(Pool!vars) /\ [Timers!Next]_(Timers!vars)
                 /\ [Logs!Next]_(Logs!vars)
BY DEF Next, QueueMoves, ListMoves, PoolMoves, TimersMove, LogsMove, TreeMoves,
   MapMoves,
       vars, queue, list, pool, timers, logs, Queue!vars, List!vars, Pool!vars,
       Timers!vars, Logs!vars

(* MsgQueue, for any threads and messages, any size: the mutex is owned by *)
(* the one thread between lock and unlock, also after an exception, and    *)
(* the semaphore counts the messages that were written and not yet taken.  *)
THEOREM QueueAgrees == Spec => []QueueInv
<1>1. Init => QueueIInv
  BY InitQueue, LibBaseAssumed DEF Init, LibBaseAssumption
<1>2. QueueIInv /\ [Next]_vars => QueueIInv'
  BY StepOfEach, QueueStep
<1>3. QueueIInv => QueueInv
  <2> SUFFICES ASSUME QueueIInv PROVE Queue!CountAgrees
    BY DEF QueueIInv, QueueInv, Queue!QueueInv
  <2>1. \A i \in 1..Queue!Held : Queue!Contents[i] \in Message
    BY HeldByPlace DEF QueueIInv, Queue!Contents
  <2> QED
    BY <2>1 DEF QueueIInv, Queue!CountAgrees
<1> QED
  BY <1>1, <1>2, <1>3, PTL DEF Spec

(* The queue implements the FIFO channel: every message that append() has  *)
(* accepted is removed once and in order, for any threads and any size.    *)
THEOREM ImplementsStream == Spec => QueueStreamSpec
<1>1. Init => QueueIInv /\ Queue!Stream!Init
  <2> SUFFICES ASSUME Init PROVE QueueIInv /\ Queue!Stream!Init
    OBVIOUS
  <2>1. QueueIInv /\ Queue!Init
    BY InitQueue, LibBaseAssumed DEF Init, LibBaseAssumption
  <2>2. Queue!Held = 0
    BY <2>1 DEF Queue!Init, Queue!Held, Queue!Filling, Queue!Taking
  <2>3. Queue!Contents \in Seq(Message) /\ Len(Queue!Contents) = 0
    BY <2>1, <2>2, ContentsIsSeq
  <2>4. Queue!Contents = <<>>
    BY <2>3
  <2> QED
    BY <2>1, <2>4 DEF Queue!Init, Queue!Stream!Init
<1>2. QueueIInv /\ [Next]_vars => QueueIInv'
  BY StepOfEach, QueueStep
<1>3. QueueIInv /\ QueueIInv' /\ [Next]_vars => [Queue!Stream!Next]_(Queue!Stream!vars)
  BY StepOfEach, StreamStep
<1> QED
  BY <1>1, <1>2, <1>3, PTL DEF Spec, QueueStreamSpec, Queue!QueueStreamSpec,
     Queue!Stream!Spec

(* FreeList: for any threads and nodes, whoever looks at the list before   *)
(* the lock is taken, no element has two users and no node is lost.        *)
THEOREM ElementsHaveOneUser == Spec => []FreeListInv
<1>1. Init => ListIInv
  BY InitList DEF Init
<1>2. ListIInv /\ [Next]_vars => ListIInv'
  BY StepOfEach, ListStep
<1>3. ListIInv => FreeListInv
  BY ListImplies DEF FreeListInv
<1> QED
  BY <1>1, <1>2, <1>3, PTL DEF Spec

(* Thread: however many threads open() is asked for and whichever of them  *)
(* cannot be started, no handle is written outside of the array; after one *)
(* open() without a failure the destructor waits for every thread and      *)
(* closes every handle once.                                               *)
THEOREM PoolIsClosed == Spec => []PoolInv
<1>1. Init => PoolIInv
  BY InitPool DEF Init
<1>2. PoolIInv /\ [Next]_vars => PoolIInv'
  BY StepOfEach, PoolStep
<1>3. PoolIInv => PoolInv
  BY PoolImplies DEF PoolInv
<1> QED
  BY <1>1, <1>2, <1>3, PTL DEF Spec

(* Log: whatever fails, whatever level is set and however the calls of the *)
(* threads interleave, the counter is the number of lines of the present   *)
(* file, no file is too long, and in every file the times go up.           *)
THEOREM LogIsInOrder == Spec => []LogInv
<1>1. Init => LogIInv
  BY InitLog DEF Init
<1>2. LogIInv /\ [Next]_vars => LogIInv'
  BY StepOfEach, LogStep
<1>3. LogIInv => LogInv
  BY LogImplies DEF LogInv
<1> QED
  BY <1>1, <1>2, <1>3, PTL DEF Spec

(* Timer: when the word holds every interval in parts of a second, no      *)
(* timer is called before its interval is over, whatever is registered and *)
(* unregistered between two frames; and a registration finds no slot only  *)
(* when every slot holds a timer that is wanted.                           *)
THEOREM TimersRight == (\A iv \in Interval : iv * Second < Word) => (Spec => TimersExact)
<1> SUFFICES ASSUME \A iv \in Interval : iv * Second < Word PROVE Spec => TimersExact
  OBVIOUS
<1>1. Init => TimerIInv
  BY InitTimers DEF Init
<1>2. TimerIInv /\ [Next]_vars => TimerIInv'
  BY StepOfEach, TimerStep
<1>3. TimerIInv => Timers!TypeOK /\ Timers!SlotsAreLive
  BY TimerIInvGives
<1>4. TimerIInv /\ [Next]_vars
        => [calling = Timers!None /\ calling' # Timers!None
              => now >= stamp[timer_i] + interval[timer_i] * Second]_(Timers!vars)
  BY StepOfEach, CallsAreNotEarly
<1> QED
  BY <1>1, <1>2, <1>3, <1>4, PTL DEF Spec, TimersExact, Timers!NotEarly
=============================================================================
