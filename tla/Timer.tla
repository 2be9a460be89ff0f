------------------------------- MODULE Timer -------------------------------
(***************************************************************************)
(* The class Timer (libbase/src/yy_time.cpp): a fixed array of timers.     *)
(* run() is called once per frame and calls what is due; a callback that   *)
(* returns false ends its timer.  Everything happens on one thread, but a  *)
(* callback may itself register and unregister timers while run() stands   *)
(* in the middle of its loop.                                              *)
(*                                                                         *)
(* Registrations are numbered; time is counted in parts of a second.       *)
(***************************************************************************)
EXTENDS Naturals, FiniteSets

CONSTANTS Slots,        \* the length of m_timers, 10
          Second,       \* parts of a second: 1000 * 1000 in the code
          Word,         \* the numbers of UI32: 2^32 in the code
          Interval,     \* the intervals that are used, in seconds
          Reentrant,    \* callbacks register and unregister timers
          MaxTime,      \* bound: the clock stops here
          MaxTimers     \* bound: registrations

TimerAssumption ==
  /\ Slots \in Nat \ {0} /\ Second \in Nat \ {0} /\ Word \in Nat \ {0}
  /\ Interval \subseteq Nat \ {0} /\ Reentrant \in BOOLEAN
  /\ MaxTime \in Nat \ {0} /\ MaxTimers \in Nat

Slot == 0..(Slots - 1)
Timers == 1..MaxTimers
None == 0

VARIABLES
  func,                 \* slot -> the registration in it, or None
  stamp,                \* slot -> its time_stamp, 0 when cleared
  interval,             \* slot -> its time_interval
  now,                  \* what TimeStamp() returns
  last_time_stamp,      \* the static variable of run(), 0 before the first
  time_stamp,           \* the time run() has read
  i,                    \* run()'s loop counter, Slots outside of run()
  calling,              \* the registration whose callback is running, or None
  live,                 \* registrations that were neither unregistered nor ended
  count,                \* registrations so far
  crashed               \* registerTimer() has found no free slot

vars == <<func, stamp, interval, now, last_time_stamp, time_stamp, i, calling,
          live, count, crashed>>
slots == <<func, stamp, interval>>
frame == <<last_time_stamp, time_stamp, i, calling>>

Init ==
  /\ func = [k \in Slot |-> None] /\ stamp = [k \in Slot |-> 0]
  /\ interval = [k \in Slot |-> 0]
  /\ now = 1 /\ last_time_stamp = 0 /\ time_stamp = 0
  /\ i = Slots /\ calling = None
  /\ live = {} /\ count = 0 /\ crashed = FALSE

(* Who may call the timer now: nobody inside run() but a callback. *)
MayCall == ~crashed /\ IF calling # None THEN Reentrant ELSE i = Slots

Tick ==
  /\ now < MaxTime /\ now' = now + 1
  /\ UNCHANGED <<slots, frame, live, count, crashed>>

-----------------------------------------------------------------------------
(* registerTimer() *)

FreeSlots == {k \in Slot : func[k] = None}

Kept(iv) == iv

(* Deviation: the last slot, free or not. *)
Chosen_Any == Slots - 1

(* The loop goes on after a free slot and ends with the last one. *)
Chosen == CHOOSE k \in FreeSlots : \A l \in FreeSlots : l <= k

Register(iv) ==
  /\ MayCall /\ count < MaxTimers /\ FreeSlots # {}
  /\ count' = count + 1 /\ live' = live \cup {count + 1}
  /\ func' = [func EXCEPT ![Chosen] = count + 1]
  /\ stamp' = [stamp EXCEPT ![Chosen] = now]
  /\ interval' = [interval EXCEPT ![Chosen] = Kept(iv)]
  /\ UNCHANGED <<now, frame, crashed>>

(* Without a free slot the code writes through a null pointer. *)
RegisterFull ==
  /\ MayCall /\ count < MaxTimers /\ FreeSlots = {}
  /\ crashed' = TRUE
  /\ UNCHANGED <<slots, now, frame, live, count>>

(* unRegisterTimer(): everything in the slot is cleared. *)
Cleared(k) ==
  /\ func' = [func EXCEPT ![k] = None]
  /\ stamp' = [stamp EXCEPT ![k] = 0]
  /\ interval' = [interval EXCEPT ![k] = 0]

(* The owner of a timer unregisters it. *)
UnRegister(k) ==
  /\ MayCall /\ func[k] # None
  /\ Cleared(k) /\ live' = live \ {func[k]}
  /\ UNCHANGED <<now, frame, count, crashed>>

-----------------------------------------------------------------------------
(* run() *)

(* The first second after the first call is let pass. *)
Warm == now - last_time_stamp >= Second

Run ==
  /\ ~crashed /\ i = Slots
  /\ last_time_stamp' = IF last_time_stamp = 0 THEN now ELSE last_time_stamp
  /\ time_stamp' = now
  /\ i' = IF last_time_stamp # 0 /\ Warm THEN 0 ELSE Slots
  /\ UNCHANGED <<slots, now, calling, live, count, crashed>>

(* Deviation: the product is taken in seconds. *)
Passed_Seconds(k) == interval[k] <= time_stamp - stamp[k]

(* The product is a UI32 and the difference a UI64: a stamp from after the *)
(* begin of run() makes it wrap, and more than any interval has passed.    *)
Passed(k) ==
  stamp[k] > time_stamp \/ (interval[k] * Second) % Word <= time_stamp - stamp[k]

Due(k) == func[k] # None /\ stamp[k] # 0 /\ Passed(k)

Skip ==
  /\ i \in Slot /\ calling = None /\ ~Due(i)
  /\ i' = i + 1
  /\ UNCHANGED <<slots, now, last_time_stamp, time_stamp, calling, live, count, crashed>>

Call ==
  /\ i \in Slot /\ calling = None /\ Due(i)
  /\ calling' = func[i]
  /\ UNCHANGED <<slots, now, last_time_stamp, time_stamp, i, live, count, crashed>>

(* Deviation: a timer that has fired keeps its old stamp. *)
Restarted_Not == stamp

Restarted == [stamp EXCEPT ![i] = time_stamp]

ReturnsTrue ==
  /\ ~crashed /\ calling # None
  /\ stamp' = Restarted
  /\ calling' = None /\ i' = i + 1
  /\ UNCHANGED <<func, interval, now, last_time_stamp, time_stamp, live, count, crashed>>

(* False clears the slot, whoever is in it by now. *)
ReturnsFalse ==
  /\ ~crashed /\ calling # None
  /\ Cleared(i) /\ live' = live \ {calling}
  /\ calling' = None /\ i' = i + 1
  /\ UNCHANGED <<now, last_time_stamp, time_stamp, count, crashed>>

-----------------------------------------------------------------------------
Loop == Run \/ Skip \/ Call \/ ReturnsTrue \/ ReturnsFalse

Next ==
  \/ Tick \/ Loop \/ RegisterFull
  \/ \E iv \in Interval : Register(iv)
  \/ \E k \in Slot : UnRegister(k)

Spec == Init /\ [][Next]_vars

(* Time passes, frames come again and again, and callbacks return. *)
FairSpec == Spec /\ WF_vars(Tick) /\ WF_vars(Loop)

-----------------------------------------------------------------------------
(* Every variable has its type. *)
TypeOK ==
  /\ func \in [Slot -> Timers \cup {None}]
  /\ stamp \in [Slot -> 0..MaxTime]
  /\ interval \in [Slot -> Interval \cup {0}]
  /\ now \in 1..MaxTime
  /\ last_time_stamp \in 0..now /\ time_stamp \in 0..now
  /\ i \in 0..Slots /\ calling \in Timers \cup {None}
  /\ live \subseteq 1..count /\ count \in 0..MaxTimers /\ crashed \in BOOLEAN

(* The slots hold exactly the timers that are still wanted: none is lost   *)
(* to another registration and none that has ended keeps its slot, so that *)
(* registerTimer fails only when all slots are wanted.                     *)
SlotsAreLive ==
  /\ {func[k] : k \in Slot} \ {None} = live
  /\ crashed => Cardinality(live) = Slots

(* A callback runs only when its interval has passed, in seconds of the    *)
(* clock, since its timer was registered or has run before.                *)
NotEarly ==
  [][calling = None /\ calling' # None
       => now >= stamp[i] + interval[i] * Second]_vars

Late(k) == func[k] # None /\ now >= stamp[k] + interval[k] * Second

(* The clock has not stopped before the first second of run() is over. *)
ClockSuffices == last_time_stamp # 0 /\ last_time_stamp + Second <= MaxTime

(* A timer whose time has come is called, or it goes. *)
LateIsCalled ==
  \A k \in Slot : Late(k) /\ ClockSuffices ~> ~Late(k) \/ crashed
=============================================================================
