-------------------------------- MODULE Log --------------------------------
(***************************************************************************)
(* The class Log (libbase/src/yy_log.cpp): every line goes to a file of    *)
(* all lines, errors and warnings also to a file of their own.  Threads    *)
(* call logging(), which works under a lock; a file that cannot be opened  *)
(* or written throws, and the lock is released on the way out.             *)
(*                                                                         *)
(* The clock counts days, which stand for any unit of the time stamps; a   *)
(* line is its time stamp.  A new file is due after MAX_LOG_LINE lines,    *)
(* whatever the time.  Files are numbered in the order of their opening.   *)
(***************************************************************************)
EXTENDS Naturals, Sequences

CONSTANTS Thread,
          MaxLogLine,   \* MAX_LOG_LINE, 100000
          MayFail,      \* opening and writing may fail
          MaxCalls,     \* bound: calls of logging()
          MaxDay        \* bound: days

LogAssumption ==
  /\ MaxLogLine \in Nat \ {0} /\ MayFail \in BOOLEAN
  /\ MaxCalls \in Nat /\ MaxDay \in Nat \ {0}

(* An error is treated as a warning is, but for the colour on the screen,  *)
(* and a trace as a debug line.                                            *)
Warn  == 1
Info  == 2
Debug == 4
Level == {Warn, Info, Debug}
NoFile == 0             \* a null FILE pointer

VARIABLES
  m_log_level, m_log_line,
  m_err_log_file, m_all_log_file,
  files,                \* the files so far: the kind and the lines
  lock,                 \* the owners of m_lock
  pc, line,             \* where each thread is; the level and the stamp of its line
  day, calls

vars == <<m_log_level, m_log_line, m_err_log_file, m_all_log_file, files, lock,
          pc, line, day, calls>>
state == <<m_log_level, m_log_line, m_err_log_file, m_all_log_file, files>>

Init ==
  /\ m_log_level = Info /\ m_log_line = 0
  /\ m_err_log_file = NoFile /\ m_all_log_file = NoFile
  /\ files = <<>> /\ lock = {}
  /\ pc = [t \in Thread |-> "idle"]
  /\ line = [t \in Thread |-> [level |-> Info, day |-> 1]]
  /\ day = 1 /\ calls = 0

Goes(t, place) == pc' = [pc EXCEPT ![t] = place]
Leaves(t) == Goes(t, "idle") /\ lock' = lock \ {t}

NextDay ==
  /\ day < MaxDay /\ day' = day + 1
  /\ UNCHANGED <<state, lock, pc, line, calls>>

SetLevel(level) ==
  /\ m_log_level' = level
  /\ UNCHANGED <<m_log_line, m_err_log_file, m_all_log_file, files, lock, pc, line, day, calls>>

-----------------------------------------------------------------------------
Logging(t, level) ==
  /\ pc[t] = "idle" /\ calls < MaxCalls
  /\ calls' = calls + 1
  /\ line' = [line EXCEPT ![t].level = level]
  /\ Goes(t, "lock")
  /\ UNCHANGED <<state, lock, day>>

(* Deviation: the lock does not exclude. *)
MayEnter_Always == TRUE

MayEnter == lock = {}

(* Lines above the level are dropped under the lock. *)
Enter(t) ==
  /\ pc[t] = "lock" /\ MayEnter
  /\ IF line[t].level > m_log_level
       THEN Goes(t, "idle") /\ UNCHANGED lock
       ELSE Goes(t, "stamp") /\ lock' = lock \cup {t}
  /\ UNCHANGED <<state, line, day, calls>>

(* logData puts the time into the line before it writes anything. *)
Stamp(t) ==
  /\ pc[t] = "stamp"
  /\ line' = [line EXCEPT ![t].day = day]
  /\ Goes(t, IF line[t].level <= Warn THEN "err" ELSE "all")
  /\ UNCHANGED <<state, lock, day, calls>>

(* Deviation: only a null pointer asks for a new file. *)
Renews_Null(file) == file = NoFile

(* A new file is due at line 0 and where there is none. *)
Renews(file) == m_log_line = 0 \/ file = NoFile

(* The files with the thread's line at the end of the given one, or of a   *)
(* new one.                                                                *)
NewFile(kind, t) == Append(files, [kind |-> kind, lines |-> <<line[t].day>>])
OldFile(f, t) == [files EXCEPT ![f].lines = Append(@, line[t].day)]
EmptyFile(kind) == Append(files, [kind |-> kind, lines |-> <<>>])

LogToErrFile(t) ==
  /\ pc[t] = "err"
  /\ IF Renews(m_err_log_file)
       THEN m_err_log_file' = Len(files) + 1 /\ files' = NewFile("err", t)
       ELSE UNCHANGED m_err_log_file /\ files' = OldFile(m_err_log_file, t)
  /\ Goes(t, "all")
  /\ UNCHANGED <<m_log_level, m_log_line, m_all_log_file, lock, line, day, calls>>

(* Deviation: the exception does not release the lock. *)
Thrown_Locked(t) == Goes(t, "idle") /\ UNCHANGED lock

Thrown(t) == Leaves(t)

(* An old file is closed before the new one is opened; then the opening    *)
(* may fail, or the writing, and what has been opened stays open.          *)
ErrFileFails(t) ==
  /\ MayFail /\ pc[t] = "err" /\ Thrown(t)
  /\ IF Renews(m_err_log_file)
       THEN \/ m_err_log_file' = NoFile /\ UNCHANGED files
            \/ m_err_log_file' = Len(files) + 1 /\ files' = EmptyFile("err")
       ELSE UNCHANGED <<m_err_log_file, files>>
  /\ UNCHANGED <<m_log_level, m_log_line, m_all_log_file, line, day, calls>>

LogToFile(t) ==
  /\ pc[t] = "all"
  /\ IF Renews(m_all_log_file)
       THEN m_all_log_file' = Len(files) + 1 /\ files' = NewFile("all", t)
       ELSE UNCHANGED m_all_log_file /\ files' = OldFile(m_all_log_file, t)
  /\ Goes(t, "count")
  /\ UNCHANGED <<m_log_level, m_log_line, m_err_log_file, lock, line, day, calls>>

AllFileFails(t) ==
  /\ MayFail /\ pc[t] = "all" /\ Thrown(t)
  /\ IF Renews(m_all_log_file)
       THEN \/ m_all_log_file' = NoFile /\ UNCHANGED files
            \/ m_all_log_file' = Len(files) + 1 /\ files' = EmptyFile("all")
       ELSE UNCHANGED <<m_all_log_file, files>>
  /\ UNCHANGED <<m_log_level, m_log_line, m_err_log_file, line, day, calls>>

NextLine == IF m_log_line + 1 >= MaxLogLine THEN 0 ELSE m_log_line + 1

Count(t) ==
  /\ pc[t] = "count"
  /\ m_log_line' = NextLine /\ Leaves(t)
  /\ UNCHANGED <<m_log_level, m_err_log_file, m_all_log_file, files, line, day, calls>>

-----------------------------------------------------------------------------
Writes(t) ==
  \/ Stamp(t) \/ LogToErrFile(t) \/ ErrFileFails(t)
  \/ LogToFile(t) \/ AllFileFails(t) \/ Count(t)

Next ==
  \/ NextDay
  \/ \E level \in Level : SetLevel(level)
  \/ \E t \in Thread :
       \/ \E level \in Level : Logging(t, level)
       \/ Enter(t) \/ Writes(t)

Spec == Init /\ [][Next]_vars

(* A thread inside the lock goes on, and one that waits gets the lock when *)
(* it stays free: the calls are bounded.                                   *)
FairSpec == Spec /\ \A t \in Thread : WF_vars(Writes(t)) /\ WF_vars(Enter(t))

-----------------------------------------------------------------------------
(* Every variable has its type; the line counter stays below its limit.    *)
TypeOK ==
  /\ m_log_level \in Level /\ m_log_line \in 0..(MaxLogLine - 1)
  /\ {m_err_log_file, m_all_log_file} \subseteq 0..Len(files)
  /\ \A f \in DOMAIN files :
       files[f].kind \in {"all", "err"} /\ files[f].lines \in Seq(1..MaxDay)
  /\ lock \in SUBSET Thread
  /\ pc \in [Thread -> {"idle", "lock", "stamp", "err", "all", "count"}]
  /\ line \in [Thread -> [level : Level, day : 1..MaxDay]]
  /\ day \in 1..MaxDay /\ calls \in 0..MaxCalls

Pending == \E t \in Thread : pc[t] = "count"

(* The counter is the number of lines in the present file of all lines,    *)
(* and no file of all lines grows beyond the limit, whatever has failed.   *)
CountIsLines ==
  /\ m_log_line > 0 =>
       Len(files[m_all_log_file].lines) = m_log_line + (IF Pending THEN 1 ELSE 0)
  /\ \A f \in DOMAIN files :
       files[f].kind = "all" => Len(files[f].lines) <= MaxLogLine

(* In every file the times of the lines go up. *)
TimesGoUp ==
  \A f \in DOMAIN files :
    \A a, b \in DOMAIN files[f].lines : a <= b => files[f].lines[a] <= files[f].lines[b]

(* Every call comes back, also when another has thrown. *)
CallsReturn == \A t \in Thread : pc[t] = "lock" ~> pc[t] = "idle"
=============================================================================
