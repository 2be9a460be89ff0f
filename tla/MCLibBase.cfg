SPECIFICATION Spec
CONSTANTS
  Case = {"queue", "list", "pool", "timers", "logs", "tree", "map"}
  Thread = {t1, t2, t3}
  Message = {m1, m2}
  NoMessage = none
  MaxSize = 2
  MaxAppends = 4
  MaxNode = 3
  MaxThreadNum = 5
  Word = 16
  MaxThread = 5
  MaxOpens = 2
  MayFail = TRUE
  LogThread = {l1, l2}
  MaxLogLine = 2
  MaxCalls = 3
  MaxDay = 2
  Slots = 2
  Second = 2
  Interval = {1, 2}
  MaxTime = 8
  MaxTimers = 4
  KEY = {1, 2, 3}
  VALUE = {0, 1}
  MaxTreeNode = 5
  Key = {"a", "b", "c", "d"}
  VAR_SIZE = 3
SYMMETRY ThreadSymmetry
INVARIANTS
  QueueInv
  FreeListInv
  PoolInv
  LogInv
  ContainersFind
PROPERTIES
  QueueStreamSpec
  TimersExact
CHECK_DEADLOCK FALSE
