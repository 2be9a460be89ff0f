SPECIFICATION FairSpec
CONSTANTS
  c1 = c1
  c2 = c2
  t1 = t1
  t2 = t2
  m1 = m1
  none = none
  Case = {"server", "client", "svr", "cli", "cli_sends", "tcp", "queue", "pool",
          "timers", "logs", "select"}
PROPERTIES
  StreamsMakeUp
  
  CallsEnd
CHECK_DEADLOCK FALSE
