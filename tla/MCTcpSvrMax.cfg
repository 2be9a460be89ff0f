SPECIFICATION Spec
CONSTANTS
  Client = {c1, c2, c3, c4}
  MaxClient = 2
  Wrap = 65536
  Serial = FALSE
  Closing = FALSE
  Stopping = FALSE
  MaxSend = 0
SYMMETRY ClientSymmetry
INVARIANTS
  AtMostMaxClient
CHECK_DEADLOCK FALSE
