SPECIFICATION FairSpec
CONSTANTS
  User = {u1, u2}
  Case = {"leave", "cancel", "service"}
PROPERTIES
  NotBothWaitForever
  BothReadyStart
  PeersServed
