SPECIFICATION Spec
CONSTANTS
  User = {u1, u2, u3}
  MayCancel = TRUE
  MayLeave = FALSE
  GuiRace = FALSE
  MaxSession = 3
  MaxGames = 2
  MaxChan = 3
  MaxUnread = 0
  ClientCmd = {"AutoMatch", "UAutoMatch", "GameReady", "KeepAlive", "KeepAliveAck"}
SYMMETRY UserSymmetry
INVARIANTS
  WaitingIsQueued
  NobodyPlaysAlone
