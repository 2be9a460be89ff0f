SPECIFICATION Spec
CONSTANTS
  User = {u1, u2, u3}
  MayCancel = FALSE
  MayLeave = TRUE
  GuiRace = TRUE
  MaxSession = 3
  MaxGames = 2
  MaxChan = 1
  MaxUnread = 1
  ClientCmd = {"AutoMatch", "UAutoMatch", "GameReady", "GameShot", "SynchPos"}
SYMMETRY UserSymmetry
INVARIANTS
  OpponentsMutual
  RunningGamesAgree
  OnlyOpponentHeard
