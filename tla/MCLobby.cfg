SPECIFICATION LobbySpec
CONSTANTS
  MaxSession = 3
  MaxChan = 1
  MaxUnread = 0
  MaxGames = 2
  ClientCmd = {"AutoMatch", "UAutoMatch", "GameReady"}
INVARIANTS
  QueueAtMostOne
  PlayerKnowsItsGame
  StartOnlyWhenReady
  OneDriver
