SPECIFICATION Spec
CONSTANTS
  MaxPeerNum = 2
  PeerBufSize = 1
  MaxConn = 2
  RecvRoom = 2
  MaxIn = 1
  MaxOut = 1
  ReuseRace = TRUE
  HardErrors = TRUE
INVARIANTS
  PlayersAreThePeers
  HandlesReachOne
  NoStrandedBytes
