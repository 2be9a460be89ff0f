SPECIFICATION FairSpec
CONSTANTS
  MaxPeerNum = 1
  PeerBufSize = 1
  MaxConn = 2
  RecvRoom = 2
  MaxIn = 1
  MaxOut = 1
  ReuseRace = TRUE
  HardErrors = FALSE
PROPERTIES
  StaleNeverCloses
