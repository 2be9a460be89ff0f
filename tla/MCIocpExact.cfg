SPECIFICATION Spec
CONSTANTS
  MaxPeerNum = 1
  PeerBufSize = 1
  MaxConn = 2
  RecvRoom = 2
  MaxIn = 2
  MaxOut = 2
  ReuseRace = FALSE
  HardErrors = FALSE
INVARIANTS
  OneRecvOneSend
  BytesConserved
  LeakBounded
PROPERTIES
  PostedMemoryFixed
