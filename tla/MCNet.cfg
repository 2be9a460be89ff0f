SPECIFICATION MCSpec
CONSTANTS
  Case = {"server", "server_unmerged", "client", "resolver_short", "resolver_long", "packet",
          "alive", "alive_threads", "svr", "svr_threads", "cli", "cli_threads", "threads",
          "threads_again", "select"}
  Client = {c1, c2, c3}
  MaxClient = 2
  Wrap = 65536
  MaxSend = 1
  MaxSock = 2
  MaxSockThreads = 2
  MaxSeq = 3
  MaxConnect = 2
  MaxWrite = 3
  MaxRead = 2
  MaxPeerNum = 2
  PeerBufSize = 1
  MaxConn = 3
  RecvRoom = 1
  MaxIn = 1
  MaxOut = 1
  FdSetSize = 3
  DEFAULT_CMD_PACKET_SIZE = 8
  MAX_CMD_PACKET_SIZE = 9
  Field <- PacketField
  Foreign <- PacketForeign
  MaxFields = 2
  Word = 8
  Interval = 2
  Timeout = 5
  Delay = 1
  Offset = {0, 5}
  MaxTime = 6
  OffsetThreads = {5}
  MaxTimeThreads = 5
INVARIANTS
  
  ClientSessionRight
  SelectListRight
  PacketsWhole
PROPERTIES
  StreamsDelivered
  KeepAliveTruthful
  SessionThreadsAgree
SYMMETRY ClientSymmetry
CONSTRAINTS
  FewMessages
  FewBytes
  FewSends
CHECK_DEADLOCK FALSE
