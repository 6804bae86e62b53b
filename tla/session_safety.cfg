CONSTANTS
  AwaitResponse = 2
  PostResponse = 1
  ConnectTimeout = 1
  MediaDead = 1
  EchoGuard = 1
  BlockMax = 1
  MaxReconnects = 1
  RingCap = 2
  CatchUp = 3
  TickMod = 8
SPECIFICATION HSpec
INVARIANTS TypeOK NoSendOnDestroyedPeer ConnectedTracksPeer OneUtterance AnswerMatchesPeer ReconnectsBounded
PROPERTIES RefinesLifecycle
