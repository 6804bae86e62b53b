CONSTANTS
  AwaitResponse = 2
  PostResponse = 1
  ConnectTimeout = 1
  MediaDead = 1
  EchoGuard = 1
  BlockMax = 1
  MaxReconnects = 1
  RingCap = 1
  CatchUp = 1
  TickMod = 8
SPECIFICATION FairSpec
PROPERTIES TurnEnds BringUpResolves
