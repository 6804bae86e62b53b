SPECIFICATION IceSpec
CONSTANTS
  Remotes <- MCRemotes
  MaxCheck = 2
  Period = 1
  PermLife = 3
  LeaseLife = 4
  MaxNonce = 3
INVARIANT KeepaliveRenewsNominated
CHECK_DEADLOCK FALSE
