SPECIFICATION IceSpec
CONSTANTS
  Remotes <- MCRemotes
  MaxCheck = 2
  Period = 1
  PermLife = 3
  LeaseLife = 4
  MaxNonce = 3
INVARIANTS IceTypeOK SelectedWasAnswered KeepaliveRecovers
PROPERTY Decides
CHECK_DEADLOCK FALSE
