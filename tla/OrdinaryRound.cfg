CONSTANTS
  Q = 7
  Ids = {1, 2, 3, 4, 5, 6, 7, 258, 259}
  ShareLength = 190
  N = 3
  Refreshing = {1, 2, 3}
  Secrets <- ThreeSecrets
  Dealt <- ThreeDealt
  Slopes <- ThreeSlopes
  ManagerSlopes <- ThreeManagerSlopes
  OwnSlope = 1
  LtKey <- ThreeLtKeys
  TrackingKey = 3
  WrongKey = 5
  MaxExtras = 0
SPECIFICATION Spec
CHECK_DEADLOCK FALSE
INVARIANT OrdinaryRoundKeepsKey
