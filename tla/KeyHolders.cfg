CONSTANTS
  Nodes = {1, 2, 3}
  Conns <- FourConns
  Dialer <- FourDialers
  Acceptor <- FourAcceptors
  None = None
  QueueCap = 1
  WireCap = 1
  Scenarios <- FourScenarios
  Sizes <- FiveSizes
  Senders = {1, 2, 3}
  MyId = 1
  MaxRounds = 2
  DkgSize = 4
  Followed = {1}
  Dealings <- FaultyFour
  MaxComplaints = 2
  InOrder = TRUE
  Q = 7
  Ids = {1, 2, 3, 4, 5, 6, 7, 258, 259}
  ShareLength = 190
  N = 3
  Refreshing = {1, 3}
  Secrets <- ThreeSecrets
  Dealt <- ThreeDealt
  Slopes <- ThreeSlopes
  ManagerSlopes <- ThreeManagerSlopes
  OwnSlope = 1
  LtKey <- ThreeLtKeys
  TrackingKey = 3
  WrongKey = 5
  MaxExtras = 1
SPECIFICATION HoldersSpec
CHECK_DEADLOCK FALSE
INVARIANTS
  NothingLostUnbroken
  EntriesHaveReaders
  RoundsHaveQuorum
  DkgTypeOK
  CompleteContributions
  InvalidNeverUsed
  KeptIffMovedAlike
  SignsIffCombines
  TraceNamesCurrent
  AcceptsOnlyZeroPolynomials
  ProofsBind
  WireKeepsOnly
PROPERTIES
  
  GenerationCompletes
