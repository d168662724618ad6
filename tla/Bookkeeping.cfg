CONSTANTS
  Clients = {c1, c2}
  MaxRequests = 2
  WindowSecs = 2
  MaxClock = 4
  Statements <- TwoMigrations
  EnvKeys = {"", "operator key"}
  Short = {""}
  EnvLists <- Settings
  Requests = {r1, r2, r3}
  None = None
  MaxStarts = 2
  MaxRows = 3
  Txs = {x, y}
  Parties = {p1, p2}
  Thresholds = {1, 2}
  Expiry = 0
  MaxTime = 1
SPECIFICATION Spec
SYMMETRY Interchangeable
CHECK_DEADLOCK FALSE
INVARIANTS
  LimiterTypeOK
  AtMostTwiceMax
  RefusedOnlyWhenBusy
  SchemaComplete
  LockedOutOnlyByRequests
  OneDeletion
  LedgerTypeOK
  OneTier
  HeightsDense
  ApprovedByQuorum
PROPERTIES
  RevokedStaysRevoked
  ApprovalIsFinal
  NothingVanishes
