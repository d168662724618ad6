CONSTANTS
  DkgSize = 4
  Followed = {1, 2}
  Dealings <- FaultyForTwo
  MaxComplaints = 2
  InOrder = TRUE
SPECIFICATION DkgSpec
CHECK_DEADLOCK FALSE
INVARIANT AgreeOnKey
