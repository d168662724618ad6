CONSTANTS
  Clients = {c1, c2}
  MaxRequests = 2
  WindowSecs = 2
  MaxClock = 5
SPECIFICATION LimiterSpec
SYMMETRY AnyClient
INVARIANT LimitPerClient
