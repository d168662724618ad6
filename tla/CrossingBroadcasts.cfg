CONSTANTS
  Nodes = {1, 2}
  Conns <- TwoConns
  Dialer <- TwoDialers
  Acceptor <- TwoAcceptors
  None = None
  QueueCap = 1
  WireCap = 1
  Scenarios <- CrossingFull
SPECIFICATION NetSpec
CHECK_DEADLOCK FALSE
PROPERTY BroadcastEnds
