CONSTANTS
  Sizes <- ThreeOfTwo
  Senders = {1, 2, 3}
  MyId = 1
  MaxRounds = 1
SPECIFICATION ProtocolSpec
CHECK_DEADLOCK FALSE
INVARIANT NextCallAccepted
