CONSTANTS
  N = 3
  T = 2
  Requests = {r1, r2, r3}
  None = None
  Quorums <- ThreeNodeQuorums
  Batches <- ShortBatches
  MaxBatch = 2
  Exclusive = TRUE
  MaxAborts = 1
SPECIFICATION Spec
INVARIANT RefreshKeepsKey
