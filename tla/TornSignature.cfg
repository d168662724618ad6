CONSTANTS
  N = 3
  T = 2
  Requests = {r1, r2, r3}
  None = None
  Quorums <- ThreeNodeQuorums
  Batches <- ShortBatches
  MaxBatch = 2
  Exclusive = FALSE
  MaxAborts = 0
SPECIFICATION Spec
INVARIANT SignaturesCombine
