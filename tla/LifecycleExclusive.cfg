CONSTANTS
  N = 4
  T = 2
  Requests = {r1, r2, r3, r4}
  None = None
  Quorums <- FourNodeQuorums
  Batches <- ShortBatches
  MaxBatch = 2
  Exclusive = TRUE
  MaxAborts = 0
SPECIFICATION Spec
SYMMETRY AnyRequest
INVARIANTS
  KeyUsable
PROPERTIES
  ImplementsService
