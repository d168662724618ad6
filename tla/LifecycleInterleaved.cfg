CONSTANTS
  N = 3
  T = 2
  Requests = {r1, r2, r3, r4}
  None = None
  Quorums <- ThreeNodeQuorums
  Batches <- ShortBatches
  MaxBatch = 2
  Exclusive = FALSE
  MaxAborts = 1
SPECIFICATION Spec
SYMMETRY AnyRequest
INVARIANTS
  TypeOK
  PlaceholderNeverSigns
  EnoughSigners
  SharesDealt
  StoredInOrder
  TxOnLedger
PROPERTIES
  AnswerImpliesRecorded
