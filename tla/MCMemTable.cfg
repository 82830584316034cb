SPECIFICATION MemSpec
CONSTANTS
  Key = {1, 2, 3, 4}
  Reader = {r1}
  Writer = w
  kMaxHeight = 3
  MaxByte = 3
  kMaxSequenceNumber = 3
  UserKey <- TwoKeys
  Workloads <- ThreeWrites
INVARIANTS
  TypeOK
  ChainsExact
  LoadsInitialized
  InsertPositions
  GetSeesSnapshot
PROPERTIES
  ImplementsOrderedSet
  ReadsReturn
