SPECIFICATION Spec
CONSTANTS
  Slot = {s1, s2, s3}
  MaxMmaps = 1
  MaxOpenFiles = 1
  kNumShards = 2
  Shard <- MCShard
  Thread = {t1, t2}
  FileNumber = {1, 2}
  Offset = {1}
  BlockHandle = {b1, b2, b3}
  entries = 1
  blockEntries = 1
  MaxId = 3
SYMMETRY Symmetry
INVARIANTS
  PermitsExact
  UsesAreLive
  RightBlock
  OneOwner
