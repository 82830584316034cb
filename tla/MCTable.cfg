SPECIFICATION BuilderSpec
CONSTANTS
  MaxByte = 3
  kMaxSequenceNumber = 2
  IKey <- MCIKey
  DataKey <- MCDataKey
  EntrySize = {1, 2}
  BlockSize = {2, 4}
  MetaSize = {2}
  kBlockTrailerSize = 1
  HAVE_SNAPPY = TRUE
  kFilterBase = 3
  bits_per_key_ = 5
  MinBits = 8
  BloomHash <- MCBloomHash
  WordBits = 16
  DeltaShift = 9
  MaxFileCalls = 19
INVARIANTS
  TableWhole
  IndexKeepsUp
  LookupsAnswer
CHECK_DEADLOCK FALSE
