SPECIFICATION FilesSpec
CONSTANTS
  kWritableFileBufferSize = 2
  AppendSize = {0, 1, 2, 5}
  MaxBytes = 7
  MaxFiles = 1
  Descriptor = {1, 2}
  Inode = {f1, f2, f3}
  none = none
SYMMETRY Symmetry
INVARIANTS
  NothingLost
  SyncedSurvives
  ManifestRefersToDisk
  CurrentWhole
  ReturnsTruth
CHECK_DEADLOCK FALSE
