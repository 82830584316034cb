SPECIFICATION Spec
CONSTANTS
  kBlockSize = 7
  kHeaderSize = 3
  Length = {0, 2, 9}
  MaxRecords = 2
  MaxFaults = 2
  Offset = {0, 1, 6, 8}
INVARIANTS
  NothingInvented
  DamageConfined
  NoFalseAlarm
  OffsetsExact
PROPERTY
  ReadTerminates
