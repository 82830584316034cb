SPECIFICATION Spec
CONSTANTS
  Key = {2, 3, 4, 5, 6}
  Bytes <- Strings
  MaxByte = 3
  B = 4
  Uint32 = 512
  Layouts <- SmallTables
INVARIANTS
  LevelsAgree
PROPERTIES
  ImplementsCursor
  CallsReturn
