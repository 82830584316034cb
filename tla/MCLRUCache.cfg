SPECIFICATION Spec
CONSTANTS
  Key = {k1, k2, k3}
  Other = k2
  Charge = {1, 2}
  Handle = {e1, e2, e3}
  lru_ = lru
  NULL = NULL
  hash <- Hashes
  InitialLength = 2
  capacity_ = 2
  MaxHeld = 2
SYMMETRY Symmetry
CHECK_DEADLOCK FALSE
INVARIANTS
  RefsExact
  ListMatchesTable
PROPERTY
  ImplementsLRU
