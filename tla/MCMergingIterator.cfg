SPECIFICATION Spec
CONSTANTS
  n_ = 3
  Key = {1, 2, 3, 4}
  Contents <- SmallContents
INVARIANTS
  ChildrenWait
PROPERTIES
  NoKeySkipped
  ImplementsCursor
