SPECIFICATION Spec
CONSTANTS
  Retained = 3
  MaxSize = 3
  Sizes <- MCSizes
  None = None
  MaxMessages = 6
  MaxFaults = 2
  MaxCrashes = 1
INVARIANTS
  SizeBound
  Chronological
  KeepsRetained
PROPERTY OnlyOldestLost
CHECK_DEADLOCK FALSE
