SPECIFICATION Spec
CONSTANTS
  UMax = 5
  OffMax = 4
INVARIANTS
  ExactBytes
  HonouredWhenCurrent
CHECK_DEADLOCK FALSE
