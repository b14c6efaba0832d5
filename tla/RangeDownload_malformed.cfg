SPECIFICATION Spec
CONSTANTS
  UMax = 3
  OffMax = 3
INVARIANT MalformedIgnored
CHECK_DEADLOCK FALSE
