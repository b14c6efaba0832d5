SPECIFICATION Spec
CONSTANTS
  Names <- MCNames
  Headers <- MCHeaders
  Prefix <- MCPrefix
  MaxName = 4
  MaxHeader = 8
  MaxUrl = 22
  None = None
INVARIANTS
  NameOfHeader
  LinkReaches
CHECK_DEADLOCK FALSE
