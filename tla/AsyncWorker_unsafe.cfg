SPECIFICATION SafetySpec
CONSTANTS
  Messages <- MCMessages
  LenOf <- MCLenOf
  Producers <- MCProducers
  p1 = p1
  p2 = p2
  s1 = s1
  s2 = s2
  empty = empty
  short = short
  long = long
  BufferSize = 2
  Threshold = 4
  LinearGrowth = 2
  SizeMax = 9
  MaxLen = 4
  Stoppers <- MCStoppers
  AsyncSafe = FALSE
  MaxPushes = 4
SYMMETRY Symmetry
INVARIANT TypeOK
CHECK_DEADLOCK FALSE
