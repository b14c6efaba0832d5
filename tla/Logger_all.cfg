SPECIFICATION Spec
CONSTANTS
  c1 = c1
  Callers <- MCCallers
  Configs <- MCConfigs
  SizeOf <- MCSizeOf
  NoFile = NoFile
  None = None
  MaxSize = 2
  MaxFaults = 2
  MaxLogs = 3
INVARIANTS
  AccountedAtExit
  NoSilentLoss
  RollBound
PROPERTIES
  DropsOnlyWhenFull
  ImplementsQueue
  ShutdownEnds
CHECK_DEADLOCK FALSE
