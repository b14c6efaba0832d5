SPECIFICATION Spec
CONSTANTS
  c1 = c1
  c2 = c2
  Clients <- MCClients
  Parts = 2
  Retries = 2
  MaxConnections = 1
  Token = FALSE
  TokenAgrees = FALSE
  MaxCalls = 2
  MaxFaults = 1
INVARIANTS
  CountExact
  StoredRecords
PROPERTIES
  SendsComplete
CHECK_DEADLOCK FALSE
