SPECIFICATION Spec
CONSTANTS
  c1 = c1
  c2 = c2
  w1 = w1
  w2 = w2
  Workers <- MCWorkers
  Clients <- MCClients
  Limits = {1, 2}
  MaxTasks = 3
INVARIANTS
  RunOnce
  NoIdleThread
PROPERTIES
  TasksRun
  AllReturn
  ImplementsQueue
CHECK_DEADLOCK FALSE
