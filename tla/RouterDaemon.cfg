SPECIFICATION DaemonFairSpec
CONSTANTS
  a1 = a1
  a2 = a2
  a3 = a3
  d1 = d1
  d2 = d2
  Attempt <- MCAttempt
  Starter <- MCStarter
  MaxSessions = 2
INVARIANTS
  SlotsAreAccounted
  TasksAreFindable
PROPERTIES
  RouterShutdownReturns
CHECK_DEADLOCK FALSE
