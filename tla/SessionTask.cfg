SPECIFICATION TaskFairSpec
CONSTANTS
  e1 = e1
  c1 = c1
  c2 = c2
  other = other
  m1 = m1
  NoCommand = NoCommand
  Extension <- MCExtension
  Command <- MCCommand
  Foreign <- MCForeign
  Mac <- MCMac
  Capacity = 2
  TimerId <- MCTimerId
  Periodic <- MCPeriodic
  ExpiryCapacity = 2
  MaxGeneration = 3
INVARIANTS
  LifecycleIsReported
  ReceiptsAreHonest
  ArmedTimersRun
PROPERTIES
  NothingWaitsForEver
  
CHECK_DEADLOCK FALSE
