SPECIFICATION Spec
CONSTANTS
  m1 = m1
  m2 = m2
  a1 = a1
  Unset = Unset
  NoMac = NoMac
  MAC <- TwoMacs
  Addr <- OneAddr
  MetricItem <- MCMetricItem
  Mandatory <- MCMandatory
  MetricValue <- MCMetricValue
  InitialMetrics <- Full1
  Defer = TRUE
  Supply <- SupplyMany
  AddAddrs <- WithOrWithout
  AddrUpdates <- AddOrRemove
  CommandBudget = 5
  Shutdowns <- None
  Faults <- None
  Heartbeats = FALSE
  Timely = TRUE
SYMMETRY MacSymmetry
INVARIANTS
  SettledSidesAgree
  NoFalseAlarm
CHECK_DEADLOCK FALSE
