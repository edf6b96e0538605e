SPECIFICATION FairSpec
CONSTANTS
  m1 = m1
  m2 = m2
  a1 = a1
  Unset = Unset
  NoMac = NoMac
  MAC <- OneMac
  Addr <- NoAddr
  MetricItem <- MCMetricItem
  Mandatory <- MCMandatory
  MetricValue <- MCMetricValue
  InitialMetrics <- Full1
  Defer = TRUE
  Supply <- SupplyOne
  AddAddrs <- Without
  AddrUpdates <- NoUpdates
  CommandBudget = 3
  Shutdowns <- BothSides
  Faults <- AllFaults
  Heartbeats = TRUE
  Timely = TRUE
PROPERTIES
  SessionsEndTogether
  RequestsComplete
CHECK_DEADLOCK FALSE
