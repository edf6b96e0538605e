SPECIFICATION AnyPeerSpec
CONSTANTS
  m1 = m1
  m2 = m2
  a1 = a1
  Unset = Unset
  NoMac = NoMac
  MAC <- MCMac
  Addr <- MCAddr
  MetricItem <- MCMetricItem
  Mandatory <- MCMandatory
  MetricValue <- MCMetricValue
  FromModem <- MCFromModem
  FromRouter <- MCFromRouter
  Supply <- MCSupply
  InitialMetrics <- Full
  Defer = TRUE
  MaxToModem = 1
  MaxToRouter = 1
INVARIANTS
  TimersMatchState
  RequestsMatchDestinations
  RouterAddressesHaveOneOwner
  ModemHoldsNothingBack
PROPERTY QuietAfterTermination
CHECK_DEADLOCK FALSE
