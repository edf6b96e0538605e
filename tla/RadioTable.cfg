SPECIFICATION RadioFairSpec
CONSTANTS
  m1 = m1
  s1 = s1
  s2 = s2
  MAC = {m1}
  Session = {s1}
  Field <- OneField
  Value = {0, 1}
  initial <- Configured
  SessionReports = 1
  Reports = 4
  Requests = 1
INVARIANTS
  SessionsFollowTheTable
PROPERTIES
  BridgeComesToRest
CHECK_DEADLOCK FALSE
