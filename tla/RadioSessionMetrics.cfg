SPECIFICATION RadioSpec
CONSTANTS
  m1 = m1
  s1 = s1
  s2 = s2
  MAC = {m1}
  Session = {s1}
  Field <- OneField
  Value = {0, 1}
  initial <- Configured
  SessionReports = 2
  Reports = 2
  Requests = 0
INVARIANT SessionMetricsFollowTheTable
CHECK_DEADLOCK FALSE
