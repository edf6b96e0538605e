SPECIFICATION DispatchFairSpec
CONSTANTS
  s1 = s1
  s2 = s2
  c1 = c1
  c2 = c2
  NoSession = NoSession
  NoCall = NoCall
  Session <- MCSession
  Call <- MCCall
  Capacity = 1
INVARIANTS
  AnswersAreTrue
PROPERTIES
  DispatchReturns
CHECK_DEADLOCK FALSE
