SPECIFICATION FairSpec
CONSTANTS
  q1 = q1  q2 = q2
  Resolvers <- TwoResolvers
  Timeout = 0
  TimeoutParses = TRUE
  GatesEnabled = FALSE
  MaxGates = 1
  MaxRequests = 3
  MaxTime = 5
  Ops = {}
PROPERTIES DisabledGateIsNotExecuted
CHECK_DEADLOCK FALSE
