SPECIFICATION Spec
CONSTANTS
  Limits = {0, 1, 2, 3, 4, 5}
  MaxLogCalls = 12
  MaxBulk = 2
  Rates = {1, 2}
  Maxima = {1, 3}
  Costs = {1, 3}
  Unit = 3
  MaxTime = 4
  MaxUpdates = 2
  MaxChecks = 4
  Calls = {c1, c2, c3}
  Operations = {"get", "put", "put!"}
  Normal <- MCNormal
  MaxEndpoints = 1
  Codes = {65736}
  MaxTags = 1
  MaxCalls = 4
INVARIANTS
  LogsExact
  WindowBound
  EndpointsExact
  AnswersInStep
CHECK_DEADLOCK FALSE
