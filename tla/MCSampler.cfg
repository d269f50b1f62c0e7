SPECIFICATION FairSpec
CONSTANTS
  u1 = u1
  u2 = u2
  loop = loop
  manual = manual
  closer1 = closer1
  closer2 = closer2
  get = get
  put = put
  del = del
  Users = {u1, u2}
  Loop = loop
  Manuals = {manual}
  Closers = {closer1}
  Operations = {get, put, del}
  Strategies <- EveryKind
  InitialRate = 1
  MaxRate = 2
  MaxOperations = 2
  MaxServerChanges = 1
  MaxConsults = 3
INVARIANTS SamplerFollowsStrategy NoTornDecision OneLimiterPerOperation
PROPERTIES Converges CloseReturns
CHECK_DEADLOCK FALSE
