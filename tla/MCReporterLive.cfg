SPECIFICATION FairSpec
CONSTANTS
  Spans = {s1, s2}
  Closers = {c1, c2}
  QueueSize = 1
  CloseItem = CloseItem
  NoItem = NoItem
  MaxGen = 1
  MaxUserRefs = 1
PROPERTIES
  CloseTerminates SpansResolved
CHECK_DEADLOCK FALSE
