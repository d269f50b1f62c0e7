SPECIFICATION Spec
CONSTANTS
  Spans = {s1, s2}
  Closers = {c1}
  QueueSize = 1
  CloseItem = CloseItem
  NoItem = NoItem
  MaxGen = 2
  MaxUserRefs = 0
INVARIANTS
  ReferencesExact NoUseAfterPut NoCorruption
  DeliveryInOrder CountersExact
PROPERTY ImplementsDelivery
SYMMETRY Symmetry
CHECK_DEADLOCK FALSE
