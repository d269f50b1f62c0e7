SPECIFICATION Spec
CONSTANTS
  Base = 2
  Width = 4
  MaxItems = 1
  MaxPair = 3
  Characters = {"a", "A", "b", "c", "%", "2", "5"}
  Shapes <- MCShapes
  Setups <- MCSetups
  Items <- MCItems
  MaxSpans = 3
  MaxHeld = 1
INVARIANTS
  FlagsReachDownstream
CHECK_DEADLOCK FALSE
