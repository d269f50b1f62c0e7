SPECIFICATION Spec
CONSTANTS
  root = root
  childA = childA
  childB = childB
  g1 = g1
  g2 = g2
  Root = root
  Spans = {root, childA, childB}
  Threads = {g1, g2}
  Setups <- EverySetup
INVARIANTS PositiveSticks NegativeIsUnanimous SampledSpansReported RemoteDecisionKept DecidedOnce
SYMMETRY Goroutines
CHECK_DEADLOCK FALSE
