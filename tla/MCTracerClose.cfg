SPECIFICATION Spec
CONSTANTS
  op1 = op1
  op2 = op2
  Operations <- MCOperations
  Callers = {c1}
  Poller = poller
  Synchronous = TRUE
  Supply <- MCSupply
  key1 = key1
  key2 = key2
  Keys <- MCKeys
  Policies <- MCPolicies
  DefaultMaxLength = 3
  Deny = FALSE
  MaxPolicyChanges = 1
INVARIANTS CreditsConserved NoPollAfterClose LastAnswerHolds
PROPERTY CloseReturns
CHECK_DEADLOCK FALSE
