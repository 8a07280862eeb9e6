SPECIFICATION Spec
CONSTANTS
  c1 = c1
  c2 = c2
  p1 = p1
  p2 = p2
  Object = {1}
  Proc = {p1, p2}
  Consumer = {c1, c2}
  Of <- TwoProcesses
  MaxVersion = 2
  MaxAttempts = 2
  FailureLimit = 2
  MaxFaults = 0
CHECK_DEADLOCK FALSE
INVARIANTS
  NothingHeldIsStale
