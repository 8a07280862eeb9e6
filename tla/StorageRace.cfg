SPECIFICATION Spec
CONSTANTS
  w1 = w1
  w2 = w2
  Sweep = Sweep
  NoOne = NoOne
  Writer = {w1, w2}
  MaxAgain = 0
  MaxFaults = 0
CHECK_DEADLOCK FALSE
INVARIANTS
  LostBytesAreReported
