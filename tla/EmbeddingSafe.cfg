SPECIFICATION FairSpec
CONSTANTS
  c1 = c1
  c2 = c2
  p1 = p1
  p2 = p2
  Object = {1}
  Proc = {p1, p2}
  Consumer = {c1, c2}
  Of <- TwoProcesses
  MaxVersion = 3
  MaxAttempts = 2
  FailureLimit = 1
  MaxFaults = 2
CHECK_DEADLOCK FALSE
INVARIANTS
  TypeOK
  DequeuedIsEmbedded
  NeverBeside
PROPERTIES
  VectorNeverGoesBack
  EmbeddedOrRecorded
