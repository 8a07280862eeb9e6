SPECIFICATION FairSpec
CONSTANTS
  w1 = w1
  w2 = w2
  Sweep = Sweep
  NoOne = NoOne
  Writer = {w1, w2}
  MaxAgain = 1
  MaxFaults = 2
CHECK_DEADLOCK FALSE
INVARIANTS
  TypeOK
  ViewsStayWithTheirRecords
  DeletionsAreRecorded
  OnlyOpenActsLoseBytes
  EvidenceIsWrittenOnce
PROPERTIES
  CompilationsEnd
  OrphansAreCollected
