SPECIFICATION FairSpec
CONSTANTS
  s1 = s1
  s2 = s2
  NoOne = NoOne
  Signer = {s1, s2}
  MaxSeq = 3
  MaxFaults = 1
  MaxRotations = 1
  MaxTamper = 1
  MaxTrouble = 2
CHECK_DEADLOCK FALSE
INVARIANTS
  TypeOK
  EveryRowIsAnchored
  RangesTileTheLog
  CleanLedgerVerifies
  SignedHistoryIsPinned
  ProofsBindOneEvent
PROPERTIES
  EveryActIsSigned
