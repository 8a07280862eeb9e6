SPECIFICATION FairSpec
CONSTANTS
  t1 = t1
  t2 = t2
  t3 = t3
  ann = ann
  bob = bob
  cyd = cyd
  None = None
  Tx = {t1, t2, t3}
  Object = {1, 2, 3, 4}
  Initial = {1, 2}
  Creator <- MCCreator
  Actor = {ann, bob, cyd}
  Type = {"add", "submit", "decide"}
  Key = {"k1","k2","k3"}
  State <- MCState
  Start = "draft"
  Transition <- MCTransition
  Creates = {"add"}
  Restricted = {"decide"}
  Plan <- Overlap
  MaxAttempts = 2
INVARIANTS
  TypeOK
  NoWaitCycle
  RecordsMatchLedger
PROPERTIES
  RefinesActLedger
  EveryDispatchEnds
