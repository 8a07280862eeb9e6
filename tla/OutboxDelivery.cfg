SPECIFICATION FairSpec
CONSTANTS
  w1 = w1
  w2 = w2
  r1 = r1
  Worker = {w1, w2}
  Rebuild = {r1}
  Object = {1, 2}
  MaxActs = 3
  Batch = 2
  Poison = {{}, {2}}
  MaxCrash = 1
  Deployment <- Deployments
CHECK_DEADLOCK FALSE
INVARIANTS
  TypeOK
  DeliveredIsIndexed
  NoRowIsDoneTwice
PROPERTIES
  HealthyRowsAreDelivered
