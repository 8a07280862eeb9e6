SPECIFICATION FairSpec
CONSTANTS
  MaxItem = 2
  Person = {1, 2}
  Audience <- BlockerThenProposal
  PushPerson = 2
  MaxFailures = 2
  MaxCrashes = 1
  MaxChanges = 1
INVARIANTS
  TypeOK
  RepeatsNeedACrash
  NobodyIsSkipped
PROPERTIES
  EveryItemIsTold
