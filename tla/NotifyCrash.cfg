SPECIFICATION Spec
CONSTANTS
  MaxItem = 2
  Person = {1, 2}
  Audience <- BlockerThenProposal
  PushPerson = 0
  MaxFailures = 2
  MaxCrashes = 1
  MaxChanges = 0
PROPERTY CrashRepeatsNobody
