SPECIFICATION ReviewingSpec
CONSTANTS
  a = a
  b = b
  t1 = t1
  t2 = t2
  i1 = i1
  i2 = i2
  Remote = Remote
  Entities <- OneRow
  Existing <- OneRow
  Intents <- TwoEdits
  Targets <- SameRow
  Tabs <- OneTab
  PageSize = 1
  MaxReplace = 3
  MaxRemote = 2
  MaxFaults = 0
PROPERTY
  SuccessorsProceed
