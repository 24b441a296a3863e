SPECIFICATION FairSpec
CONSTANTS
  a = a
  b = b
  t1 = t1
  t2 = t2
  i1 = i1
  i2 = i2
  Remote = Remote
  Entities <- TwoRows
  Existing <- OneRow
  Intents <- TwoEdits
  Targets <- Compound2
  Tabs <- OneTab
  PageSize = 2
  MaxReplace = 2
  MaxRemote = 2
  MaxFaults = 1
INVARIANTS
  NoLostUpdate
  CursorCoversChanges

  
  
