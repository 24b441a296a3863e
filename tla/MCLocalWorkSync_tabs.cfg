SPECIFICATION Spec
CONSTANTS
  a = a
  b = b
  t1 = t1
  t2 = t2
  i1 = i1
  i2 = i2
  Remote = Remote
  Entities <- OneRow
  Existing <- OneRow
  Intents <- TwoEdits
  Targets <- SameRow
  Tabs <- TwoTabs
  PageSize = 1
  MaxReplace = 1
  MaxRemote = 1
  MaxFaults = 1
SYMMETRY TabSymmetry
INVARIANTS
  EditAppliedOnce
  EditNeverDropped
  NewestEditShown
PROPERTIES
  NeverBackwards
  KeepsLedger
