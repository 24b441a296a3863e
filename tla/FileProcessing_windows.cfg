SPECIFICATION Spec
CONSTANTS
  Tabs = {t1, t2}
  Files = {f1}
  NoFile = NoFile
  Remote = {}
  Viewers = {t1}
  Limit = 2
  MaxVersion = 2
  MaxCrashes = 0
  MaxSlow = 2
  MaxFailures = 0
  MaxRetries = 0
  MaxReads = 0
  MaxPreviews = 1
INVARIANTS
  ReadyIsIndexed
  OneWorker
  CancelsOnlyItsOwn
PROPERTIES
  ResultStands
CHECK_DEADLOCK FALSE
