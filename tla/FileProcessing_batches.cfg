SPECIFICATION FairSpec
CONSTANTS
  Tabs = {t1}
  Files = {f1, f2}
  NoFile = NoFile
  Remote = {f1}
  Viewers = {t1}
  Limit = 1
  MaxVersion = 1
  MaxCrashes = 1
  MaxSlow = 0
  MaxFailures = 1
  MaxRetries = 1
  MaxReads = 1
  MaxPreviews = 0
PROPERTIES
  RestartResumes
  WakeDuringDrain
CHECK_DEADLOCK FALSE
