SPECIFICATION FairSpec
CONSTANTS
  r1 = r1
  r2 = r2
  j1 = j1
  j2 = j2
  s1 = s1
  write = write
  look = look
  Runs <- TwoRuns
  Jobs <- TwoJobs
  Sessions <- OneSession
  NoRun = NoRun
  NoSession = NoSession
  Calls <- OneWrite
  Writes <- OneWrite
  Answers <- Write1
  MaxSteps = 2
  MaxWrites = 1
  MaxMessages = 6
  Routes = 1
  Reserve = 2
  Usages = {2}
  Budget = 4
  RequestLimit = 3
  MaxDays = 0
  MaxCrashes = 1
  MaxEdits = 1
  MaxLogouts = 0
  MaxChanges = 0
  MaxFaults = 2
CHECK_DEADLOCK FALSE
PROPERTIES
  RestartEnds
