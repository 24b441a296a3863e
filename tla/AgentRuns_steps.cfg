SPECIFICATION Spec
CONSTANTS
  r1 = r1
  r2 = r2
  j1 = j1
  j2 = j2
  s1 = s1
  write = write
  look = look
  Runs <- TwoRuns
  Jobs <- TwoJobs
  Sessions <- OneSession
  NoRun = NoRun
  NoSession = NoSession
  Calls <- WriteAndRead
  Writes <- OneWrite
  Answers <- ReadWrite
  MaxSteps = 2
  MaxWrites = 1
  MaxMessages = 6
  Routes = 2
  Reserve = 2
  Usages = {1, 2}
  Budget = 3
  RequestLimit = 3
  MaxDays = 1
  MaxCrashes = 1
  MaxEdits = 1
  MaxLogouts = 1
  MaxChanges = 1
  MaxFaults = 1
SYMMETRY RunSymmetry
CHECK_DEADLOCK FALSE
INVARIANTS
  WritesApprovedOnce
  PaidOnce
  ChargeCoversBill
  BudgetKept
  OneRunning
  NoneAbandoned
PROPERTIES
  FinishedStays
