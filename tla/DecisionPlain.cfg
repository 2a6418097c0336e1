SPECIFICATION FairSpec
CONSTANTS
  p1 = p1
  p2 = p2
  d1 = d1
  d2 = d2
  j1 = j1
  j2 = j2
  Procs = {p1, p2}
  Deciders = {d1, d2}
  Janitors = {j1, j2}
  ProcOf <- MCProcOf
  VerdictOf <- MCVerdictOf
  Split = FALSE
  MaxFaults = 1
  MaxCancels = 1
INVARIANTS
  OnlyTheWinnerIsRecorded
  RecordedBeforeItTakesEffect
  DecisionBeforeOutcome
  WinnerKeepsItsRecord
PROPERTIES
  ImplementsGate
  DecidedRunRests
CHECK_DEADLOCK FALSE
