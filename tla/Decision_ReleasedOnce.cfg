SPECIFICATION Spec
CONSTANTS
  p1 = p1
  p2 = p2
  d1 = d1
  d2 = d2
  j1 = j1
  j2 = j2
  Procs = {p1, p2}
  Deciders = {d1}
  Janitors = {j1}
  ProcOf <- MCProcOf
  VerdictOf <- MCVerdictOf
  Split = TRUE
  MaxFaults = 1
  MaxCancels = 0
INVARIANTS
  ReleasedOnce
CHECK_DEADLOCK FALSE
