SPECIFICATION Spec
CONSTANTS
  N = 2
  MaxFaults = 0
  MaxCancels = 1
PROPERTY KeepsResults
CHECK_DEADLOCK FALSE
