SPECIFICATION FairSpec
CONSTANTS
  N = 2
  MaxFaults = 2
  MaxCancels = 1
INVARIANTS
  SucceedsOnlyWhole
  UnstartedRunsNothing
PROPERTIES
  CanceledNeverStarts
  SplitRests
CHECK_DEADLOCK FALSE
