SPECIFICATION FairSpec
CONSTANTS
  Movers = {m1, m2}
  Sweepers = {w1}
  Heard = {"hold", "start", "end"}
  MaxFaults = 2
INVARIANTS OwedOrRecorded RecordedOnce
PROPERTIES EndIsRecorded NothingStaysOwed
CHECK_DEADLOCK FALSE
