SPECIFICATION Spec
CONSTANTS
  Movers = {m1, m2}
  Sweepers = {w1}
  Heard = {"hold", "start", "end"}
  MaxFaults = 0
INVARIANT StartNotAfterEnd
CHECK_DEADLOCK FALSE
