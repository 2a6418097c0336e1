SPECIFICATION MCSpec
CONSTANTS
  b = b
  y = y
  n = n
  g = g
  p1 = p1
  p2 = p2
  Tools = {b, y, n}
  Gate = g
  Deps <- MCDeps
  OnDeny = {n}
  Continues = {}
  Processes = {p1, p2}
  MaxFaults = 1
INVARIANTS StartedOnce SucceedsOnlyWhole
PROPERTIES KeepsPromise DecidedGoesOn ComesToRest
CHECK_DEADLOCK FALSE
