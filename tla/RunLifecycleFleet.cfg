SPECIFICATION Spec
CONSTANTS
  p1 = p1
  p2 = p2
  s1 = s1
  s2 = s2
  s3 = s3
  l1 = l1
  r1 = r1
  Runs = {r1}
  Owners = {p1, p2}
  Slots = {s1, s3}
  Landers = {l1}
  OwnerOf <- MCOwnerOf
  TimedRuns = {r1}
  MaxFaults = 2
  MaxCancels = 1
INVARIANTS
  OneExecution
  RunsUnderItsClaim
  ChainAgrees
PROPERTIES
  StartedOnce
  OnlyASaveRewritesAnEnd
CHECK_DEADLOCK FALSE
