SPECIFICATION FairSpec
CONSTANTS
  p1 = p1
  p2 = p2
  s1 = s1
  s2 = s2
  s3 = s3
  l1 = l1
  r1 = r1
  Runs = {r1}
  Owners = {p1}
  Slots = {s1, s2}
  Landers = {}
  OwnerOf <- MCOwnerOf
  TimedRuns = {r1}
  MaxFaults = 1
  MaxCancels = 1
PROPERTIES
  EveryEndRecorded
  EveryRunRests
CHECK_DEADLOCK FALSE
