SPECIFICATION FairSpec
CONSTANTS
  a = a
  b = b
  p1 = p1
  p2 = p2
  s1 = s1
  s2 = s2
  Steps = {a, b}
  Follows <- MCFollows
  MaxSeq = 2
  Processes = {p1, p2}
  Slots = {s1, s2, s3}
  OwnerOf <- MCOwnerOf
  PerTarget = 2
  MaxAttempts = 2
  MaxFaults = 1
INVARIANTS InOrder NoteIsTrue DeliveredArrived
PROPERTIES EveryDeliveryFinishes
CHECK_DEADLOCK FALSE
