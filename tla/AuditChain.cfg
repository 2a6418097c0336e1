SPECIFICATION FairSpec
CONSTANTS
  w1 = w1
  w2 = w2
  r1 = r1
  n1 = n1
  Writers = {w1, w2}
  Runs = {r1}
  Notes = {n1}
  MaxClock = 2
  MaxAhead = 1
  MaxBeats = 2
  MaxFaults = 1
INVARIANTS OnceEach InversionShowsStep BeatsAttest OwedOrRecorded
PROPERTIES OutcomeIsRecorded
CHECK_DEADLOCK FALSE
