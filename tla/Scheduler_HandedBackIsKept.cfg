SPECIFICATION Spec
CONSTANTS
  s1 = s1
  s2 = s2
  Servers = {s1, s2}
  N = 2
  MaxFaults = 2
INVARIANT HandedBackIsKept
