SPECIFICATION Spec
CONSTANTS
  s1 = s1
  Ids = {s1}
  Spillable = {s1}
  Capacity = 1
  OverflowCapacity = 1
  MaxCrashes = 1
  MaxRefusals = 0
  MaxRolls = 0
  Faults = {}
INVARIANT ToldIsDurable
CHECK_DEADLOCK FALSE
