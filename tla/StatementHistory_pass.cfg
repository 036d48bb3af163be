SPECIFICATION Spec
CONSTANTS
  s1 = s1
  Ids = {s1}
  Spillable = {s1}
  Capacity = 1
  OverflowCapacity = 1
  MaxCrashes = 1
  MaxRefusals = 1
  MaxRolls = 1
  Faults = {"torn"}
INVARIANT ToldSurvives
INVARIANT BuriedStaysGone
INVARIANT SqlKept
INVARIANT OrderIndependent
INVARIANT NoOrphan
INVARIANT PointerHasFile
CHECK_DEADLOCK FALSE
