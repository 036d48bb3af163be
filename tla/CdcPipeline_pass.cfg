SPECIFICATION Spec
CONSTANTS
  k1 = k1
  k2 = k2
  Keys = {k1, k2}
  Tables = 2
  TableOf <- TwoTables
  MaxSlotBytes = 2
  MaxLsn = 2
  Faults = {"crash", "source", "log", "sink", "reset"}
  MaxBatch = 6
INVARIANT TargetFollowsSource
INVARIANT ConfirmedIsCommitted
INVARIANT RangeReproduced
INVARIANT StateIsTable
CHECK_DEADLOCK FALSE
