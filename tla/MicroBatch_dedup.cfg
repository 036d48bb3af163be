SPECIFICATION Spec
CONSTANTS
  f1 = f1
  f2 = f2
  f3 = f3
  f4 = f4
  Records = {f1, f2, f3, f4}
  Blank = {}
  Keys = {f1, f2, f3, f4}
  KeyOf <- SharedKey
  Dedup = TRUE
  Budgeted = TRUE
  Persistent = FALSE
  Faults = {"source", "expect", "plan_log", "sink"}
  RetryAttempts = 2
  MaxRecovered = 2
  PruneBatch = 1
  MaxBatch = 4
  MaxRuns = 4
  MaxUnacked = 2
INVARIANT OneRowPerKey
INVARIANT EveryKeyKept
CHECK_DEADLOCK FALSE
