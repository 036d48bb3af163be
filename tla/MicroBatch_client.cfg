SPECIFICATION Spec
CONSTANTS
  f1 = f1
  f2 = f2
  f3 = f3
  f4 = f4
  Records = {f1, f2, f3, f4}
  Blank = {f4}
  Keys = {f1, f2, f3, f4}
  KeyOf <- OwnKey
  Dedup = FALSE
  Budgeted = TRUE
  Persistent = TRUE
  Faults = {"crash", "source", "expect", "plan_log", "sink", "ack", "commit_log", "durable"}
  RetryAttempts = 2
  MaxRecovered = 2
  PruneBatch = 1
  MaxBatch = 4
  MaxRuns = 3
  MaxUnacked = 2
INVARIANT NoLoss
INVARIANT StampedExtent
SYMMETRY Alike
CHECK_DEADLOCK FALSE
