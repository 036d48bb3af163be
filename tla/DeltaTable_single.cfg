SPECIFICATION Spec
CONSTANTS
  w1 = w1
  w2 = w2
  Writers = {w1}
  App <- OwnApps
  Modes <- Appends
  Interval = 2
  CommitAttempts = 3
  FailureLimit = 2
  Faults = {"crash", "put", "checkpoint", "compact"}
  MaxBatch = 3
  MaxFiles = 3
INVARIANT BatchOnce
CHECK_DEADLOCK FALSE
