SPECIFICATION Spec
CONSTANTS
  w1 = w1
  w2 = w2
  Writers = {w1, w2}
  App <- OwnApps
  Modes <- OneReplaces
  Interval = 2
  CommitAttempts = 2
  FailureLimit = 2
  Faults = {"crash", "put", "checkpoint"}
  MaxBatch = 2
  MaxFiles = 2
INVARIANT AckedIsCommitted
PROPERTY CommitExact
CHECK_DEADLOCK FALSE
