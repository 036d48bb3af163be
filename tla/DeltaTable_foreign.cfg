SPECIFICATION Spec
CONSTANTS
  w1 = w1
  w2 = w2
  Writers = {w1}
  App <- OwnApps
  Modes <- Both
  Interval = 2
  CommitAttempts = 2
  FailureLimit = 2
  Faults = {"crash", "put", "ack", "read", "checkpoint", "unreadable", "compact"}
  MaxBatch = 2
  MaxFiles = 2
INVARIANT LiveViewExact
INVARIANT CheckpointExact
CHECK_DEADLOCK FALSE
