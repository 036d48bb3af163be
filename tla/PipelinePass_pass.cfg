CONSTANTS
  seed = seed
  bronze = bronze
  silver = silver
  gold = gold
  Order <- Medallion
  Streams = {seed, bronze}
  SqlReads <- Reads
  FlowReads <- SeedFlow
  Outside = {}
  OnceTables = {seed}
  Selections <- OneTable
  Faults = {"crash", "table", "late", "load", "save"}
  MaxVersion = 1
  MaxTxn = 2
  MaxEdits = 2
SPECIFICATION Spec
INVARIANT UpdatedIsCurrent
INVARIANT UnchangedIsCurrent
INVARIANT FailureContained
PROPERTY NoIdleRewrite
