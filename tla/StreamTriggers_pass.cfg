SPECIFICATION FairSpec
CONSTANTS
  c1 = c1
  Clients = {c1}
  Task = Task
  Blank = {2}
  MaxDrainBatches = 4
  MaxOffset = 3
  MaxFailures = 1
  MaxCommands = 2
INVARIANT TypeOK
INVARIANT BatchesChain
INVARIANT OneLateBatch
INVARIANT DrainCovers
INVARIANT DrainBounded
PROPERTY OnceTerminates
CHECK_DEADLOCK FALSE
