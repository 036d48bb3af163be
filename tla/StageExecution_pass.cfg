SPECIFICATION FairSpec
CONSTANTS
  W = 2
  NP = 2
  Slots = 2
  Stages = {0, 1, 2, 3}
  Up <- Branches
  Forward = {1}
  Output = 3
  Queries = 2
  Owner <- Swapped
  MaxTries = 2
  Moduli <- Sampled
  Faults = {"refuse", "answer", "error", "cut", "late", "restart", "spill", "leave", "interrupt", "abandon"}
  MaxFailures = 1
INVARIANT TypeOK
 
 
 
PROPERTY QueryEnds
CHECK_DEADLOCK FALSE
