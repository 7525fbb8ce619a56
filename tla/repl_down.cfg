SPECIFICATION FairSpec
CONSTANTS
  Nodes = {1, 2, 3}
  Rooms = {default}
  Default = default
  None = None
  Down = {3}
  Faults = {"rewrite", "refusal"}
  MaxTs = 3
  MaxWrites = 2
  MaxBatch = 1
  MaxFaults = 1
INVARIANTS TypeOK 
 
CHECK_DEADLOCK FALSE
