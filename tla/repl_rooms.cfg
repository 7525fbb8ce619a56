SPECIFICATION Spec
CONSTANTS
  Nodes = {1, 2}
  Rooms = {default, other}
  Default = default
  None = None
  Down = {}
  Faults = {"refusal"}
  MaxTs = 3
  MaxWrites = 2
  MaxBatch = 1
  MaxFaults = 1
INVARIANT RoomsStayApart
CHECK_DEADLOCK FALSE
