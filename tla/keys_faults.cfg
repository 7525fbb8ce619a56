SPECIFICATION Spec
CONSTANTS
  Rooms = {default, attic}
  Default = default
  Keys = {k1}
  Values = {v}
  Nodes = {1, 2}
  LocalNode = 1
  HasPeers = TRUE
  NoRec = NoRec
  MaxKeys = 1
  MaxMemory = 1
  MaxActive = 2
  Tick = 1
  MaxOffset = 1
  Faults = {"cold_read", "cold_write", "snapshot_read"}
  MaxTime = 1
  MaxTs = 2
INVARIANTS ClockCovers
CHECK_DEADLOCK FALSE
