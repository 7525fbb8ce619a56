SPECIFICATION Spec
CONSTANTS
  Rooms = {default, attic}
  Default = default
  Keys = {k1}
  Values = {v}
  Nodes = {1, 2}
  LocalNode = 1
  HasPeers = TRUE
  NoRec = NoRec
  MaxKeys = 1
  MaxMemory = 1
  MaxActive = 2
  Tick = 1
  MaxOffset = 1
  Faults = {}
  MaxTime = 2
  MaxTs = 3
INVARIANTS WithinLimits RamXorCold TombXorRecord
PROPERTIES ImplementsStore NothingLost
CHECK_DEADLOCK FALSE
