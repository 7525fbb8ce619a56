SPECIFICATION PSpec
CONSTANTS
  Rooms = {default}
  Default = default
  Keys = {k1}
  Values = {v}
  Nodes = {1}
  LocalNode = 1
  HasPeers = TRUE
  NoRec = NoRec
  MaxKeys = 1
  MaxMemory = 0
  MaxActive = 2
  Tick = 1
  MaxOffset = 1
  Faults = {}
  MaxTime = 1
  MaxTs = 5
  MaxLog = 3
  MaxRestarts = 1
  MaxRewrites = 1
INVARIANT RestartRestores
CHECK_DEADLOCK FALSE
