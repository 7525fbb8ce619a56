SPECIFICATION PSpec
CONSTANTS
  Rooms = {default, attic}
  Default = default
  Keys = {k1}
  Values = {v}
  Nodes = {1}
  LocalNode = 1
  HasPeers = FALSE
  NoRec = NoRec
  MaxKeys = 1
  MaxMemory = 1
  MaxActive = 2
  Tick = 1
  MaxOffset = 0
  Faults = {}
  MaxTime = 2
  MaxTs = 3
  MaxLog = 2
  MaxRestarts = 1
  MaxRewrites = 1
INVARIANTS PTypeOK  ClockCoversVisible
CHECK_DEADLOCK FALSE
