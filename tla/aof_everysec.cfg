CONSTANTS
  SyncPolicy = "everysec"
  Faults = {"open", "write", "cut", "sync", "rewrite"}
  Crashes = {"shutdown", "process", "power"}
  MaxMut = 3
  MaxRestarts = 1
  MaxRewrites = 2
SPECIFICATION FairSpec
INVARIANTS
  SyncedIsDurable
  SyncedWithinSize
  SizeIsWholeRecords
  ConfirmedIsReplayed
  TornIsLast
PROPERTIES
  SyncedPrefixSurvives
  RewriteLosesNothing
  
CHECK_DEADLOCK FALSE
