CONSTANTS
  SyncPolicy = "always"
  Faults = {"open", "write", "cut", "sync", "rewrite", "header", "startup_open", "recover_cut", "orphan"}
  Crashes = {"shutdown", "process", "power"}
  MaxMut = 3
  MaxRestarts = 2
  MaxRewrites = 2
SPECIFICATION Spec
INVARIANTS
  AlwaysIsDurable
CHECK_DEADLOCK FALSE
