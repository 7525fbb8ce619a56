SPECIFICATION Spec
CONSTANTS
  Rooms = {default, attic, cellar}
  Default = default
  MaxRooms = 2
  MaxActive = 2
  MaxKeys = 1
  MaxMemory = 1
  SnapshotFails = TRUE
INVARIANTS CounterExact LockedIsSettled MemoryAccounted ForkSeesSettled
PROPERTIES BudgetRespected OnlyIdleHibernate
SYMMETRY Symmetry
