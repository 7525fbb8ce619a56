SPECIFICATION FairSpec
CONSTANTS
  Rooms = {default, attic}
  Default = default
  MaxRooms = 1
  MaxActive = 1
  MaxKeys = 1
  MaxMemory = 1
  SnapshotFails = TRUE

PROPERTIES CommandsReturn IdleRoomsSleep
