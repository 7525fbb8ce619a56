SPECIFICATION FairSpec
CONSTANTS
  c1 = c1
  c2 = c2
  Conns = {c1, c2}
  Fds = {1, 2}
  Reader = c1
  Channels = {ch}
  Requests <- MCRequests
  MaxSent <- MCMaxSent
  Settings <- MCSettings
  MaxArmed = 1
  Entries = 1
  Budget = 1
  Chunk = 2
  InputCap = 2
  OutputCap = 1
  UnauthCap = 1
  MaxBuffers = 3
  SendSpace = 1
  Faults = {"lost_cqe", "accept"}
INVARIANTS TypeOK TicketsExact NobodyForgotten RoutesAreOwn  BuffersAccounted 
 
