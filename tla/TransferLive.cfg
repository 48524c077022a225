CONSTANTS
  r1 = r1
  r2 = r2
  r3 = r3
  None = None
  NoLimit = NoLimit
  Runner = {r1, r2, r3}
  Task = {1, 2}
  Priority = {0, 1}
  WifiOnly = {}
  CellularLimit <- MCNoLimit
  Chunks = 1
  ChunkBytes = 1
  Operation = {"create", "priority"}
  Config <- NoConfig
  InitialConfig <- Wifi
  WithDestination = {}
  Provider = {"good", "error"}
  Faults = {}
  MaxRequests = 2
  MaxCrashes = 1
  Sweeping = FALSE
SPECIFICATION FairSpec
CHECK_DEADLOCK FALSE
PROPERTIES QueueMoves WorkEnds
