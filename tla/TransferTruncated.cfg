CONSTANTS
  r1 = r1
  r2 = r2
  r3 = r3
  None = None
  NoLimit = NoLimit
  Runner = {r1, r2}
  Task = {1}
  Priority = {0}
  WifiOnly = {}
  CellularLimit <- MCNoLimit
  Chunks = 2
  ChunkBytes = 1
  Operation = {"create", "pause", "resume"}
  Config <- NoConfig
  InitialConfig <- WifiTwo
  WithDestination = {}
  Provider = {"good"}
  Faults = {}
  MaxRequests = 3
  MaxCrashes = 0
  Sweeping = FALSE
SPECIFICATION Spec
SYMMETRY Symmetry
CHECK_DEADLOCK FALSE
INVARIANTS CompletedIsIntact
