CONSTANTS
  r1 = r1
  r2 = r2
  r3 = r3
  None = None
  NoLimit = NoLimit
  Runner = {r1, r2, r3}
  Task = {1, 2}
  Priority = {0}
  WifiOnly = {}
  CellularLimit <- OneLimited
  Chunks = 2
  ChunkBytes = 2
  Operation = {"create"}
  Config <- NoConfig
  InitialConfig <- CellTwo
  WithDestination = {}
  Provider = {"good", "bad", "error"}
  Faults = {}
  MaxRequests = 4
  MaxCrashes = 1
  Sweeping = FALSE
SPECIFICATION Spec
SYMMETRY Symmetry
CHECK_DEADLOCK FALSE
INVARIANTS OneRunnerPerTask CompletedIsIntact CellularWithinOneChunk
PROPERTIES TerminalStays
