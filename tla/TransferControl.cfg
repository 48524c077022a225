CONSTANTS
  r1 = r1
  r2 = r2
  r3 = r3
  None = None
  NoLimit = NoLimit
  Runner = {r1, r2}
  Task = {1, 2}
  Priority = {0}
  WifiOnly = {1}
  CellularLimit <- MCNoLimit
  Chunks = 2
  ChunkBytes = 1
  Operation = {"create", "assist_pin", "config", "pause", "resume", "cancel", "retry"}
  Config <- TwoNetworks
  InitialConfig <- CellHold
  WithDestination = {1}
  Provider = {"good", "bad", "error", "toobig", "quota", "codec"}
  Faults = {"disk", "store"}
  MaxRequests = 3
  MaxCrashes = 1
  Sweeping = TRUE
SPECIFICATION Spec
SYMMETRY Symmetry
CHECK_DEADLOCK FALSE
INVARIANTS TypeOK CompletedIsStored SlotsConserved
PROPERTIES StrandedHasCause
