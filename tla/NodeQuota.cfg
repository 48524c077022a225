CONSTANTS
  c1 = c1
  c2 = c2
  c3 = c3
  worker1 = worker1
  worker2 = worker2
  None = None
  Handler = handler
  Cid = {c1, c2, c3}
  Thread = {handler, worker1, worker2}
  Cached = {c1, c2}
  Controlled = {c3}
  Config <- SmallConfigs
  InitialConfig <- Small
  Faults = {"file", "store", "stat"}
  MaxRequests = 4
  MaxCrashes = 1
SPECIFICATION Spec
SYMMETRY Symmetry
CHECK_DEADLOCK FALSE
INVARIANTS TypeOK StorageWithinLimit KeptHasFile
PROPERTIES OverrunHasCause OrphanHasCause EvictionSparesKept ImplementsStore
