CONSTANTS
  c1 = c1
  c2 = c2
  c3 = c3
  worker1 = worker1
  worker2 = worker2
  None = None
  Handler = handler
  Cid = {c1, c2}
  Thread = {handler, worker1}
  Cached = {c1, c2}
  Controlled = {c1}
  Config <- NoConfig
  InitialConfig <- SmallTight
  Faults = {}
  MaxRequests = 3
  MaxCrashes = 0
SPECIFICATION Spec
CHECK_DEADLOCK FALSE
PROPERTIES EvictionSparesKept
