\* A plain request and two library scans that share an operation; two calls at a time.
SPECIFICATION Spec
CONSTANTS
  c1 = c1
  c2 = c2
  p1 = p1
  p2 = p2
  None = None
  Key = {1, 3, 4}
  Name = {30, 40}
  Operation <- MCOperation
  Transactions <- MCTransactions
  Fingerprint = {p1, p2}
  Guarded = {3, 4}
  Following = {}
  Background = {3, 4}
  Call = {c1, c2}
  Rank <- MCRank
  Capacity = 7
  Faults = {"handler", "store", "disconnect"}
  MaxRequests = 4
  MaxCrashes = 1
CHECK_DEADLOCK FALSE
SYMMETRY Symmetry
INVARIANT OneAnswer
PROPERTY AcknowledgedOnce
PROPERTY GuardedOnce
