\* Two callers, three documents, every call but the last may fail.
SPECIFICATION Spec
CONSTANTS
  empty = empty
  first = first
  second = second
  a = a
  b = b
  Absent = Absent
  Torn = Torn
  None = None
  Thread = {a, b}
  Doc = {empty, first, second}
  Default = empty
  Faults = {"create", "write", "sync", "copy", "rename"}
  MaxTransactions = 3
  MaxCrashes = 2
CHECK_DEADLOCK FALSE
SYMMETRY Symmetry
INVARIANT NeverTorn
INVARIANT MemoryIsStored
INVARIANT NothingUndone
PROPERTY ImplementsDocument
