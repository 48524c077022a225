\* Two calls at a time, every operation, failures, one closed page.
SPECIFICATION Spec
CONSTANTS
  c1 = c1
  c2 = c2
  album = album
  track = track
  cover = cover
  audio = audio
  None = None
  Call = {c1, c2}
  Cid = {album, track}
  Block = {cover, audio}
  Dag <- MCDag
  Operations = {"start", "stop", "connect", "add", "add_pin", "cat", "pin", "unpin"}
  Opened = {TRUE, FALSE}
  Faults = TRUE
  Serialised = TRUE
  MAX_CAT_BYTES = 1
  Limits = {0, 3}
  MaxRequests = 3
  MaxCrashes = 1
CHECK_DEADLOCK FALSE
INVARIANT TypeOK
INVARIANT StatusAnswers
INVARIANT HonestLifecycle
INVARIANT PinnedIsProtected
INVARIANT NoCallHangs
SYMMETRY MCSymmetry
