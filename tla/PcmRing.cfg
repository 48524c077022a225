\* A ring of four samples whose cursors wrap at eight, three sessions of five
\* frames, a device that asks for two frames at a time.
SPECIFICATION FairSpec
CONSTANTS
  Capacity = 4
  Wrap = 8
  Channels = 2
  Period = 4
  Samples = 10
  Sessions = 3
  Quiet = TRUE
CHECK_DEADLOCK FALSE
INVARIANT TypeOK
INVARIANT NoRace
INVARIANT InOrder
PROPERTY ImplementsQueue
PROPERTY EverythingHeard
