CONSTANTS
  None = None
  MaxFile = 5
  ChunkSizes = {1, 2}
  ReaderCapacity = 2
  MaxReadAhead = 3
SPECIFICATION FairSpec
INVARIANTS
  NoGapNoOverlap
  SplitIsSafe
  NothingSilentlyMissing
PROPERTIES
  Terminates
