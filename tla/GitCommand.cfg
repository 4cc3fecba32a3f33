CONSTANTS
  PipeCapacity = 2
  MaxOutput = 3
  Limit <- TwoAndNone
SPECIFICATION FairSpec
INVARIANTS
  OutputIsWhole
  VerdictIsTrue
  NoOrphan
PROPERTIES
  CollectionEnds
