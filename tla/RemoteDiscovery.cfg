CONSTANTS
  PipeCapacity = 2
  MaxOutput = 3
  OutputLimit = 2
SPECIFICATION FairSpec
INVARIANTS
  ConclusionFromAll
  VerdictIsTrue
  NoOrphan
PROPERTIES
  DiscoveryEnds
