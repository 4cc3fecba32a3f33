SPECIFICATION Spec
CONSTANTS
  w1 = w1
  w2 = w2
  c1 = c1
  c2 = c2
  Worker = {w1, w2}
  None = None
  FragmentLimit <- MixedPerFragment
  AggregateLimit <- MixedInTotal
  MaxFragmentBytes = 2
  MaxOriginalBytes = 3
  MaxFragments = 2
  MaxIssues = 1
  MaxUsize = 3
  FragmentBytes = {1, 2, 3}
  ScanUse <- MixedUses
  ScanRequest = {1, 2}
  QueueCapacity = 1
  MaxEvents = 3
  Commit = {c1, c2}
  MaxUniqueCommits = 1
SYMMETRY Symmetric
INVARIANTS
  TypeOK
  LimitsAreNeverPassed
  ExceededIsTruthful
  LimitIsReported
PROPERTIES
  
  FirstLimitIsFinal
