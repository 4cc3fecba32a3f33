SPECIFICATION FairSpec
CONSTANTS
  w1 = w1
  w2 = w2
  c1 = c1
  c2 = c2
  Worker = {w1, w2}
  None = None
  FragmentLimit <- WorkPerFragment
  AggregateLimit <- WorkInTotal
  MaxFragmentBytes = None
  MaxOriginalBytes = None
  MaxFragments = None
  MaxIssues = None
  MaxUsize = 5
  FragmentBytes = {1}
  ScanUse <- WorkUses
  ScanRequest = {1}
  QueueCapacity = 1
  MaxEvents = 5
  Commit = {}
  MaxUniqueCommits = 1
INVARIANTS
  EveryFragmentOnce
  NoSilentTruncation
  TerminationHasCause
  BacklogIsBounded
  UsageAgreesWithFindings
PROPERTIES
  Terminates
