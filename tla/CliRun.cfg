SPECIFICATION FairSpec
CONSTANTS
  None = None
  Overlong = Overlong
  Unreadable = Unreadable
  Commit = {"a", "b"}
  Place = {"here"}
  Secret = {"old", "new"}
  IgnoreFiles <- MCIgnoreFiles
  Baselines <- MCBaselines
  ExitCodes <- MCExitCodes
  MaxFragments = 2
INVARIANTS
  ExitCodeIsTruthful
  NothingLeftBehind
PROPERTIES
  TimeoutEnds
