SPECIFICATION Spec
CONSTANTS
  None = None
  Limits <- MCLimits
  Entry <- MCEntry
  Sizes = {1, 2}
  MaxEntries = 4
INVARIANTS
  LimitsHold
  NothingHidden
PROPERTIES
  StopIsFinal
