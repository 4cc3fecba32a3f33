SPECIFICATION ScanSpec
CONSTANTS
  Absent = Absent
  Newline = "nl"
  Precedence <- MCPrecedence
  MaxDecodeDepth = 2
  MaxExtendDepth = 2
  MaxRuleId = 7
  Files <- MCFiles
  GenericIds <- MCGenericIds
  AllowMark = "allow"
  MaxTargetBytes = 9
  HonorMarkers = TRUE
  MaxUsize = 90
  Requests <- MCRequests
  Fragments <- MCFragments
  Texts <- MCTexts
  Byte <- MCByte
  Budgets <- MCBudgets
INVARIANTS
  OnlyFinalizedFindings
  ScanContract
  FindingsAreLocated
  RulesAreAsConfigured
