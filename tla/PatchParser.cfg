SPECIFICATION PatchSpec
CONSTANTS
  None = None
  DevNull = DevNull
  Histories <- MCHistories
  Damage <- MCDamage
  Limits <- MCLimits
  TooLong = {"long"}
  Archives = {"zip"}
INVARIANTS
  ReadAsWritten
  AcceptedIsComplete
