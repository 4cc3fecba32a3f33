SPECIFICATION Spec
CONSTANTS
  Absent = Absent
  Up = Up
  Options <- MCOptions
  Trees <- MCTrees
  Changes <- MCChanges
  Root <- MCRoot
  MaxHops = 3
  OsHops = 4
  MaxChanges = 1
INVARIANTS
  EveryPathAnswered
PROPERTIES
  LexicalUntilStopped
