SPECIFICATION Spec
CONSTANTS
  f1 = f1
  f2 = f2
  why = why
  Root = Root
  None = None
  Ref <- MCRef
  Text <- MCText
  MaxNode = 4
  MaxChildren = 1
  MaxGen = 2
  MaxRev = 1
INVARIANTS
  BusyBadgeTellsTheRun
PROPERTIES
  OnlyTheCurrentRunProjects
  RunsEnd
CHECK_DEADLOCK FALSE
