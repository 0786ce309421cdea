SPECIFICATION ResolvedSpec
CONSTANTS
  m1 = m1
  m2 = m2
  r1 = r1
  r2 = r2
  None = None
  Undefined = Undefined
  Inputs = {}
  Module <- MCModule
  Rev <- MCRev
  Documents <- MCDocuments
  MaxModules = 3
  MaxPlanned = 1
  Roots <- MCRoots
  Answers <- MCAnswers
INVARIANTS
  CyclesAreCut
  WavesFollowDependencies
  EveryChildIsAccountedFor
  DependenciesAreDeclared
  DuplicatesAreReported
  OnlyTheStuckAreBlocked
PROPERTIES
  ClosureSpec
  Ends
CHECK_DEADLOCK FALSE
