SPECIFICATION Spec
CONSTANTS
  u1 = u1
  u2 = u2
  t1 = t1
  t2 = t2
  None = None
  Unit <- MCUnit
  Text <- MCText
  MaxAnswers = 2
  MaxEdits = 2
  MaxChildren = 1
SYMMETRY MCSymmetry
INVARIANTS
  AcceptedEditsArePublished
CHECK_DEADLOCK FALSE
