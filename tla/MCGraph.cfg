SPECIFICATION Spec
CONSTANTS
  FirstAnswers <- First
  LaterAnswers <- Later
INVARIANTS
  ParentsComeFirst
  EveryChildIsOnAWay
  EveryRelationIsDrawn
  AcceptedIsDrawn
  TheResultFollowsTheGates
CHECK_DEADLOCK FALSE
