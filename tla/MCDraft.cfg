SPECIFICATION Spec
CONSTANTS
  None = None
  Axes <- MCAxes
  Bodies <- MCBodies
  Operations <- MCOperations
  Proposals <- MCProposals
  Observed <- MCObserved
  MaxRev = 1
PROPERTIES
  EditsGiveTheDraft
  PatchesDoWhatTheyShow
  ChangedChildrenAreAskedAgain
CHECK_DEADLOCK FALSE
