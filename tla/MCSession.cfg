SPECIFICATION Spec
CONSTANTS
  n1 = n1
  n2 = n2
  n3 = n3
  psi = psi
  famvim = famvim
  None = None
  Node <- MCNode
  Capability <- MCCapability
  ManyInput <- MCManyInput
  MaxRequests = 2
  MaxInflight = 2
INVARIANTS
  ViewIsConsistent
  ConnectionsAreSound
  NoDecisionIsLost
PROPERTIES
  RemovalIsComplete
SYMMETRY MCSymmetry
