SPECIFICATION Spec
CONSTANTS
  Id = {q1, q2}
  Name = {x}
  MaxDepth = 1
  MaxNodes = 2
  Timeout = 2
  MaxOps = 2
INVARIANTS
  ActiveIsTheCallChain
  NoEarlyAbort
  SatisfiedWasVouched
PROPERTIES
  ContractSpec
  EndsUnlessAwaiting
CHECK_DEADLOCK FALSE
