SPECIFICATION Spec
CONSTANTS
  Id = {q1, q2}
  Name = {x}
  MaxDepth = 1
  MaxNodes = 2
  Timeout = 1
  MaxOps = 1
INVARIANT EvidenceBacksSatisfaction
CHECK_DEADLOCK FALSE
