SPECIFICATION Spec
CONSTANTS
  ServerDeadline = 3
  ClientDeadline = 4
  OwnDeadline = 5
  MaxTime = 11
  MaxRead = 5
  None = None
INVARIANTS
  OnlyValidatedIsHandedOn
  NoCallOutlivesItsAnswer
PROPERTIES
  TheGatewayDecidesFirst
  RequestsEnd
CHECK_DEADLOCK FALSE
