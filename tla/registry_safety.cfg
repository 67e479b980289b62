SPECIFICATION Spec
CONSTANTS
  MaxCursor = 4
  MaxAckDeadlineSecs = 2
  MaxLeaseBatch = 2
  Names = {n1}
  NoName = NoName
  Policies <- MCPolicies
  PullSizes = {0, 1, 3}
  MaxSubscriptions = 1
  MaxDeliveries = 2
INVARIANTS
  TypeOK
  FloorMaximal
  LeasedIsUnsettled
  AttemptsCountDeliveries
  PlanStillValid
  ScanIsPlanLease
  AdvanceIsAck
PROPERTIES
  SetAsideOnlyWhenExhausted
  DeliveriesWithinPolicy
