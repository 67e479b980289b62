SPECIFICATION FairSpec
CONSTANTS
  MaxCursor = 2
  MaxAckDeadlineSecs = 1
  MaxLeaseBatch = 2
  Names = {n1, n2, n3}
  NoName = NoName
  Policies <- MCOneAttempt
  PullSizes = {2}
  MaxSubscriptions = 2
  MaxDeliveries = 1
INVARIANTS
  WithinSubscriptionLimit
PROPERTIES
  LedgerRefinement
  EveryMessageSettles
