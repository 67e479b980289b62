SPECIFICATION ChannelSpec
CONSTANTS
  MaxCursor = 2
  MaxAckDeadlineSecs = 1
  MaxLeaseBatch = 2
  Names = {n1}
  NoName = NoName
  Policies <- MCPolicies
  PullSizes = {2}
  MaxSubscriptions = 1
  MaxDeliveries = 2
  Capacity = 1
  TtlSecs = 1
  Published = 2
  MaxRequests = 3
  MaxOrder = 3
  MaxRestarts = 1
INVARIANTS
  ChannelTypeOK
  AckAnsweredStaysSettled
  DeadLettersOnce
PROPERTIES
  SettledWasReceived
