SPECIFICATION ChannelSpec
CONSTANTS
  MaxCursor = 1
  MaxAckDeadlineSecs = 1
  MaxLeaseBatch = 1
  Names = {n1}
  NoName = NoName
  Policies <- MCPolicies
  PullSizes = {1}
  MaxSubscriptions = 1
  MaxDeliveries = 1
  Capacity = 2
  TtlSecs = 1
  Published = 1
  MaxRequests = 3
  MaxOrder = 4
  MaxRestarts = 1
PROPERTIES
  HandlingsFitWindows
