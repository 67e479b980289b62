SPECIFICATION Spec
CONSTANTS
  Capacity = 2
  TtlSecs = 1
  IdempotencyKeys = {k1}
  NoKey = NoKey
  OwnerKey = OwnerKey
  MaxAppends = 2
  MaxTokens = 3
  MaxRestarts = 1
  MaxOrder = 4
INVARIANTS
  TypeOK
  MapIsBounded
  OneOutcomeUntilForgotten
  AcceptedIsAppended
PROPERTIES
  EvictsOneToMakeRoom
