SPECIFICATION Spec
CONSTANTS
  Publishers = {p1, p2, p3}
  MaxMessages = 4
  NoMessage = NoMessage
INVARIANTS
  TypeOK
  RetainedIsTail
  GetFindsStored
  SinceIsStrictTail
  AnnouncedIsDurable
  LiveInPublishOrder
