SPECIFICATION Spec
CONSTANTS
  Publishers = {p1, p2}
  MaxMessages = 3
  NoMessage = NoMessage
INVARIANTS
  ReturnedCursorIsStored
