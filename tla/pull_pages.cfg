SPECIFICATION FairSpec
CONSTANTS
  Limits = {1, 2}
  NoTarget = NoTarget
  MaxCursor = 3
  MaxVersions = 5
  MaxTimeouts = 1
INVARIANTS
  TypeOK
  PagesComplete
  ConvergedIsComplete
PROPERTIES
  EveryMessageArrives
