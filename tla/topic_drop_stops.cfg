SPECIFICATION FairSpec
CONSTANT Handles = {h1, h2}
PROPERTY WorkersStop
CHECK_DEADLOCK FALSE
