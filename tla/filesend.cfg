SPECIFICATION FairSpec
CONSTANTS
  MaxOpens = 2
  Writers = {f, w}
  File = f
  Blocks = 2
INVARIANTS PortIsServed FileArrives
PROPERTIES SendEndsOnceClosed
CHECK_DEADLOCK FALSE
