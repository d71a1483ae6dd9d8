SPECIFICATION FairSpec
CONSTANTS
  Readers = {r1, r2}
  Savers = {s1}
  Limits = {1, 2}
  MaxBlocks = 4
  None = None
INVARIANTS ReceivedIsKept
PROPERTIES UIReturns
CHECK_DEADLOCK FALSE
