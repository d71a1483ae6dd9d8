SPECIFICATION FairSpec
CONSTANTS
  Readers = {r1}
  Savers = {}
  Limits = {1}
  MaxBlocks = 2
  None = None
PROPERTIES ContentIsEmptied
CHECK_DEADLOCK FALSE
