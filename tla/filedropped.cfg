SPECIFICATION Spec
CONSTANTS
  MaxOpens = 1
  Writers = {f, w}
  File = f
  Blocks = 2
INVARIANTS SentIsComplete
CHECK_DEADLOCK FALSE
