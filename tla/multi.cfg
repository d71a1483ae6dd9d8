SPECIFICATION Spec
CONSTANTS
  Canons = {1, 2}
  Attempts = {a1, a2}
  None = None
SYMMETRY Symmetry
INVARIANTS SessionIsCounted NothingSurvivesStop ConnectingEnds
CHECK_DEADLOCK FALSE
