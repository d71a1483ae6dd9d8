SPECIFICATION Spec
CONSTANTS
  p1 = p1
  p2 = p2
  p3 = p3
  Pairs = {p1, p2, p3}
  Clients = {p1}
  Injected <- OneInjected
  None = None
INVARIANTS NotifiedOnce PairClosesTogether OpenHasTarget ServerAccepts OnlyStaleSurvivesStop ClosedClientUnlisted
CHECK_DEADLOCK FALSE
