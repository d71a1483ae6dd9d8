SPECIFICATION Spec
CONSTANTS
  WindowIds = {w1, w2}
  Looks <- AllLooks
  Free = Free
  Reserved = Reserved
  Devices = {1, 2}
  Threads = {t1, t2}
  UI = UI
  Starts = 2
  Numbers <- AllNumbers
  Empty = Empty
  Word = Word
  BINARY = BINARY
  TEXT = TEXT
SYMMETRY Symmetry
VIEW View
CHECK_DEADLOCK FALSE
INVARIANTS SettingsAgree NoStatusPopLeft PanelAgrees ExitIsReached
