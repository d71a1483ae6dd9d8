SPECIFICATION FairSpec
CONSTANTS
  Attempts = {a1, a2}
  Sends = {w1}
  NoSock = NoSock
INVARIANTS TypeOK OpenedIsServed StrandedHasCause OpenSocketIsOwned
PROPERTIES ConnectingEnds
CHECK_DEADLOCK FALSE
