SPECIFICATION FairSpec
CONSTANTS
  Attempts = {a1}
  Sends = {}
  NoSock = NoSock
PROPERTIES ButtonDisconnects
CHECK_DEADLOCK FALSE
