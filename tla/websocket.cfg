SPECIFICATION Spec
CONSTANTS
  Classes = {"WebSocketSingleClient", "WebSocketMultipleClient"}
  Channels = {c1, c2}
  NoChannel = NoChannel
  Slots = 2
  Clicks = 3
SYMMETRY Symmetry
CHECK_DEADLOCK FALSE
INVARIANTS
  CanBeStopped
  ConnectingIsDecided
  NothingSurvivesStop
