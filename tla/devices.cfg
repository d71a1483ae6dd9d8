SPECIFICATION Spec
CONSTANTS
  Classes = {"TCPServer", "WebSocketServer", "UDPBasic", "UDPClient",
             "SerialPortSwitch", "SerialPortToTCPClient"}
  Channels = {c1, c2, c3}
  Threads = {t1, t2}
  Lookups = 2
  Loops = 1
  NoChannel = NoChannel
SYMMETRY Symmetry
CHECK_DEADLOCK FALSE
INVARIANTS
  ClosedIsReported
  NothingElseSurvivesStop
  Listening
  ReportedOnce
  ConnectedHasSocket
  OneChannelPerEndpoint
  ConnectedHasEnds
  ForwardingGoesOn
