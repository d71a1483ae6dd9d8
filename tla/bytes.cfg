SPECIFICATION Spec
CONSTANTS
  Byte = {0, 1}
  Block = 2
  MaxSize = 5
  MaxCall = 3
  Lengths = {0, 125, 126, 65535, 65536}
  Opcodes = {2}
  MaxMessages = 2
  Tails <- URLTails
  ServerURLs <- MountedAt
  Handlers = {h1, h2}
  PacketLengths = {128, 2097152, 8388609}
  Unasked <- Sent
  KeepAlives = {TRUE}
  IdSpace = 6
  MaxConnects = 2
INVARIANTS MessagesArriveWhole UpgradesAgree AnsweredOnce EndIsReported StreamInStep
PROPERTY BufferIsBytes
SYMMETRY Symmetry
VIEW View
CHECK_DEADLOCK FALSE
