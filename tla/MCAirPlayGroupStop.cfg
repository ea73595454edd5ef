SPECIFICATION Spec
CONSTANTS
  a = a
  b = b
  Output <- MCOutput
  Offset <- MCOffset
  PacketFrames = 1
  MaxStreams = 2
  MaxSession = 3
  MaxCursor = 2
  MaxNow = 1
INVARIANTS StopLeavesNoConnection
CHECK_DEADLOCK FALSE
