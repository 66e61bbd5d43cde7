SPECIFICATION FairSpec
CONSTANTS
  Frames <- MCFrames
  None = None
  Garbled = Garbled
  MAX_CONTROL_MSG = 5
  Limit = 5
  MaxLen = 6
  Window = 3
  MaxFrames = 2
  MaxDrops = 1
INVARIANTS
  TypeOK
  RefusesOnlyTooLong
PROPERTIES
  ImplementsChannel
  FramesReceived
CHECK_DEADLOCK FALSE
