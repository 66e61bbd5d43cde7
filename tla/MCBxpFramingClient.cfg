SPECIFICATION Spec
CONSTANTS
  Frames <- MCFrames
  None = None
  Garbled = Garbled
  MAX_CONTROL_MSG = 5
  Limit = 6
  MaxLen = 6
  Window = 3
  MaxFrames = 2
  MaxDrops = 1
INVARIANTS
  AllocationBounded
CHECK_DEADLOCK FALSE
