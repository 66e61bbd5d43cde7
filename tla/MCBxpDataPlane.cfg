SPECIFICATION FairSpec
CONSTANTS
  ReqIds = {1}
  Uris = {"bxp://a"}
  MAX_CONTROL_MSG = 1
  MaxLen = 2
  MaxChunks = 2
  Window = 1
  MaxUni = 2
  MaxStreams = 2
INVARIANTS
  TypeOK
  NoSilentTruncation
PROPERTIES
  FinishedIsDelivered
  StoppedSenderReturns
  SlotsComeBack
CHECK_DEADLOCK FALSE
