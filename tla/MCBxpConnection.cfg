SPECIFICATION Spec
CONSTANTS
  ReqIds = {1, 2}
  Uris <- MCUris
  MAX_CONTROL_MSG = 1
  MaxLen = 2
  MaxChunks = 1
  Requests <- MCRequests
  Routes <- MCRoutes
  Endings = {"wait"}
  CtlWindow = 2
  Window = 1
  MaxUni = 2
  MaxRequests = 2
  MaxUploads = 1
INVARIANTS
  TypeOK
  ResponsesMatchRequests
  StreamsFollowResponses
  OneTransferAtATime
  RejectedFrameIsLast
CHECK_DEADLOCK FALSE
