SPECIFICATION ServerFairSpec
CONSTANTS
  ReqIds = {1}
  Uris <- MCUris
  MAX_CONTROL_MSG = 1
  MaxLen = 2
  MaxChunks = 1
  Requests <- MCRequestsOne
  Routes <- MCRoutes
  Endings = {"wait", "drop"}
  CtlWindow = 1
  Window = 1
  MaxUni = 1
  MaxRequests = 2
  MaxUploads = 1
INVARIANTS
  HangsUpOnRefusalOnly
PROPERTIES
  ImplementsService
  ServerTaskEnds
CHECK_DEADLOCK FALSE
