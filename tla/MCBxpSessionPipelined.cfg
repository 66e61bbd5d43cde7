SPECIFICATION SessionSpec
CONSTANTS
  ReqIds = {1, 2}
  Uris <- MCUris
  MAX_CONTROL_MSG = 1
  MaxLen = 2
  MaxChunks = 2
  Requests <- MCRequests
  Routes <- MCRoutes
  Endings = {"wait"}
  CtlWindow = 2
  Window = 1
  MaxUni = 2
  MaxRequests = 3
  MaxUploads = 2
  Programs <- MCAwaitsPingFirst
PROPERTIES
  AdministrativeTrafficFlows
CHECK_DEADLOCK FALSE
