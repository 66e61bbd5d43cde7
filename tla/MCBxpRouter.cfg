SPECIFICATION Spec
CONSTANTS
  ReqIds = {1}
  Uris = {"bxp://a", "bxp://b"}
  MAX_CONTROL_MSG = 1
  MaxLen = 2
  MaxChunks = 1
  Candidates <- MCCandidates
  MaxRoutes = 3
INVARIANTS
  TypeOK
  LastRegistrationWins
CHECK_DEADLOCK FALSE
