SPECIFICATION FairSpec
CONSTANTS
  Clients = {"c1", "c2", "c3"}
  Insecure = {"c1", "c2", "c3"}
  Deployments <- MCBuilt
INVARIANTS
  AcceptLoopContinues
CHECK_DEADLOCK FALSE
