SPECIFICATION FairSpec
CONSTANTS
  Clients = {"c1", "c2", "c3"}
  Insecure = {"c1", "c2"}
  Deployments <- MCDeployments
INVARIANTS
  TypeOK
  NobodyIsLost
PROPERTIES
  PromptClientsServed
CHECK_DEADLOCK FALSE
