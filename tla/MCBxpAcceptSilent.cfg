SPECIFICATION FairSpec
CONSTANTS
  Clients = {"c1", "c2", "c3"}
  Insecure = {"c1", "c2", "c3"}
  Deployments <- MCDevelopment
PROPERTIES
  HandshakeNotBlocked
CHECK_DEADLOCK FALSE
