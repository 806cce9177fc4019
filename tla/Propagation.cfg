CONSTANTS
  k1 = k1
  k2 = k2
  s1 = s1
  None = None
  Keys <- MCKeys
  Scopes <- MCScopes
  MaxVersions = 2
  MaxActivations = 3
  MaxEvents = 12
  Operations <- DeployedOperations
  PublishMayFail = FALSE
  MaxCrashes = 1
  MaxLostAcks = 1
  MaxMailbox = 2
  StartMayFail = TRUE
CHECK_DEADLOCK FALSE
SPECIFICATION FairPropagationSpec
INVARIANT StreamNamesServed
INVARIANT ServedIsCached
PROPERTY ServedStaysCached
PROPERTY ServedEventuallyCached
