CONSTANTS
  k1 = k1
  k2 = k2
  s1 = s1
  None = None
  Keys <- MCKeys
  Scopes <- MCScopes
  MaxVersions = 2
  MaxActivations = 2
  MaxEvents = 12
  Operations <- SteadyOperations
  PublishMayFail = TRUE
  MaxCrashes = 0
  MaxLostAcks = 0
  MaxMailbox = 2
  StartMayFail = FALSE
CHECK_DEADLOCK FALSE
SPECIFICATION PropagationSpec
INVARIANT ReplacementNeverStale
