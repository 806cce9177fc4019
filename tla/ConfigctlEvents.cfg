CONSTANTS
  k1 = k1
  k2 = k2
  s1 = s1
  s2 = s2
  None = None
  Keys <- MCKeys
  Scopes <- MCScopes
  MaxVersions = 2
  MaxActivations = 2
  MaxEvents = 6
  Operations <- DeployedOperations
  PublishMayFail = FALSE
SPECIFICATION Spec
SYMMETRY MCSymmetry
CHECK_DEADLOCK FALSE
PROPERTY TransitionsEmitEvents
