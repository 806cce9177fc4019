CONSTANTS
  k1 = k1
  k2 = k2
  s1 = s1
  s2 = s2
  None = None
  Keys <- MCKeys
  Scopes <- MCScopes
  MaxVersions = 2
  MaxActivations = 3
  MaxEvents = 3
  Operations <- AllOperations
  PublishMayFail = TRUE
SPECIFICATION Spec
SYMMETRY MCSymmetry
CHECK_DEADLOCK FALSE
INVARIANT ServedIndexSound
INVARIANT ServedViewsAgree
INVARIANT OneOpenCandidate
INVARIANT LifecycleAnnounced
PROPERTY LifecycleSteps
PROPERTY ImplementsControlPlane
INVARIANT VersionIndexExact
INVARIANT ActivationIndexExact
INVARIANT OneScopePerVersion
INVARIANT ServedWasAnnounced
INVARIANT TypeOK
