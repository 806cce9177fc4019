CONSTANTS
  m1 = m1
  m2 = m2
  v1 = v1
  v2 = v2
  None = None
  Messages <- MCMessages
  VersionOf <- MCVersionOf
  Undecodable = {}
  MayBeGarbled <- OneBad
  Versions <- MCVersions
  Workers = 2
  Capacity = 1
  MaxDeliver = 2
  MaxFaults = 1
CHECK_DEADLOCK FALSE
SPECIFICATION FairValidationSpec
INVARIANT ValidationTypeOK
INVARIANT AckedWasRecorded
INVARIANT PendingInFlight
INVARIANT StoreKeepsNewest
PROPERTY TerminatedForCause
PROPERTY RequestsComplete
