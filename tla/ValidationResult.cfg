CONSTANTS
  m1 = m1
  m2 = m2
  v1 = v1
  v2 = v2
  None = None
  Messages <- MCMessages
  VersionOf <- MCVersionOf
  Undecodable <- OneBad
  MayBeGarbled = {}
  Versions <- MCVersions
  Workers = 2
  Capacity = 1
  MaxDeliver = 2
  MaxFaults = 1
CHECK_DEADLOCK FALSE
SPECIFICATION ValidationSpec
INVARIANT SettledHasResult
