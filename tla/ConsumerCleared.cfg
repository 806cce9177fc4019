CONSTANTS
  v1 = v1
  v2 = v2
  bad = bad
  None = None
  Views <- MCViews
  Unbuildable <- MCUnbuildable
  BindingsOf <- MCBindingsOf
  MaxChanges = 2
  MaxMailbox = 2
  MayFail = FALSE
  MaxInputs = 1
CHECK_DEADLOCK FALSE
SPECIFICATION FairIngestionSpec
PROPERTY ClearedStopsConsuming
