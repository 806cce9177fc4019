CONSTANTS
  v1 = v1
  v2 = v2
  bad = bad
  None = None
  Views <- MCViews
  Unbuildable <- MCUnbuildable
  BindingsOf <- MCBindingsOf
  MaxChanges = 2
  MaxMailbox = 2
  MayFail = TRUE
  MaxInputs = 2
CHECK_DEADLOCK FALSE
SPECIFICATION FairIngestionSpec
INVARIANT ConsumerTypeOK
INVARIANT ReadyMeansConsuming
INVARIANT ReplacedIsPoisoned
INVARIANT ReloadMeansChange
INVARIANT CommittedWasPublished
PROPERTY ConsumerConverges
