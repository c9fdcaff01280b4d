SPECIFICATION FairSpec
CONSTANTS
  None = None
  a1 = a1
  a2 = a2
  a3 = a3
  Attempts <- MCTwoAttempts
  Bundles <- MCAllBundles
  Datasets <- MCDatasets
  LoadOrder <- MCLoadOrder
  Ids <- MCIds
  Contents <- MCContents
  BatchSize = 1
  MaxOutages = 1
  LostAcks = FALSE
INVARIANTS
  TypeOK
  FailedAttemptLeavesNothing
  RejectionsArePersisted
  RowsAreAccounted
PROPERTY RunsGetVerdict
CHECK_DEADLOCK FALSE
