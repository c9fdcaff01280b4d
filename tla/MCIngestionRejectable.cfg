SPECIFICATION Spec
CONSTANTS
  None = None
  a1 = a1
  a2 = a2
  a3 = a3
  Attempts <- MCTwoAttempts
  Bundles <- MCAllBundles
  Datasets <- MCDatasets
  LoadOrder <- MCLoadOrder
  Ids <- MCIds
  Contents <- MCContents
  BatchSize = 2
  MaxOutages = 0
  LostAcks = FALSE
SYMMETRY TwoSymmetry
INVARIANT RejectableRowsContinue
CHECK_DEADLOCK FALSE
