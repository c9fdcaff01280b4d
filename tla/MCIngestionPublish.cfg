SPECIFICATION Spec
CONSTANTS
  None = None
  a1 = a1
  a2 = a2
  a3 = a3
  Attempts <- MCThreeAttempts
  Bundles <- MCPublishable
  Datasets <- MCDatasets
  LoadOrder <- MCLoadOrder
  Ids <- MCIds
  Contents <- MCContents
  BatchSize = 2
  MaxOutages = 1
  LostAcks = TRUE
SYMMETRY ThreeSymmetry
INVARIANTS
  OneCurrentPublication
  PublishedBundleIsStored
PROPERTY ImplementsPointer
CHECK_DEADLOCK FALSE
