SPECIFICATION Spec
CONSTANTS
  None = None
  Junk = Junk
  Bundles <- MCBundles
  OutsideFiles <- MCOutsideFiles
  SchemaVersion = "v1"
  GeneratorVersion = "g1"
INVARIANTS
  BundleTypeOK
  CheckedReferencesResolve
  CheckedRulesHold
  CommittedReconciles
  PublishedIsWhole
CHECK_DEADLOCK FALSE
