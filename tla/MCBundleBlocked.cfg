SPECIFICATION Spec
CONSTANTS
  None = None
  Junk = Junk
  Bundles <- MCBundles
  OutsideFiles <- MCOutsideFiles
  SchemaVersion = "v1"
  GeneratorVersion = "g1"
INVARIANT BlockedIsRecorded
CHECK_DEADLOCK FALSE
