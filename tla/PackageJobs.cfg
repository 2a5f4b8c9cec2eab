SPECIFICATION Spec
CONSTANTS
  Artifacts = 3
  MaxStalls = 1
  MaxEdits = 1
INVARIANTS TypeOK PackageIsTraceable
PROPERTIES JobsEnd ImplementsPackage
CHECK_DEADLOCK FALSE
