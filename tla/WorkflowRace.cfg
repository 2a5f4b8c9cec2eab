SPECIFICATION Spec
CONSTANTS
  Requests = {r1, r2}
  MaxRows <- Rows
  MaxHashes = 2
  r1 = r1
  r2 = r2
SYMMETRY RequestSymmetry
INVARIANTS TypeOK StatusIsDocumented PackageHashAgrees LockedSeriesAreNumbered
PROPERTIES ImplementsMilestones FundingIsFinal
CHECK_DEADLOCK FALSE
