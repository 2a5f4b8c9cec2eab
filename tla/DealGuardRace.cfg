SPECIFICATION Spec
CONSTANTS
  Requests = {r1, r2}
  MaxContracts = 1
  TxHolds = {}
  OrgHolds = {}
  Operations <- RaceOps
  Targets <- LockPath
  Crashes = FALSE
  r1 = r1
  r2 = r2
PROPERTIES LocksUnderItsGuards
