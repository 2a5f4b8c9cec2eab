SPECIFICATION Spec
CONSTANTS
  Requests = {r1, r2}
  MaxContracts = 2
  TxHolds = {h1}
  OrgHolds = {}
  Operations <- HoldOps
  Targets <- LockPath
  Crashes = FALSE
  r1 = r1
  r2 = r2
  h1 = h1
INVARIANTS SettledLockIsRecorded
PROPERTIES LockTakesEffect
