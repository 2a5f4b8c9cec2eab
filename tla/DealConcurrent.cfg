SPECIFICATION Spec
CONSTANTS
  Requests = {r1, r2}
  MaxContracts = 2
  TxHolds = {}
  OrgHolds = {}
  Operations <- RaceOps
  Targets <- LockPath
  Crashes = TRUE
  r1 = r1
  r2 = r2
SYMMETRY RequestSymmetry
INVARIANTS TypeOK SealedHasVerified RejectionStaysOpen
PROPERTIES VerdictIsFinal ImplementsEvidence
