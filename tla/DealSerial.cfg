SPECIFICATION Spec
CONSTANTS
  Requests = {r1}
  MaxContracts = 2
  TxHolds = {h1}
  OrgHolds = {h2}
  Operations <- AllOperations
  Targets <- TransactionState
  Crashes = TRUE
  r1 = r1
  h1 = h1
  h2 = h2
INVARIANTS AtMostOneAuthoritative
PROPERTIES StateMovesAreSanctioned LocksUnderItsGuards ClearsUnderItsGuards
           HoldsSupersedeProgression ExecutedNeedsAnotherRound
