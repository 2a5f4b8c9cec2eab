SPECIFICATION Spec
CONSTANTS
  Kinds <- TwoKinds
  Calls = {c1, c2}
  MaxEvents = 3
  MaxAttempts = 5
  MaxFaults = 4
  DigestFails = FALSE
  Crashes = FALSE
  c1 = c1
  c2 = c2
INVARIANTS RowsAreInLedger NeverOvercounted
PROPERTIES EveryEventIsProjected
