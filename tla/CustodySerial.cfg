SPECIFICATION Spec
CONSTANTS
  Kinds <- EmittedKinds
  Calls = {c1}
  MaxEvents = 3
  MaxAttempts = 3
  MaxFaults = 3
  DigestFails = TRUE
  Crashes = TRUE
  c1 = c1
INVARIANTS TypeOK
PROPERTIES ImplementsRecord
