SPECIFICATION Spec
CONSTANTS
  Requests = {r1}
  MaxIntents = 1
  Bytes = {b1, b2}
  NoBytes = NoBytes
  MaxVersions = 2
  r1 = r1
  b1 = b1
  b2 = b2
INVARIANTS TypeOK
PROPERTIES ValidationEnds ImplementsHistory
CHECK_DEADLOCK FALSE
