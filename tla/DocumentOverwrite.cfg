SPECIFICATION Spec
CONSTANTS
  Requests = {r1, r2}
  MaxIntents = 2
  Bytes = {b1, b2}
  NoBytes = NoBytes
  MaxVersions = 2
  r1 = r1
  r2 = r2
  b1 = b1
  b2 = b2
INVARIANTS BlobsMatchRows
CHECK_DEADLOCK FALSE
