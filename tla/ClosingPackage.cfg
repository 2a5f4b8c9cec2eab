SPECIFICATION Spec
CONSTANTS
  Requests = {r1, r2}
  MaxAmendments = 1
  r1 = r1
  r2 = r2
INVARIANTS TypeOK RecordIsTraceable SettledDealsAgree
PROPERTIES HandlersFinish ImplementsTitle
CHECK_DEADLOCK FALSE
