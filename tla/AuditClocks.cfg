SPECIFICATION Spec
CONSTANTS
  Calls = {c1, c2}
  Instances = {i1, i2}
  Blobs = {b1}
  MaxTime = 2
  MaxEvents = 4
  c1 = c1
  c2 = c2
  i1 = i1
  i2 = i2
  b1 = b1
SYMMETRY CallSymmetry
INVARIANTS TypeOK LinearWhenOrdered HashCoversHistory
