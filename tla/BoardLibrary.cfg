CONSTANTS
  Posts = {p1, p2}
  Ids = {1}
  MaxMid = 2
  Sizes <- MCSizes
  MaxOut = 3
SPECIFICATION Spec
SYMMETRY PostSymmetry
INVARIANTS LibTypeOK OneRecord
PROPERTIES DeleteLosesNothing
CHECK_DEADLOCK FALSE
