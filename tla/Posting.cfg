CONSTANTS
  Posts = {p1, p2}
  Ids = {1}
  MaxMid = 2
  FileShapes <- MCShortFile
  PipeCap = 2
  FdSelf = 3
  FdOthers = 4
  CrResume = 5
  FreedRead = {"kept", "reused"}
  UnsetSize = {"zero", "garbage"}
SPECIFICATION Spec
SYMMETRY PostSymmetry
INVARIANTS TypeOK NoReadFail FullIsWhole OneCopy NothingLost NoOvertaking IInv
CHECK_DEADLOCK FALSE
