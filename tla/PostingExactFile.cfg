CONSTANTS
  Posts = {p1, p2}
  Ids = {1}
  MaxMid = 2
  FileShapes <- MCFiles
  PipeCap = 2
  FdSelf = 3
  FdOthers = 4
  CrResume = 5
  FreedRead = {"kept"}
  UnsetSize = {"zero"}
SPECIFICATION Spec
INVARIANTS SentIsOffered
CHECK_DEADLOCK FALSE
