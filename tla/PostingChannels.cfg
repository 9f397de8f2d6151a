CONSTANTS
  Posts = {p1, p2}
  Ids = {1, 2}
  MaxMid = 1
  FileShapes <- MCAllFiles
  PipeCap = 2
  FdSelf = 7
  FdOthers = 8
  CrResume = 5
  FreedRead = {"kept", "reused"}
  UnsetSize = {"zero", "garbage"}
SPECIFICATION FairSpec
PROPERTIES ImplementsBulletin Answered PostsServedOnceQuiet
CHECK_DEADLOCK FALSE
