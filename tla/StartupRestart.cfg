CONSTANTS
  Boards = {b1, b2}
  Posts = {}
  Checks = {}
  None = None
  Empty = Empty
  MaxKills = 1
SPECIFICATION FairSpec
PROPERTIES BoardNotStuck
CHECK_DEADLOCK FALSE
