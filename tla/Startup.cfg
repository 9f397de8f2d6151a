CONSTANTS
  Boards = {b1, b2}
  Posts = {p1}
  Checks = {p1}
  None = None
  Empty = Empty
  MaxKills = 1
SPECIFICATION FairSpec
INVARIANTS StartupTypeOK OneServer OwnFifos RefusedRightly CleanAfterStop
PROPERTIES BoardStarts ShutdownEnds
CHECK_DEADLOCK FALSE
