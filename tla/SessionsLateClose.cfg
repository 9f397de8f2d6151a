CONSTANTS
  Posts = {p1, p2}
  ListWrites <- MCListWrites
  MaxSessions = 2
  MaxCreates = 1
  MaxKills = 0
SPECIFICATION FairSpec
INVARIANTS ReadsInFrame
CHECK_DEADLOCK FALSE
