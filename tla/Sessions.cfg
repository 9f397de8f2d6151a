CONSTANTS
  Posts = {p1, p2}
  ListWrites <- MCListWrites
  MaxSessions = 2
  MaxCreates = 1
  MaxKills = 1
SPECIFICATION FairSpec
INVARIANTS SessionsTypeOK CountsMembers NoBrokenPipe OwnReplyAlone
PROPERTIES LetIn OwnerServed ListEnds
CHECK_DEADLOCK FALSE
