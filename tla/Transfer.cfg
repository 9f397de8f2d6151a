CONSTANTS
  Names = {n1, n2}
  NameLen = 1
  FileSizes <- MCFileSizes
  TextLens <- MCTextLens
  MaxFiles = 2
  MaxAsks = 2
  PipeParts = 1
  None = None
SPECIFICATION FairSpec
INVARIANTS TransferTypeOK ReplyWhole OfferedWhole NoOverrun FirstSentInFront
PROPERTIES AskEnds SendEnds
CHECK_DEADLOCK FALSE
