CONSTANTS
  Names = {n1, n2}
  NameLen = 1
  FileSizes <- MCFileSizes
  TextLens <- MCFullTextLens
  MaxFiles = 2
  MaxAsks = 2
  PipeParts = 1
  None = None
SPECIFICATION FairSpec
INVARIANTS TextFits
CHECK_DEADLOCK FALSE
