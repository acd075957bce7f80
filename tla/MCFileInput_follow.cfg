SPECIFICATION FairSpec
CONSTANTS
  NumFiles = 2
  FirstLines = 1
  MaxAppends = 2
  MaxTruncations = 1
  LineDepth = 1
  InputDepth = 1
  Blank <- MCBlank
INVARIANTS
  EachLineOnceInOrder
  NoSendOnClosed
PROPERTIES
  ImplementsFeed
  ReadModeFinishes
  PendingLinesArrive
CHECK_DEADLOCK FALSE
