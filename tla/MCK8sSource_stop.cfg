SPECIFICATION FairSpec
CONSTANTS
  p1 = p1  p2 = p2
  Pods = {p1, p2}
  Selections <- MCSelections
  LineDepth = 1
  MaxUpdates = 1
  MaxChanges = 2
  MaxStreams = 2
INVARIANT NoSendOnClosed
CHECK_DEADLOCK FALSE
