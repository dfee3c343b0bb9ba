SPECIFICATION Spec
CONSTANTS
  None = None
  Ids = {1, 2}
  PathIds = {0, 9}
  IdBits = 3
  Sends = {c1, c2}
  Reads = {r1, r2}
  ReceiverLists <- OneOrTwoReceivers
  MaxTime = 1
SYMMETRY Symmetry
INVARIANT HistInv
INVARIANT HistoryInOrder
INVARIANT NothingShownIsLost
INVARIANT NewestNeverGoesBack
CHECK_DEADLOCK FALSE
