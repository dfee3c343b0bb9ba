SPECIFICATION FairSpec
CONSTANTS
  None = None
  Users = {u1}
  Calls = {c1, c2}
  Streams = {s1}
  ReceiverLists <- SameUserTwice
  Capacity = 1
  Window = 1
  MaxCrashes = 0
PROPERTY SendReturns
PROPERTY LiveCopyArrives
PROPERTY LockIsObtained
CHECK_DEADLOCK FALSE
