SPECIFICATION Spec
CONSTANTS
  None = None
  Users = {u1, u2}
  Calls = {c1}
  Streams = {s1, s2}
  ReceiverLists <- UpToTwoReceivers
  Capacity = 1
  Window = 1
  MaxCrashes = 1
SYMMETRY Symmetry
INVARIANT OnlyHolderInLock
INVARIANT NoMisdelivery
INVARIANT CopyAccounting
INVARIANT AckedMeansServed
INVARIANT StoredAfterHandover
PROPERTY KeepsItsPromise
CHECK_DEADLOCK FALSE
