SPECIFICATION Spec
CONSTANTS
  None = None
  Users = {u1, u2}
  Calls = {c1, c2}
  Streams = {s1, s2}
  ReceiverLists <- OneReceiver
  Capacity = 1
  Window = 1
  MaxCrashes = 0
SYMMETRY Symmetry
INVARIANT CopyInv
INVARIANT RegistryPointsToOpenStream
INVARIANT SoleStreamIsStored
INVARIANT RealTimeOrder
CHECK_DEADLOCK FALSE
