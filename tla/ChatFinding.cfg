SPECIFICATION Spec
CONSTANTS
  None = None
  Users = {u1}
  Calls = {c1}
  Streams = {s1, s2}
  ReceiverLists <- OneReceiver
  Capacity = 1
  Window = 1
  MaxCrashes = 0
INVARIANT OnlyOpenStreamIsStored
CHECK_DEADLOCK FALSE
