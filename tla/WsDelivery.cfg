SPECIFICATION Spec
CONSTANTS
  None = None
  Users = {u1}
  Conns = {h1, h2}
  MaxMessages = 2
  MaxReceivers = 1
  MaxCrashes = 1
SYMMETRY Symmetry
INVARIANT WsInv
INVARIANT MessageAccounting
INVARIANT ConnectionInOrder
INVARIANT WrittenOnce
INVARIANT PresenceSettles
INVARIANT SolePresence
CHECK_DEADLOCK FALSE
