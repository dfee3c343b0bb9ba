SPECIFICATION Spec
CONSTANTS
  None = None
  NoName = NoName
  Names = {n1, n2}
  Ids = {1, 9}
  PathIds = {1, 2, 9, 17}
  IdBits = 3
  Updates = {p1, p2}
  MaxPresence = 2
SYMMETRY Symmetry
INVARIANT IInv
INVARIANT PresenceIsTheGateways
INVARIANT NamesBelongToOwner
CHECK_DEADLOCK FALSE
