SPECIFICATION FairSpec
CONSTANTS
  None = None
  Users = {u1}
  Conns = {h1}
  MaxMessages = 2
  MaxReceivers = 2
  MaxCrashes = 1
PROPERTY CleanedUp
CHECK_DEADLOCK FALSE
