SPECIFICATION Spec
CONSTANTS
  None = None
  Emails = {e1}
  Codes = {a, b}
  Logins = {l1}
  Verifies = {v1, v2}
  Checks = {k1}
  OtpLife = 1
  JwtLife = 1
  TokenLife = 2
  UniqueEmail = TRUE
  MaxId = 2
  MaxTime = 3
SYMMETRY Symmetry
INVARIANT SessionInv
INVARIANT ReturnedTokenIsOnRecord
INVARIANT NewTokenRevokesOld
CHECK_DEADLOCK FALSE
