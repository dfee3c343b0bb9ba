SPECIFICATION Spec
CONSTANTS
  None = None
  Emails = {e1, e2}
  Codes = {a}
  Logins = {l1, l2}
  Verifies = {v1, v2}
  Checks = {}
  OtpLife = 1
  JwtLife = 1
  TokenLife = 2
  UniqueEmail = TRUE
  MaxId = 2
  MaxTime = 1
SYMMETRY Symmetry
INVARIANT IdentityIsStable
INVARIANT StoredTokenNamesVerifiedUser
INVARIANT TokenWasEarned
CHECK_DEADLOCK FALSE
