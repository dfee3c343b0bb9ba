SPECIFICATION Spec
CONSTANTS
  None = None
  Emails = {e1}
  Codes = {a}
  Logins = {l1}
  Verifies = {v1}
  Checks = {}
  OtpLife = 1
  JwtLife = 1
  TokenLife = 2
  UniqueEmail = TRUE
  MaxId = 2
  MaxTime = 1
SYMMETRY Symmetry
INVARIANT OtpDeletedAfterVerification
CHECK_DEADLOCK FALSE
