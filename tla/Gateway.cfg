SPECIFICATION FairSpec
CONSTANTS
  None = None
  Empty = Empty
  Malformed = Malformed
  Bad = Bad
  h1 = h1
  h2 = h2
  m1 = m1
  n1 = n1
  n2 = n2
  Handlers = {h1, h2}
  Users = {1, 2}
  IdBits = 3
  Codes = {k1, k2}
  JwtLife = 2
  MaxTime = 2
  MaxFrames = 1
  PrivateKey = "system"
  PublicKey <- Keys
  k1 = k1
  k2 = k2
  Profile <- MCProfile
  Otp <- MCOtp
  Contains <- MCContains
  Requests <- MCRequests
  Frames <- MCFrames
INVARIANT RequestInv
INVARIANT AnswerTellsWhoWasServed
INVARIANT FailuresAreNamed
 
INVARIANT EffectsAreTheCallers
INVARIANT AnswersAreTrue
PROPERTY RequestIsAnswered
CHECK_DEADLOCK FALSE
