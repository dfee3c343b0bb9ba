------------------------- MODULE AuthService_proofs -------------------------
(* Theorems about AuthService for every value of its constants.            *)
EXTENDS AuthService, FiniteSetTheorems, TLAPS

\* The assumption, in the form the provers use it.
LEMMA Constants ==
  /\ OtpLife \in Nat /\ JwtLife \in Nat /\ TokenLife \in Nat
  /\ MaxId \in Nat /\ MaxTime \in Nat
  /\ None \notin Emails /\ None \notin Logins /\ None \notin Nat
  /\ Ids \subseteq Nat \ {0}
BY AuthAssumption DEF Ids

LEMMA KeyFacts ==
  ASSUME NEW e \in Emails
  PROVE  /\ OtpKey(e) \in Keys /\ DeletedKey(e) \in Keys
         /\ \A f \in Emails : OtpKey(e) # DeletedKey(f) /\ (OtpKey(e) = OtpKey(f) => e = f)
BY DEF OtpKey, DeletedKey, Keys

\* A set of ids that is not empty has a least one: the intervals 1..i, ordered
\* by inclusion, have a minimal element.
LEMMA LeastId ==
  ASSUME NEW S \in SUBSET Ids, S # {}
  PROVE  \E i \in S : \A j \in S : i <= j
<1> DEFINE R == StrictSubsetOrdering(Ids)
           T == {1 .. i : i \in S}
<1>1. IsFiniteSet(Ids)
  BY Constants, FS_Interval DEF Ids
<1>2. IsWellFoundedOn(R, SUBSET Ids)
  BY <1>1, FS_StrictSubsetOrderingWellFounded, FS_FiniteSubsetsOfFinite
<1>3. T \subseteq SUBSET Ids /\ T # {}
  <2>1. ASSUME NEW i \in S PROVE 1 .. i \subseteq Ids
    BY Constants DEF Ids
  <2> QED
    BY <2>1
<1>4. \E x \in T : \A y \in T : ~ (<<y, x>> \in R)
  <2> HIDE DEF T, R
  <2> QED
    BY <1>2, <1>3, WFMin
<1>5. PICK i \in S : \A j \in S : ~ (<<1 .. j, 1 .. i>> \in R)
  BY <1>4
<1>6. ASSUME NEW j \in S, j < i PROVE FALSE
  <2>1. i \in Nat \ {0} /\ j \in Nat \ {0}
    BY Constants
  <2>2. 1 .. j \subseteq 1 .. i /\ i \in 1 .. i /\ i \notin 1 .. j
    BY <2>1, <1>6
  <2>3. 1 .. j \in SUBSET Ids /\ 1 .. i \in SUBSET Ids
    BY <2>1, Constants DEF Ids
  <2>4. <<1 .. j, 1 .. i>> \in R
    BY <2>2, <2>3 DEF StrictSubsetOrdering
  <2> QED
    BY <2>4, <1>5
<1>7. ASSUME NEW j \in S PROVE i <= j
  <2>1. i \in Nat /\ j \in Nat
    BY Constants
  <2> QED
    BY <2>1, <1>6
<1> QED
  BY <1>7

\* What First returns is a row of the address it was asked for.
LEMMA FirstIdIsRow ==
  ASSUME NEW e, RowsOf(e) # {}
  PROVE  FirstId(e) \in RowsOf(e)
<1>1. RowsOf(e) \in SUBSET Ids
  BY DEF RowsOf
<1>2. \E i \in RowsOf(e) : \A j \in RowsOf(e) : i <= j
  BY <1>1, LeastId
<1> QED
  BY <1>2 DEF FirstId

-----------------------------------------------------------------------------
(* Type correctness.                                                       *)

LEMMA OtpTyped ==
  ASSUME now \in Nat, NEW l \in Logins, NEW code \in Codes
  PROVE  [code |-> code, by |-> l, expiresAt |-> now + OtpLife] \in Otps
BY Constants DEF Otps

LEMMA OtpEntryTyped ==
  ASSUME now \in Nat, NEW o \in Otps
  PROVE  Entry(o, now + OtpLife) \in [value : Otps, ttl : Nat]
BY Constants DEF Entry

LEMMA JwtTyped ==
  ASSUME now \in Nat, NEW i \in Ids, NEW e \in Emails
  PROVE  [id |-> i, email |-> e, exp |-> now + JwtLife] \in Jwts
BY Constants DEF Jwts

LEMMA TokenEntryTyped ==
  ASSUME now \in Nat, NEW v \in Verifies, newToken[v] \in Jwts
  PROVE  Saved(v) \in [value : Jwts, ttl : Nat]
BY Constants DEF Saved, Entry

LEMMA NextIdTyped ==
  ASSUME nextId \in Nat \ {0}, nextId <= MaxId
  PROVE  nextId \in Ids /\ nextId + 1 \in Nat \ {0}
BY Constants DEF Ids

LEMMA TimeTyped == ASSUME now \in Nat PROVE now + 1 \in Nat
OBVIOUS

LEMMA IssuedTyped ==
  ASSUME \A v \in Verifies : verifyPc[v] = "ok" => newToken[v] \in Jwts
  PROVE  Issued \subseteq Jwts
BY DEF Issued

LEMMA TypeInit == Init => TypeOK
<1> SUFFICES ASSUME Init PROVE TypeOK
  OBVIOUS
<1>1. now \in Nat /\ nextId \in Nat \ {0} /\ inbox \subseteq [email : Emails, otp : Otps]
  BY DEF Init
<1>2. /\ otp \in [Keys -> [value : Otps, ttl : Nat] \cup {None}]
      /\ token \in [Emails -> [value : Jwts, ttl : Nat] \cup {None}]
  BY DEF Init
<1> QED
  BY <1>1, <1>2 DEF Init, TypeOK

LEMMA TypeStep ==
  ASSUME TypeOK, LoginShape, \A v \in Verifies : VerifyShape(v), [Next]_vars
  PROVE  TypeOK'
<1> USE Constants DEF TypeOK, tableVars, cacheVars, loginVars, verifyVars, checkVars
<1>1. ASSUME NEW l \in Logins, Login(l) PROVE TypeOK'
  <2>1. loginEmail' \in [Logins -> Emails \cup {None}]
    BY <1>1 DEF Login
  <2>2. /\ loginPc' = [loginPc EXCEPT ![l] = "find"]
        /\ UNCHANGED <<now, tableVars, cacheVars, inbox, loginId, loginOtp, verifyVars, checkVars>>
    BY <1>1 DEF Login
  <2> QED
    BY <2>1, <2>2
<1>2. ASSUME NEW l \in Logins, FindForLogin(l) PROVE TypeOK'
  BY <1>2 DEF FindForLogin, LoginFails
<1>3. ASSUME NEW l \in Logins, InsertUser(l) PROVE TypeOK'
  <2>1. nextId \in Ids /\ nextId + 1 \in Nat \ {0}
    BY <1>3, NextIdTyped DEF InsertUser
  <2> QED
    BY <1>3, <2>1 DEF InsertUser
<1>4. ASSUME NEW l \in Logins, CommitUser(l) PROVE TypeOK'
  <2>1. loginId[l] \in Ids /\ loginEmail[l] \in Emails
    BY <1>4 DEF CommitUser, LoginShape
  <2>2. rowEmail' \in [Ids -> Emails \cup {None}]
    BY <1>4, <2>1 DEF CommitUser
  <2> QED
    BY <1>4, <2>2 DEF CommitUser, LoginFails
<1>5. ASSUME NEW l \in Logins, GenerateOTP(l) PROVE TypeOK'
  <2>1. PICK code \in Codes :
          loginOtp' = [loginOtp EXCEPT ![l] =
                         [code |-> code, by |-> l, expiresAt |-> now + OtpLife]]
    BY <1>5 DEF GenerateOTP
  <2>2. loginOtp' \in [Logins -> Otps \cup {None}]
    <3>1. [code |-> code, by |-> l, expiresAt |-> now + OtpLife] \in Otps
      BY OtpTyped
    <3> QED
      BY <2>1, <3>1
  <2> QED
    BY <1>5, <2>2 DEF GenerateOTP
<1>6. ASSUME NEW l \in Logins, StoreOtp(l) PROVE TypeOK'
  <2>1. Entry(loginOtp[l], now + OtpLife) \in [value : Otps, ttl : Nat]
    BY <1>6, OtpEntryTyped DEF StoreOtp, LoginShape
  <2>2. otp' \in [Keys -> [value : Otps, ttl : Nat] \cup {None}]
    BY <1>6, <2>1 DEF StoreOtp
  <2> QED
    BY <1>6, <2>2 DEF StoreOtp, LoginFails
<1>7. ASSUME NEW l \in Logins, SendOtp(l) PROVE TypeOK'
  <2>1. [email |-> loginEmail[l], otp |-> loginOtp[l]] \in [email : Emails, otp : Otps]
    BY <1>7 DEF SendOtp, LoginShape
  <2> QED
    BY <1>7, <2>1 DEF SendOtp, LoginFails
<1>8. ASSUME NEW v \in Verifies, VerifyOTP(v) PROVE TypeOK'
  <2>1. verifyEmail' \in [Verifies -> Emails \cup {None}]
    BY <1>8 DEF VerifyOTP
  <2>4. verifyCode' \in [Verifies -> Codes \cup {None}]
    BY <1>8 DEF VerifyOTP
  <2>5. verifyPc' = [verifyPc EXCEPT ![v] = "get"]
    BY <1>8 DEF VerifyOTP
  <2>2. verifiedBefore' \in [Verifies -> SUBSET Verifies]
    BY <1>8 DEF VerifyOTP
  <2>3. UNCHANGED <<now, tableVars, cacheVars, inbox, loginVars, otpData, userId, newToken,
                    checkVars>>
    BY <1>8 DEF VerifyOTP
  <2> QED
    BY <2>1, <2>2, <2>3, <2>4, <2>5
<1>9. ASSUME NEW v \in Verifies, GetOtp(v) PROVE TypeOK'
  <2>1. OtpKey(verifyEmail[v]) \in Keys
    BY <1>9, KeyFacts DEF GetOtp, VerifyShape
  <2>2. otpData' \in [Verifies -> Otps \cup {None}]
    BY <1>9, <2>1 DEF GetOtp
  <2> QED
    BY <1>9, <2>2 DEF GetOtp, VerifyFails
<1>10. ASSUME NEW v \in Verifies, CheckOtp(v) PROVE TypeOK'
  BY <1>10 DEF CheckOtp
<1>11. ASSUME NEW v \in Verifies, DeleteOtp(v) PROVE TypeOK'
  <2>1. otp' \in [Keys -> [value : Otps, ttl : Nat] \cup {None}]
    BY <1>11 DEF DeleteOtp
  <2> QED
    BY <1>11, <2>1 DEF DeleteOtp, VerifyFails
<1>12. ASSUME NEW v \in Verifies, FindForVerify(v) PROVE TypeOK'
  <2>1. userId' \in [Verifies -> Ids \cup {None}]
    <3>1. RowsOf(verifyEmail[v]) # {} => FirstId(verifyEmail[v]) \in Ids
      BY FirstIdIsRow DEF RowsOf
    <3> QED
      BY <1>12, <3>1 DEF FindForVerify
  <2> QED
    BY <1>12, <2>1 DEF FindForVerify, VerifyFails
<1>13. ASSUME NEW v \in Verifies, CreateToken(v) PROVE TypeOK'
  <2>1. [id |-> userId[v], email |-> verifyEmail[v], exp |-> now + JwtLife] \in Jwts
    BY <1>13, JwtTyped DEF CreateToken, VerifyShape, AfterFind
  <2> QED
    BY <1>13, <2>1 DEF CreateToken
<1>14. ASSUME NEW v \in Verifies, UpdateUser(v) PROVE TypeOK'
  <2>1. verified' \in [Ids -> BOOLEAN]
    BY <1>14 DEF UpdateUser
  <2> QED
    BY <1>14, <2>1 DEF UpdateUser, VerifyFails
<1>15. ASSUME NEW v \in Verifies, DeleteToken(v) PROVE TypeOK'
  <2>1. token' \in [Emails -> [value : Jwts, ttl : Nat] \cup {None}]
    BY <1>15 DEF DeleteToken
  <2> QED
    BY <1>15, <2>1 DEF DeleteToken, VerifyFails
<1>16. ASSUME NEW v \in Verifies, SaveToken(v) PROVE TypeOK'
  <2>1. Saved(v) \in [value : Jwts, ttl : Nat]
    BY <1>16, TokenEntryTyped DEF SaveToken, VerifyShape, AfterCreate
  <2>2. token' \in [Emails -> [value : Jwts, ttl : Nat] \cup {None}]
    BY <1>16, <2>1 DEF SaveToken
  <2> QED
    BY <1>16, <2>2 DEF SaveToken, VerifyFails
<1>17. ASSUME NEW k \in Checks, VerifyToken(k) PROVE TypeOK'
  <2>1. ASSUME NEW v \in Verifies, verifyPc[v] = "ok" PROVE newToken[v] \in Jwts
    BY <2>1 DEF VerifyShape, AfterCreate
  <2>2. PICK jwt \in Issued, bearer \in BOOLEAN :
          checkToken' = [checkToken EXCEPT ![k] = [jwt |-> jwt, bearer |-> bearer]]
    BY <1>17 DEF VerifyToken
  <2>3. jwt \in Jwts
    BY <2>1, IssuedTyped
  <2>4. checkToken' \in [Checks -> [jwt : Jwts, bearer : BOOLEAN] \cup {None}]
    BY <2>2, <2>3
  <2>5. issuedBefore' \in [Checks -> SUBSET Verifies]
    BY <1>17 DEF VerifyToken
  <2>6. /\ checkPc' = [checkPc EXCEPT ![k] = "check"]
        /\ UNCHANGED <<now, tableVars, cacheVars, inbox, loginVars, verifyVars>>
    BY <1>17 DEF VerifyToken
  <2> QED
    BY <2>4, <2>5, <2>6
<1>18. ASSUME NEW k \in Checks, CheckJwt(k) PROVE TypeOK'
  BY <1>18 DEF CheckJwt
<1>19. ASSUME NEW k \in Checks, CompareToken(k) PROVE TypeOK'
  BY <1>19 DEF CompareToken
<1>20. ASSUME NEW k \in Keys, ExpireOtp(k) PROVE TypeOK'
  BY <1>20 DEF ExpireOtp
<1>21. ASSUME NEW e \in Emails, ExpireToken(e) PROVE TypeOK'
  BY <1>21 DEF ExpireToken
<1>22. ASSUME Tick PROVE TypeOK'
  <2>1. now' \in Nat
    BY <1>22, TimeTyped DEF Tick
  <2>2. UNCHANGED <<tableVars, cacheVars, inbox, loginVars, verifyVars, checkVars>>
    BY <1>22 DEF Tick
  <2> QED
    BY <2>1, <2>2
<1>23. ASSUME UNCHANGED vars PROVE TypeOK'
  BY <1>23 DEF vars
<1> QED
  BY <1>1, <1>2, <1>3, <1>4, <1>5, <1>6, <1>7, <1>8, <1>9, <1>10, <1>11, <1>12, <1>13, <1>14, <1>15, <1>16, <1>17, <1>18, <1>19, <1>20, <1>21, <1>22, <1>23
     DEF Next, LoginStep, VerifyStep, CheckStep

-----------------------------------------------------------------------------
(* What never changes once it is there.                                    *)

\* A Login that runs keeps its address and never becomes idle again.
LoginsKept ==
  \A l \in Logins : loginPc[l] # "idle" =>
    loginPc'[l] # "idle" /\ loginEmail'[l] = loginEmail[l]

\* A row keeps its address and stays verified.
RowsKept ==
  \A i \in Ids : /\ rowEmail[i] # None => rowEmail'[i] = rowEmail[i]
                 /\ verified[i] => verified'[i]

\* A VerifyOTP that is not taking a step, or has returned, keeps its locals.
LocalsKept(v) ==
  /\ verifyPc'[v] = verifyPc[v]
  /\ verifyEmail'[v] = verifyEmail[v] /\ verifyCode'[v] = verifyCode[v]
  /\ otpData'[v] = otpData[v] /\ userId'[v] = userId[v] /\ newToken'[v] = newToken[v]

LEMMA OnlyLoginsMoveLogins ==
  ASSUME [Next]_vars
  PROVE  UNCHANGED loginVars \/ \E l \in Logins : LoginStep(l)
BY DEF Next, VerifyStep, CheckStep, VerifyOTP, GetOtp, CheckOtp, DeleteOtp, FindForVerify,
       CreateToken, UpdateUser, DeleteToken, SaveToken, VerifyToken, CheckJwt, CompareToken,
       ExpireOtp, ExpireToken, Tick, vars

LEMMA OnlyVerifiesMoveVerifies ==
  ASSUME [Next]_vars
  PROVE  UNCHANGED verifyVars \/ \E v \in Verifies : VerifyStep(v)
BY DEF Next, LoginStep, CheckStep, Login, FindForLogin, InsertUser, CommitUser, GenerateOTP,
       StoreOtp, SendOtp, VerifyToken, CheckJwt, CompareToken, ExpireOtp, ExpireToken, Tick, vars

LEMMA LoginsKeptStep ==
  ASSUME TypeOK, [Next]_vars
  PROVE  LoginsKept
<1> SUFFICES ASSUME NEW m \in Logins, loginPc[m] # "idle"
             PROVE  loginPc'[m] # "idle" /\ loginEmail'[m] = loginEmail[m]
  BY DEF LoginsKept
<1>1. DOMAIN loginPc = Logins /\ DOMAIN loginEmail = Logins
  BY DEF TypeOK
<1>2. ASSUME NEW l \in Logins, Login(l) PROVE loginPc'[m] # "idle" /\ loginEmail'[m] = loginEmail[m]
  BY <1>1, <1>2 DEF Login, LoginFails
<1>3. ASSUME NEW l \in Logins, FindForLogin(l) PROVE loginPc'[m] # "idle" /\ loginEmail'[m] = loginEmail[m]
  BY <1>1, <1>3 DEF FindForLogin, LoginFails
<1>4. ASSUME NEW l \in Logins, InsertUser(l) PROVE loginPc'[m] # "idle" /\ loginEmail'[m] = loginEmail[m]
  BY <1>1, <1>4 DEF InsertUser, LoginFails
<1>5. ASSUME NEW l \in Logins, CommitUser(l) PROVE loginPc'[m] # "idle" /\ loginEmail'[m] = loginEmail[m]
  BY <1>1, <1>5 DEF CommitUser, LoginFails
<1>6. ASSUME NEW l \in Logins, GenerateOTP(l) PROVE loginPc'[m] # "idle" /\ loginEmail'[m] = loginEmail[m]
  BY <1>1, <1>6 DEF GenerateOTP, LoginFails
<1>7. ASSUME NEW l \in Logins, StoreOtp(l) PROVE loginPc'[m] # "idle" /\ loginEmail'[m] = loginEmail[m]
  BY <1>1, <1>7 DEF StoreOtp, LoginFails
<1>8. ASSUME NEW l \in Logins, SendOtp(l) PROVE loginPc'[m] # "idle" /\ loginEmail'[m] = loginEmail[m]
  BY <1>1, <1>8 DEF SendOtp, LoginFails
<1>20. ASSUME UNCHANGED loginVars PROVE loginPc'[m] # "idle" /\ loginEmail'[m] = loginEmail[m]
  BY <1>20 DEF loginVars
<1> QED
  BY <1>2, <1>3, <1>4, <1>5, <1>6, <1>7, <1>8, <1>20, OnlyLoginsMoveLogins DEF LoginStep

LEMMA RowsKeptStep ==
  ASSUME TypeOK, LoginShape, [Next]_vars
  PROVE  RowsKept
<1>1. ASSUME NEW l \in Logins, CommitUser(l) PROVE RowsKept
  <2>1. loginId[l] \in Ids /\ rowEmail[loginId[l]] = None /\ verified' = verified
    BY <1>1 DEF CommitUser, LoginShape
  <2>2. \/ UNCHANGED rowEmail
        \/ rowEmail' = [rowEmail EXCEPT ![loginId[l]] = loginEmail[l]]
    BY <1>1 DEF CommitUser
  <2>3. DOMAIN rowEmail = Ids
    BY DEF TypeOK
  <2> QED
    BY <2>1, <2>2, <2>3 DEF RowsKept
<1>2. ASSUME NEW v \in Verifies, UpdateUser(v) PROVE RowsKept
  <2>1. rowEmail' = rowEmail
    BY <1>2 DEF UpdateUser
  <2>2. UNCHANGED verified \/ verified' = [verified EXCEPT ![userId[v]] = TRUE]
    BY <1>2 DEF UpdateUser
  <2>3. DOMAIN verified = Ids
    BY DEF TypeOK
  <2> QED
    BY <2>1, <2>2, <2>3 DEF RowsKept
<1>3. ASSUME UNCHANGED <<rowEmail, verified>> PROVE RowsKept
  BY <1>3 DEF RowsKept
<1> QED
  BY <1>1, <1>2, <1>3
  DEF Next, LoginStep, VerifyStep, CheckStep, Login, FindForLogin, InsertUser, GenerateOTP,
      StoreOtp, SendOtp, VerifyOTP, GetOtp, CheckOtp, DeleteOtp, FindForVerify, CreateToken,
      DeleteToken, SaveToken, VerifyToken, CheckJwt, CompareToken, ExpireOtp, ExpireToken,
      Tick, vars, tableVars

\* A step of one VerifyOTP leaves the others' locals alone.
LEMMA OthersKept ==
  ASSUME TypeOK, NEW v \in Verifies, VerifyStep(v), NEW w \in Verifies, w # v
  PROVE  LocalsKept(w)
<1>1. /\ DOMAIN verifyPc = Verifies
      /\ DOMAIN verifyEmail = Verifies /\ DOMAIN verifyCode = Verifies
      /\ DOMAIN otpData = Verifies /\ DOMAIN userId = Verifies /\ DOMAIN newToken = Verifies
  BY DEF TypeOK
<1>2. CASE VerifyOTP(v)
  BY <1>1, <1>2 DEF VerifyOTP, VerifyFails, LocalsKept
<1>3. CASE GetOtp(v)
  BY <1>1, <1>3 DEF GetOtp, VerifyFails, LocalsKept
<1>4. CASE CheckOtp(v)
  BY <1>1, <1>4 DEF CheckOtp, VerifyFails, LocalsKept
<1>5. CASE DeleteOtp(v)
  BY <1>1, <1>5 DEF DeleteOtp, VerifyFails, LocalsKept
<1>6. CASE FindForVerify(v)
  BY <1>1, <1>6 DEF FindForVerify, VerifyFails, LocalsKept
<1>7. CASE CreateToken(v)
  BY <1>1, <1>7 DEF CreateToken, VerifyFails, LocalsKept
<1>8. CASE UpdateUser(v)
  BY <1>1, <1>8 DEF UpdateUser, VerifyFails, LocalsKept
<1>9. CASE DeleteToken(v)
  BY <1>1, <1>9 DEF DeleteToken, VerifyFails, LocalsKept
<1>10. CASE SaveToken(v)
  BY <1>1, <1>10 DEF SaveToken, VerifyFails, LocalsKept
<1> QED
  BY <1>2, <1>3, <1>4, <1>5, <1>6, <1>7, <1>8, <1>9, <1>10 DEF VerifyStep

LEMMA ReturnedKept ==
  ASSUME TypeOK, [Next]_vars, NEW w \in Verifies, Returned(w)
  PROVE  LocalsKept(w)
<1>1. ASSUME NEW v \in Verifies, VerifyStep(v) PROVE v # w
  BY <1>1 DEF VerifyStep, Returned, VerifyOTP, GetOtp, CheckOtp, DeleteOtp, FindForVerify,
              CreateToken, UpdateUser, DeleteToken, SaveToken
<1>2. ASSUME UNCHANGED verifyVars PROVE LocalsKept(w)
  BY <1>2 DEF verifyVars, LocalsKept
<1> QED
  BY <1>1, <1>2, OthersKept, OnlyVerifiesMoveVerifies

-----------------------------------------------------------------------------
(* Logins and the table: an id belongs to one Login until its row is there, *)
(* and a row is inserted only where its address has none.                   *)

LoginsAndTable == LoginShape /\ IdsApart /\ RowsAllocated /\ RowsUnique

LEMMA LoginsAndTableStep ==
  ASSUME TypeOK, LoginsAndTable, [Next]_vars
  PROVE  LoginsAndTable'
<1> USE DEF LoginsAndTable
<1>1. /\ DOMAIN loginPc = Logins /\ DOMAIN loginEmail = Logins /\ DOMAIN loginId = Logins
      /\ DOMAIN loginOtp = Logins /\ DOMAIN rowEmail = Ids
      /\ nextId \in Nat \ {0} /\ now \in Nat /\ Ids \subseteq Nat
  BY Constants DEF TypeOK
<1>2. ASSUME NEW l \in Logins, Login(l) PROVE LoginsAndTable'
  <2>1. PICK e \in Emails : loginEmail' = [loginEmail EXCEPT ![l] = e]
    BY <1>2 DEF Login
  <2>2. LoginShape'
    BY <1>1, <1>2, <2>1 DEF Login, LoginShape, tableVars
  <2>3. IdsApart'
    BY <1>1, <1>2 DEF Login, IdsApart
  <2> QED
    BY <1>2, <2>2, <2>3 DEF Login, tableVars, RowsAllocated, RowsUnique
<1>3. ASSUME NEW l \in Logins, FindForLogin(l) PROVE LoginsAndTable'
  <2>1. LoginShape'
    BY <1>1, <1>3 DEF FindForLogin, LoginFails, LoginShape, tableVars
  <2>2. IdsApart'
    BY <1>1, <1>3 DEF FindForLogin, LoginFails, IdsApart
  <2> QED
    BY <1>3, <2>1, <2>2 DEF FindForLogin, tableVars, RowsAllocated, RowsUnique
<1>4. ASSUME NEW l \in Logins, InsertUser(l) PROVE LoginsAndTable'
  <2>1. /\ nextId \in Ids /\ nextId' = nextId + 1 /\ rowEmail' = rowEmail
        /\ loginId' = [loginId EXCEPT ![l] = nextId]
        /\ loginPc' = [loginPc EXCEPT ![l] = "commit"]
        /\ loginPc[l] = "insert"
        /\ UNCHANGED <<loginEmail, loginOtp>>
    BY <1>1, <1>4, NextIdTyped DEF InsertUser
  <2>2. rowEmail[nextId] = None
    BY <1>1, <2>1 DEF RowsAllocated
  <2>3. \A i \in Ids : i < nextId => i < nextId'
    <3> SUFFICES ASSUME NEW i \in Ids, i < nextId PROVE i < nextId + 1
      BY <2>1
    <3> QED
      BY <1>1
  <2>4. nextId < nextId'
    <3>1. nextId < nextId + 1
      BY <1>1
    <3> QED
      BY <2>1, <3>1
  <2>5. LoginShape'
    BY <1>1, <2>1, <2>2, <2>3, <2>4 DEF LoginShape
  <2>6. IdsApart'
    BY <1>1, <2>1 DEF IdsApart, LoginShape
  <2>7. RowsAllocated'
    BY <2>1, <2>3 DEF RowsAllocated
  <2> QED
    BY <2>1, <2>5, <2>6, <2>7 DEF RowsUnique
<1>5. ASSUME NEW l \in Logins, CommitUser(l) PROVE LoginsAndTable'
  <2>1. /\ loginPc[l] = "commit" /\ loginPc'[l] # "commit"
        /\ loginPc'[l] \notin {"idle", "store", "mail"}
        /\ \A m \in Logins \ {l} : loginPc'[m] = loginPc[m]
        /\ UNCHANGED <<nextId, loginEmail, loginId, loginOtp>>
        /\ loginId[l] \in Ids /\ loginId[l] < nextId
        /\ loginEmail[l] \in Emails
    BY <1>1, <1>5 DEF CommitUser, LoginFails, LoginShape
  <2>2. IdsApart'
    BY <2>1 DEF IdsApart
  <2>3. CASE UNCHANGED rowEmail
    <3>1. LoginShape'
      BY <2>1, <2>3 DEF LoginShape
    <3> QED
      BY <2>1, <2>2, <2>3, <3>1 DEF RowsAllocated, RowsUnique
  <2>4. CASE /\ ~Taken(loginEmail[l])
             /\ rowEmail' = [rowEmail EXCEPT ![loginId[l]] = loginEmail[l]]
    <3>1. LoginShape'
      BY <1>1, <2>1, <2>4 DEF LoginShape, IdsApart
    <3>2. RowsAllocated'
      BY <1>1, <2>1, <2>4 DEF RowsAllocated
    <3>3. UniqueEmail => \A i \in Ids : rowEmail[i] # loginEmail[l]
      BY <2>4 DEF Taken, RowsOf
    <3>4. RowsUnique'
      BY <1>1, <2>1, <2>4, <3>3 DEF RowsUnique
    <3> QED
      BY <2>2, <3>1, <3>2, <3>4
  <2> QED
    BY <1>5, <2>3, <2>4 DEF CommitUser
<1>6. ASSUME NEW l \in Logins, GenerateOTP(l) PROVE LoginsAndTable'
  <2>1. PICK code \in Codes :
          loginOtp' = [loginOtp EXCEPT ![l] =
                         [code |-> code, by |-> l, expiresAt |-> now + OtpLife]]
    BY <1>6 DEF GenerateOTP
  <2>2. [code |-> code, by |-> l, expiresAt |-> now + OtpLife] \in Otps
    BY <1>1, OtpTyped
  <2>3. LoginShape'
    BY <1>1, <1>6, <2>1, <2>2 DEF GenerateOTP, LoginShape, tableVars
  <2>4. IdsApart'
    BY <1>1, <1>6 DEF GenerateOTP, IdsApart
  <2> QED
    BY <1>6, <2>3, <2>4 DEF GenerateOTP, tableVars, RowsAllocated, RowsUnique
<1>7. ASSUME NEW l \in Logins, StoreOtp(l) PROVE LoginsAndTable'
  <2>1. LoginShape'
    BY <1>1, <1>7 DEF StoreOtp, LoginFails, LoginShape, tableVars
  <2>2. IdsApart'
    BY <1>1, <1>7 DEF StoreOtp, LoginFails, IdsApart
  <2> QED
    BY <1>7, <2>1, <2>2 DEF StoreOtp, tableVars, RowsAllocated, RowsUnique
<1>8. ASSUME NEW l \in Logins, SendOtp(l) PROVE LoginsAndTable'
  <2>1. LoginShape'
    BY <1>1, <1>8 DEF SendOtp, LoginFails, LoginShape, tableVars
  <2>2. IdsApart'
    BY <1>1, <1>8 DEF SendOtp, LoginFails, IdsApart
  <2> QED
    BY <1>8, <2>1, <2>2 DEF SendOtp, tableVars, RowsAllocated, RowsUnique
<1>9. ASSUME UNCHANGED <<loginVars, rowEmail, nextId>> PROVE LoginsAndTable'
  BY <1>9 DEF loginVars, LoginShape, IdsApart, RowsAllocated, RowsUnique
<1> QED
  BY <1>2, <1>3, <1>4, <1>5, <1>6, <1>7, <1>8, <1>9
  DEF Next, LoginStep, VerifyStep, CheckStep, VerifyOTP, GetOtp, CheckOtp, DeleteOtp,
      FindForVerify, CreateToken, UpdateUser, DeleteToken, SaveToken, VerifyToken, CheckJwt,
      CompareToken, ExpireOtp, ExpireToken, Tick, vars, tableVars

-----------------------------------------------------------------------------
(* The OTP stored for an address was made by a Login of that address.      *)

LEMMA MadeForKept ==
  ASSUME LoginsKept, NEW o \in Otps, NEW e, MadeFor(o, e)
  PROVE  loginPc'[o.by] # "idle" /\ loginEmail'[o.by] = e
BY DEF Otps, LoginsKept, MadeFor

LEMMA OtpsMadeForKeyStep ==
  ASSUME TypeOK, LoginShape, \A v \in Verifies : VerifyShape(v), OtpsMadeForKey, [Next]_vars
  PROVE  OtpsMadeForKey'
<1>1. LoginsKept
  BY LoginsKeptStep
<1>2. /\ otp \in [Keys -> [value : Otps, ttl : Nat] \cup {None}] /\ now \in Nat
      /\ \A e \in Emails : OtpKey(e) \in Keys
  BY KeyFacts DEF TypeOK
\* An entry that stays as it is stays good.
<1>3. ASSUME NEW e \in Emails, otp'[OtpKey(e)] = otp[OtpKey(e)], otp'[OtpKey(e)] # None
      PROVE  MadeFor(otp[OtpKey(e)].value, e)'
  <2>1. otp[OtpKey(e)].value \in Otps
    BY <1>2, <1>3
  <2>2. MadeFor(otp[OtpKey(e)].value, e)
    BY <1>3 DEF OtpsMadeForKey
  <2> QED
    BY <1>1, <1>3, <2>1, <2>2, MadeForKept DEF MadeFor
<1>4. ASSUME UNCHANGED otp PROVE OtpsMadeForKey'
  BY <1>3, <1>4 DEF OtpsMadeForKey, OtpKey
<1>5. ASSUME NEW l \in Logins, StoreOtp(l) PROVE OtpsMadeForKey'
  <2>1. CASE UNCHANGED otp
    BY <1>4, <2>1
  <2>2. CASE otp' = [otp EXCEPT ![OtpKey(loginEmail[l])] = Entry(loginOtp[l], now + OtpLife)]
    <3>1. /\ loginEmail[l] \in Emails /\ loginOtp[l] \in Otps /\ loginOtp[l].by = l
          /\ loginPc[l] # "idle"
      BY <1>5 DEF StoreOtp, LoginShape
    <3>2. MadeFor(loginOtp[l], loginEmail[l])
      BY <3>1 DEF MadeFor
    <3>3. otp'[OtpKey(loginEmail[l])].value = loginOtp[l]
      BY <1>2, <2>2, <3>1 DEF Entry
    <3> SUFFICES ASSUME NEW e \in Emails, otp'[OtpKey(e)] # None
                 PROVE  MadeFor(otp[OtpKey(e)].value, e)'
      BY DEF OtpsMadeForKey, OtpKey
    <3>4. CASE e = loginEmail[l]
      BY <1>1, <3>1, <3>2, <3>3, <3>4, MadeForKept DEF MadeFor
    <3>5. CASE e # loginEmail[l]
      <4>1. otp'[OtpKey(e)] = otp[OtpKey(e)]
        BY <1>2, <2>2, <3>1, <3>5, KeyFacts
      <4> QED
        BY <1>3, <4>1
    <3> QED
      BY <3>4, <3>5
  <2> QED
    BY <1>5, <2>1, <2>2 DEF StoreOtp
<1>6. ASSUME NEW k \in Keys, UNCHANGED otp \/ otp' = [otp EXCEPT ![k] = None] PROVE OtpsMadeForKey'
  <2>1. ASSUME NEW e \in Emails
        PROVE  otp'[OtpKey(e)] = otp[OtpKey(e)] \/ otp'[OtpKey(e)] = None
    BY <1>2, <1>6
  <2> QED
    BY <1>3, <2>1 DEF OtpsMadeForKey, OtpKey
<1>7. ASSUME NEW v \in Verifies, DeleteOtp(v) PROVE OtpsMadeForKey'
  <2>1. DeletedKey(verifyEmail[v]) \in Keys
    BY <1>7, KeyFacts DEF DeleteOtp, VerifyShape
  <2> QED
    BY <1>6, <1>7, <2>1 DEF DeleteOtp
<1>8. ASSUME NEW k \in Keys, ExpireOtp(k) PROVE OtpsMadeForKey'
  BY <1>6, <1>8 DEF ExpireOtp
<1> QED
  BY <1>4, <1>5, <1>7, <1>8
  DEF Next, LoginStep, VerifyStep, CheckStep, Login, FindForLogin, InsertUser, CommitUser,
      GenerateOTP, SendOtp, VerifyOTP, GetOtp, CheckOtp, FindForVerify, CreateToken, UpdateUser,
      DeleteToken, SaveToken, VerifyToken, CheckJwt, CompareToken, ExpireToken, Tick, vars,
      cacheVars

-----------------------------------------------------------------------------
(* What VerifyOTP knows at each step stays true, whatever runs beside it.   *)

LEMMA VerifyShapeKept ==
  ASSUME TypeOK, LoginsKept, RowsKept, NEW w \in Verifies, VerifyShape(w), LocalsKept(w)
  PROVE  VerifyShape(w)'
<1> USE DEF VerifyShape, LocalsKept
<1>1. ASSUME verifyPc[w] \in {"check", "delete otp", "find"} \cup AfterFind
      PROVE  otpData[w] \in Otps /\ MadeFor(otpData[w], verifyEmail[w])'
  <2>1. otpData[w] \in Otps /\ MadeFor(otpData[w], verifyEmail[w])
    BY <1>1
  <2>2. loginPc'[otpData[w].by] # "idle" /\ loginEmail'[otpData[w].by] = verifyEmail[w]
    BY <2>1, MadeForKept
  <2> QED
    BY <2>1, <2>2 DEF MadeFor
<1>2. ASSUME verifyPc[w] \in AfterFind PROVE rowEmail'[userId[w]] = verifyEmail[w]
  <2>1. /\ userId[w] \in Ids /\ rowEmail[userId[w]] = verifyEmail[w]
        /\ verifyEmail[w] \in Emails
    BY <1>2 DEF AfterFind
  <2>2. rowEmail[userId[w]] # None
    BY <2>1, Constants
  <2> QED
    BY <2>1, <2>2 DEF RowsKept
<1>3. verifyPc[w] \in {"delete token", "save", "ok"} => verified'[userId[w]]
  BY DEF RowsKept, AfterFind
<1> QED
  BY <1>1, <1>2, <1>3 DEF MadeFor

LEMMA OwnVerifyStep ==
  ASSUME TypeOK, LoginsKept, RowsKept, OtpsMadeForKey,
         NEW v \in Verifies, VerifyShape(v), VerifyStep(v)
  PROVE  VerifyShape(v)'
<1>1. /\ DOMAIN verifyPc = Verifies
      /\ DOMAIN verifyEmail = Verifies /\ DOMAIN verifyCode = Verifies
      /\ DOMAIN otpData = Verifies /\ DOMAIN userId = Verifies /\ DOMAIN newToken = Verifies
      /\ DOMAIN verified = Ids
      /\ now \in Nat
  BY DEF TypeOK
<1>3. CASE VerifyOTP(v)
  BY <1>1, <1>3 DEF VerifyOTP, VerifyShape, AfterFind, AfterCreate
<1>4. CASE GetOtp(v)
  <2>1. verifyEmail[v] \in Emails /\ verifyCode[v] \in Codes /\ newToken[v] = None
    BY <1>4 DEF GetOtp, VerifyShape
  <2>2. CASE verifyPc' = [verifyPc EXCEPT ![v] = "failed"] /\ UNCHANGED otpData
    BY <1>1, <1>4, <2>1, <2>2 DEF GetOtp, VerifyShape, AfterFind, AfterCreate
  <2>3. CASE /\ otp[OtpKey(verifyEmail[v])] # None
             /\ otpData' = [otpData EXCEPT ![v] = otp[OtpKey(verifyEmail[v])].value]
             /\ verifyPc' = [verifyPc EXCEPT ![v] = "check"]
    <3> DEFINE o == otp[OtpKey(verifyEmail[v])].value
    <3>1. o \in Otps
      BY <2>1, <2>3, KeyFacts DEF TypeOK
    <3>2. MadeFor(o, verifyEmail[v])
      BY <2>1, <2>3 DEF OtpsMadeForKey
    <3>3. loginPc'[o.by] # "idle" /\ loginEmail'[o.by] = verifyEmail[v]
      <4> HIDE DEF o
      <4> QED
        BY <3>1, <3>2, MadeForKept
    <3>4. /\ otpData'[v] = o /\ verifyPc'[v] = "check"
          /\ UNCHANGED <<verifyEmail, verifyCode, newToken>>
      BY <1>1, <1>4, <2>3 DEF GetOtp
    <3> HIDE DEF o
    <3> QED
      BY <2>1, <3>1, <3>3, <3>4 DEF VerifyShape, AfterFind, AfterCreate, MadeFor
  <2> QED
    BY <1>4, <2>2, <2>3 DEF GetOtp, VerifyFails
\* Every later step leaves the address, the code and the OTP that was read.
<1>5. ASSUME verifyPc[v] \in {"check", "delete otp", "find"} \cup AfterFind,
             UNCHANGED <<verifyEmail, verifyCode, otpData>>
      PROVE  /\ verifyEmail'[v] \in Emails /\ verifyCode'[v] \in Codes
             /\ otpData'[v] \in Otps
             /\ MadeFor(otpData[v], verifyEmail[v])'
  <2>1. /\ verifyEmail[v] \in Emails /\ verifyCode[v] \in Codes
        /\ otpData[v] \in Otps /\ MadeFor(otpData[v], verifyEmail[v])
    BY <1>5 DEF VerifyShape, AfterFind
  <2>2. loginPc'[otpData[v].by] # "idle" /\ loginEmail'[otpData[v].by] = verifyEmail[v]
    BY <2>1, MadeForKept
  <2> QED
    BY <1>5, <2>1, <2>2 DEF MadeFor
<1>6. CASE CheckOtp(v)
  BY <1>1, <1>5, <1>6 DEF CheckOtp, Matches, VerifyShape, AfterFind, AfterCreate
<1>7. CASE DeleteOtp(v)
  BY <1>1, <1>5, <1>7 DEF DeleteOtp, VerifyFails, VerifyShape, AfterFind, AfterCreate
<1>8. CASE FindForVerify(v)
  <2>1. CASE verifyPc' = [verifyPc EXCEPT ![v] = "failed"] /\ UNCHANGED userId
    BY <1>1, <1>5, <1>8, <2>1 DEF FindForVerify, VerifyShape, AfterFind, AfterCreate
  <2>2. CASE /\ RowsOf(verifyEmail[v]) # {}
             /\ userId' = [userId EXCEPT ![v] = FirstId(verifyEmail[v])]
             /\ verifyPc' = [verifyPc EXCEPT ![v] = "create"]
    <3>1. userId'[v] \in Ids /\ rowEmail[userId'[v]] = verifyEmail[v]
      BY <1>1, <2>2, FirstIdIsRow DEF RowsOf
    <3>2. rowEmail' = rowEmail
      BY <1>8 DEF FindForVerify, tableVars
    <3> QED
      BY <1>1, <1>5, <1>8, <2>2, <3>1, <3>2
      DEF FindForVerify, VerifyShape, AfterFind, AfterCreate
  <2> QED
    BY <1>8, <2>1, <2>2 DEF FindForVerify, VerifyFails
<1>9. CASE CreateToken(v)
  <2>1. [id |-> userId[v], email |-> verifyEmail[v], exp |-> now + JwtLife] \in Jwts
    BY <1>1, <1>9, JwtTyped DEF CreateToken, VerifyShape, AfterFind
  <2>2. /\ newToken'[v] = [id |-> userId[v], email |-> verifyEmail[v], exp |-> now + JwtLife]
        /\ verifyPc'[v] = "update"
        /\ UNCHANGED <<verifyEmail, verifyCode, otpData, userId, rowEmail>>
    BY <1>1, <1>9 DEF CreateToken, tableVars
  <2>3. verifyPc[v] = "create"
    BY <1>9 DEF CreateToken
  <2> QED
    BY <1>5, <2>1, <2>2, <2>3 DEF VerifyShape, AfterFind, AfterCreate
<1>10. CASE UpdateUser(v)
  <2>1. /\ verifyPc[v] = "update" /\ userId[v] \in Ids
        /\ UNCHANGED <<rowEmail, verifyEmail, verifyCode, otpData, userId, newToken>>
    BY <1>10 DEF UpdateUser, VerifyShape, AfterFind
  <2>2. \/ verifyPc'[v] = "failed"
        \/ verifyPc'[v] = "delete token" /\ verified'[userId[v]]
    BY <1>1, <1>10, <2>1 DEF UpdateUser, VerifyFails
  <2> QED
    BY <1>5, <2>1, <2>2 DEF VerifyShape, AfterFind, AfterCreate
<1>11. CASE DeleteToken(v)
  BY <1>1, <1>5, <1>11
  DEF DeleteToken, VerifyFails, VerifyShape, AfterFind, AfterCreate, tableVars
<1>12. CASE SaveToken(v)
  BY <1>1, <1>5, <1>12
  DEF SaveToken, VerifyFails, VerifyShape, AfterFind, AfterCreate, tableVars
<1> QED
  BY <1>3, <1>4, <1>6, <1>7, <1>8, <1>9, <1>10, <1>11, <1>12 DEF VerifyStep

LEMMA VerifyShapeStep ==
  ASSUME TypeOK, LoginShape, OtpsMadeForKey, \A v \in Verifies : VerifyShape(v), [Next]_vars
  PROVE  \A v \in Verifies : VerifyShape(v)'
<1> SUFFICES ASSUME NEW w \in Verifies PROVE VerifyShape(w)'
  OBVIOUS
<1>1. LoginsKept /\ RowsKept
  BY LoginsKeptStep, RowsKeptStep
<1>2. CASE UNCHANGED verifyVars
  <2>1. LocalsKept(w)
    BY <1>2 DEF verifyVars, LocalsKept
  <2> QED
    BY <1>1, <2>1, VerifyShapeKept
<1>3. ASSUME NEW v \in Verifies, VerifyStep(v) PROVE VerifyShape(w)'
  <2>1. CASE v = w
    BY <1>1, <1>3, <2>1, OwnVerifyStep
  <2>2. CASE v # w
    BY <1>1, <1>3, <2>2, OthersKept, VerifyShapeKept
  <2> QED
    BY <2>1, <2>2
<1> QED
  BY <1>2, <1>3, OnlyVerifiesMoveVerifies

\* The tokens that were made: only CreateToken makes one, of the row it found.
LEMMA TokensNameRowsStep ==
  ASSUME TypeOK, LoginShape, \A v \in Verifies : VerifyShape(v), TokensNameRows, [Next]_vars
  PROVE  TokensNameRows'
<1>1. RowsKept
  BY RowsKeptStep
<1>2. newToken \in [Verifies -> Jwts \cup {None}]
  BY DEF TypeOK
\* A token that was there keeps its row.
<1>3. ASSUME NEW w \in Verifies, newToken'[w] = newToken[w], newToken'[w] # None
      PROVE  newToken'[w].email \in Emails /\ rowEmail'[newToken'[w].id] = newToken'[w].email
  <2>1. newToken[w].id \in Ids /\ newToken[w].email \in Emails
    BY <1>2, <1>3 DEF Jwts
  <2>2. rowEmail[newToken[w].id] = newToken[w].email
    BY <1>3 DEF TokensNameRows
  <2>3. rowEmail[newToken[w].id] # None
    BY <2>1, <2>2, Constants
  <2> QED
    BY <1>1, <1>3, <2>1, <2>2, <2>3 DEF RowsKept
<1>4. ASSUME UNCHANGED newToken PROVE TokensNameRows'
  BY <1>3, <1>4 DEF TokensNameRows
<1>5. ASSUME NEW v \in Verifies, CreateToken(v) PROVE TokensNameRows'
  <2>1. /\ newToken' = [newToken EXCEPT ![v] =
                          [id |-> userId[v], email |-> verifyEmail[v], exp |-> now + JwtLife]]
        /\ rowEmail' = rowEmail
        /\ verifyEmail[v] \in Emails /\ rowEmail[userId[v]] = verifyEmail[v]
    BY <1>5 DEF CreateToken, VerifyShape, AfterFind, tableVars
  <2>2. newToken'[v].email \in Emails /\ rowEmail'[newToken'[v].id] = newToken'[v].email
    BY <1>2, <2>1
  <2>3. ASSUME NEW w \in Verifies, w # v PROVE newToken'[w] = newToken[w]
    BY <1>2, <2>1, <2>3
  <2> QED
    BY <1>3, <2>2, <2>3 DEF TokensNameRows
<1> QED
  BY <1>4, <1>5
  DEF Next, LoginStep, VerifyStep, CheckStep, Login, FindForLogin, InsertUser, CommitUser,
      GenerateOTP, StoreOtp, SendOtp, VerifyOTP, GetOtp, CheckOtp, DeleteOtp, FindForVerify,
      UpdateUser, DeleteToken, SaveToken, VerifyToken, CheckJwt, CompareToken, ExpireOtp,
      ExpireToken, Tick, vars, verifyVars

-----------------------------------------------------------------------------
(* The saved tokens: each came from a VerifyOTP that has returned since, and *)
(* names the row that it had marked verified.                                *)

\* The part of SavedByReturned and StoredTokenNamesVerifiedUser about one entry.
SavedBy(v, e, jwt) ==
  /\ Returned(v)
  /\ newToken[v] = jwt
  /\ verifyEmail[v] = e
  /\ otpData[v] \in Otps /\ otpData[v].code = verifyCode[v] /\ MadeFor(otpData[v], e)
NamesVerifiedRow(e, jwt) == jwt.email = e /\ rowEmail[jwt.id] = e /\ verified[jwt.id]

LEMMA SavedByKept ==
  ASSUME TypeOK, [Next]_vars, LoginsKept, NEW v \in Verifies, NEW e, NEW jwt, SavedBy(v, e, jwt)
  PROVE  SavedBy(v, e, jwt)'
<1>1. LocalsKept(v)
  BY ReturnedKept DEF SavedBy
<1>2. MadeFor(otpData[v], e)'
  <2>1. loginPc'[otpData[v].by] # "idle" /\ loginEmail'[otpData[v].by] = e
    BY MadeForKept DEF SavedBy
  <2> QED
    BY <1>1, <2>1 DEF MadeFor, LocalsKept
<1> QED
  BY <1>1, <1>2 DEF SavedBy, LocalsKept, Returned

LEMMA NamesVerifiedRowKept ==
  ASSUME RowsKept, NEW e \in Emails, NEW jwt \in Jwts, NamesVerifiedRow(e, jwt)
  PROVE  NamesVerifiedRow(e, jwt)'
<1>1. jwt.id \in Ids /\ e # None
  BY Constants DEF Jwts
<1> QED
  BY <1>1 DEF RowsKept, NamesVerifiedRow

\* The two properties, entry by entry.
EntryGood(e, entry) ==
  /\ \E v \in Verifies : SavedBy(v, e, entry.value)
  /\ NamesVerifiedRow(e, entry.value)

LEMMA EntriesGood ==
  (\A e \in Emails : token[e] # None => EntryGood(e, token[e]))
    <=> SavedByReturned /\ StoredTokenNamesVerifiedUser
BY DEF EntryGood, SavedBy, NamesVerifiedRow, SavedByReturned, StoredTokenNamesVerifiedUser

LEMMA EntriesGoodStep ==
  ASSUME TypeOK, LoginShape, \A v \in Verifies : VerifyShape(v),
         \A e \in Emails : token[e] # None => EntryGood(e, token[e]), [Next]_vars
  PROVE  \A e \in Emails : token'[e] # None => EntryGood(e, token[e])'
<1>1. LoginsKept /\ RowsKept
  BY LoginsKeptStep, RowsKeptStep
<1>2. token \in [Emails -> [value : Jwts, ttl : Nat] \cup {None}]
  BY DEF TypeOK
<1>3. ASSUME NEW e \in Emails, token'[e] = token[e], token'[e] # None
      PROVE  EntryGood(e, token[e])'
  <2> DEFINE jwt == token[e].value
  <2>1. jwt \in Jwts
    BY <1>2, <1>3
  <2>2. PICK v \in Verifies : SavedBy(v, e, jwt)
    BY <1>3 DEF EntryGood
  <2>3. NamesVerifiedRow(e, jwt)
    BY <1>3 DEF EntryGood
  <2>4. SavedBy(v, e, jwt)'
    BY <1>1, <1>3, <2>2, SavedByKept DEF SavedBy
  <2>5. NamesVerifiedRow(e, jwt)'
    BY <1>1, <1>3, <2>1, <2>3, NamesVerifiedRowKept DEF NamesVerifiedRow
  <2> QED
    BY <2>4, <2>5 DEF EntryGood
<1>4. ASSUME UNCHANGED token PROVE \A e \in Emails : token'[e] # None => EntryGood(e, token[e])'
  BY <1>3, <1>4
<1>5. ASSUME NEW f \in Emails, UNCHANGED token \/ token' = [token EXCEPT ![f] = None]
      PROVE  \A e \in Emails : token'[e] # None => EntryGood(e, token[e])'
  <2>1. ASSUME NEW e \in Emails PROVE token'[e] = token[e] \/ token'[e] = None
    BY <1>2, <1>5
  <2> QED
    BY <1>3, <2>1
<1>6. ASSUME NEW v \in Verifies, DeleteToken(v)
      PROVE  \A e \in Emails : token'[e] # None => EntryGood(e, token[e])'
  <2>1. verifyEmail[v] \in Emails
    BY <1>6 DEF DeleteToken, VerifyShape
  <2> QED
    BY <1>5, <1>6, <2>1 DEF DeleteToken
<1>7. ASSUME NEW v \in Verifies, SaveToken(v)
      PROVE  \A e \in Emails : token'[e] # None => EntryGood(e, token[e])'
  <2>1. CASE UNCHANGED token
    BY <1>4, <2>1
  <2>2. CASE token' = [token EXCEPT ![verifyEmail[v]] = Saved(v)]
    <3>1. /\ verifyEmail[v] \in Emails
          /\ otpData[v] \in Otps /\ MadeFor(otpData[v], verifyEmail[v])
          /\ otpData[v].code = verifyCode[v]
          /\ userId[v] \in Ids /\ rowEmail[userId[v]] = verifyEmail[v]
          /\ newToken[v].id = userId[v] /\ newToken[v].email = verifyEmail[v]
          /\ verified[userId[v]]
      BY <1>7 DEF SaveToken, VerifyShape, AfterFind, AfterCreate
    <3>2. Returned(v)' /\ UNCHANGED <<verifyEmail, verifyCode, otpData, newToken,
                                     rowEmail, verified, loginPc, loginEmail>>
      <4>1. DOMAIN verifyPc = Verifies
        BY DEF TypeOK
      <4>2. verifyPc'[v] \in {"ok", "failed"}
        BY <1>7, <4>1 DEF SaveToken, VerifyFails
      <4> QED
        BY <1>7, <4>2 DEF SaveToken, Returned, tableVars, loginVars
    <3>3. token'[verifyEmail[v]].value = newToken[v]
      BY <1>2, <2>2, <3>1 DEF Saved, Entry
    <3>4. EntryGood(verifyEmail[v], token[verifyEmail[v]])'
      <4>1. SavedBy(v, verifyEmail[v], token[verifyEmail[v]].value)'
        BY <3>1, <3>2, <3>3 DEF SavedBy, MadeFor
      <4>2. NamesVerifiedRow(verifyEmail[v], token[verifyEmail[v]].value)'
        BY <3>1, <3>2, <3>3 DEF NamesVerifiedRow
      <4> QED
        BY <4>1, <4>2 DEF EntryGood
    <3>5. ASSUME NEW e \in Emails, e # verifyEmail[v] PROVE token'[e] = token[e]
      BY <1>2, <2>2, <3>1, <3>5
    <3>6. ASSUME NEW e \in Emails, e = verifyEmail[v] PROVE EntryGood(e, token[e])'
      BY <3>2, <3>4, <3>6
    <3> QED
      BY <1>3, <3>5, <3>6
  <2> QED
    BY <1>7, <2>1, <2>2 DEF SaveToken
<1>8. ASSUME NEW e \in Emails, ExpireToken(e)
      PROVE  \A f \in Emails : token'[f] # None => EntryGood(f, token[f])'
  BY <1>5, <1>8 DEF ExpireToken
<1> QED
  BY <1>4, <1>6, <1>7, <1>8
  DEF Next, LoginStep, VerifyStep, CheckStep, Login, FindForLogin, InsertUser, CommitUser,
      GenerateOTP, StoreOtp, SendOtp, VerifyOTP, GetOtp, CheckOtp, DeleteOtp, FindForVerify,
      CreateToken, UpdateUser, VerifyToken, CheckJwt, CompareToken, ExpireOtp, Tick, vars,
      cacheVars

-----------------------------------------------------------------------------
(* The theorems.                                                           *)

LEMMA InvInit == Init => IInv
<1> SUFFICES ASSUME Init PROVE IInv
  OBVIOUS
<1>1. TypeOK
  BY TypeInit
<1>2. LoginShape /\ IdsApart /\ RowsAllocated /\ RowsUnique
  BY DEF Init, LoginShape, IdsApart, RowsAllocated, RowsUnique
<1>3. OtpsMadeForKey
  BY KeyFacts DEF Init, OtpsMadeForKey
<1>4. \A v \in Verifies : VerifyShape(v)
  BY DEF Init, VerifyShape, AfterFind, AfterCreate
<1>5. TokensNameRows /\ SavedByReturned /\ StoredTokenNamesVerifiedUser
  BY DEF Init, TokensNameRows, SavedByReturned, StoredTokenNamesVerifiedUser
<1> QED
  BY <1>1, <1>2, <1>3, <1>4, <1>5 DEF IInv

LEMMA InvStep == IInv /\ [Next]_vars => IInv'
<1> SUFFICES ASSUME IInv, [Next]_vars PROVE IInv'
  OBVIOUS
<1> USE DEF IInv
<1>1. TypeOK'
  BY TypeStep
<1>2. LoginShape' /\ IdsApart' /\ RowsAllocated' /\ RowsUnique'
  BY LoginsAndTableStep DEF LoginsAndTable
<1>3. OtpsMadeForKey'
  BY OtpsMadeForKeyStep
<1>4. \A v \in Verifies : VerifyShape(v)'
  BY VerifyShapeStep
<1>5. TokensNameRows'
  BY TokensNameRowsStep
<1>6. SavedByReturned' /\ StoredTokenNamesVerifiedUser'
  <2>1. \A e \in Emails : token[e] # None => EntryGood(e, token[e])
    BY EntriesGood
  <2>2. \A e \in Emails : token'[e] # None => EntryGood(e, token[e])'
    BY <2>1, EntriesGoodStep
  <2>3. (\A e \in Emails : token[e] # None => EntryGood(e, token[e]))'
          <=> SavedByReturned' /\ StoredTokenNamesVerifiedUser'
    BY DEF EntryGood, SavedBy, NamesVerifiedRow, SavedByReturned, StoredTokenNamesVerifiedUser
  <2> QED
    BY <2>2, <2>3
<1> QED
  BY <1>1, <1>2, <1>3, <1>4, <1>5, <1>6

\* The inductive invariant holds in every reachable state.
THEOREM Inductive == Spec => []IInv
BY InvInit, InvStep, PTL DEF Spec

\* Every variable keeps its type.
THEOREM TypeCorrect == Spec => []TypeOK
BY Inductive, PTL DEF IInv

\* A saved token names a row of its address that is marked verified, whichever
\* call of VerifyOTP failed and whoever ran beside it.
THEOREM SavedTokensSound == Spec => []StoredTokenNamesVerifiedUser
BY Inductive, PTL DEF IInv

\* A token is saved for an address only in exchange for a code that a Login of
\* that address had stored.
THEOREM SavedTokensEarned == Spec => []TokenWasEarned
<1>1. IInv => TokenWasEarned
  BY DEF IInv, SavedByReturned, TokenWasEarned, MadeFor
<1> QED
  BY <1>1, Inductive, PTL

\* If the index on email is unique, an address keeps one user id: a second row
\* is never committed, and every token names a row of its address.
THEOREM IdentitySound == Spec => []IdentityIsStable
<1>1. IInv => IdentityIsStable
  <2> SUFFICES ASSUME IInv, UniqueEmail, NEW v \in Verifies, NEW w \in Verifies,
                      newToken[v] # None, newToken[w] # None,
                      newToken[v].email = newToken[w].email
               PROVE  newToken[v].id = newToken[w].id
    BY DEF IdentityIsStable
  <2>1. newToken[v].id \in Ids /\ newToken[w].id \in Ids
    BY DEF IInv, TypeOK, Jwts
  <2>2. /\ newToken[v].email \in Emails
        /\ rowEmail[newToken[v].id] = newToken[v].email
        /\ rowEmail[newToken[w].id] = newToken[w].email
    BY DEF IInv, TokensNameRows
  <2> QED
    BY <2>1, <2>2, Constants DEF IInv, RowsUnique
<1> QED
  BY <1>1, Inductive, PTL

-----------------------------------------------------------------------------
(* The tokens that VerifyOTP has returned: how long they stay on record,   *)
(* and that a later one revokes them.                                      *)

Facts == TypeOK /\ (\A v \in Verifies : VerifyShape(v)) /\ SeenShape

-----------------------------------------------------------------------------
(* What a step leaves alone.                                               *)

\* A VerifyOTP that has begun keeps its address and what it saw returned.
BegunKept ==
  \A v \in Verifies : verifyPc[v] # "idle" =>
    /\ verifyPc'[v] # "idle"
    /\ verifyEmail'[v] = verifyEmail[v] /\ verifiedBefore'[v] = verifiedBefore[v]

\* A token that was made stays as it was made.
TokensKept == \A v \in Verifies : newToken[v] # None => newToken'[v] = newToken[v]

LEMMA BegunKeptStep ==
  ASSUME TypeOK, [Next]_vars
  PROVE  BegunKept
<1> SUFFICES ASSUME NEW w \in Verifies, verifyPc[w] # "idle"
             PROVE  /\ verifyPc'[w] # "idle"
                    /\ verifyEmail'[w] = verifyEmail[w]
                    /\ verifiedBefore'[w] = verifiedBefore[w]
  BY DEF BegunKept
<1>1. /\ DOMAIN verifyPc = Verifies /\ DOMAIN verifyEmail = Verifies
      /\ DOMAIN verifiedBefore = Verifies
  BY DEF TypeOK
<1>2. ASSUME NEW v \in Verifies, VerifyOTP(v)
      PROVE  /\ verifyPc'[w] # "idle" /\ verifyEmail'[w] = verifyEmail[w]
             /\ verifiedBefore'[w] = verifiedBefore[w]
  BY <1>1, <1>2 DEF VerifyOTP
<1>3. ASSUME NEW v \in Verifies, VerifyStep(v), ~VerifyOTP(v)
      PROVE  /\ verifyPc'[w] # "idle" /\ verifyEmail'[w] = verifyEmail[w]
             /\ verifiedBefore'[w] = verifiedBefore[w]
  <2>1. UNCHANGED <<verifyEmail, verifiedBefore>>
    BY <1>3 DEF VerifyStep, GetOtp, CheckOtp, DeleteOtp, FindForVerify, CreateToken, UpdateUser,
                DeleteToken, SaveToken
  <2>2. verifyPc'[w] # "idle"
    BY <1>1, <1>3 DEF VerifyStep, GetOtp, CheckOtp, DeleteOtp, FindForVerify, CreateToken,
                      UpdateUser, DeleteToken, SaveToken, VerifyFails
  <2> QED
    BY <2>1, <2>2
<1>4. ASSUME UNCHANGED verifyVars
      PROVE  /\ verifyPc'[w] # "idle" /\ verifyEmail'[w] = verifyEmail[w]
             /\ verifiedBefore'[w] = verifiedBefore[w]
  BY <1>4 DEF verifyVars
<1> QED
  BY <1>2, <1>3, <1>4, OnlyVerifiesMoveVerifies

LEMMA TokensKeptStep ==
  ASSUME TypeOK, \A v \in Verifies : VerifyShape(v), [Next]_vars
  PROVE  TokensKept
<1>1. ASSUME UNCHANGED newToken PROVE TokensKept
  BY <1>1 DEF TokensKept
<1>2. ASSUME NEW v \in Verifies, CreateToken(v) PROVE TokensKept
  <2>1. newToken[v] = None
    BY <1>2 DEF CreateToken, VerifyShape
  <2>2. \A w \in Verifies \ {v} : newToken'[w] = newToken[w]
    BY <1>2 DEF CreateToken, TypeOK
  <2> QED
    BY <2>1, <2>2 DEF TokensKept
<1> QED
  BY <1>1, <1>2
  DEF Next, LoginStep, VerifyStep, CheckStep, Login, FindForLogin, InsertUser, CommitUser,
      GenerateOTP, StoreOtp, SendOtp, VerifyOTP, GetOtp, CheckOtp, DeleteOtp, FindForVerify,
      UpdateUser, DeleteToken, SaveToken, VerifyToken, CheckJwt, CompareToken, ExpireOtp,
      ExpireToken, Tick, vars, verifyVars

\* Only SaveToken ends a VerifyOTP well.
LEMMA OkFrom ==
  ASSUME TypeOK, [Next]_vars, NEW v \in Verifies, verifyPc'[v] = "ok"
  PROVE  verifyPc[v] = "ok" \/ SaveToken(v)
<1>1. DOMAIN verifyPc = Verifies
  BY DEF TypeOK
<1>2. ASSUME NEW w \in Verifies, VerifyStep(w), w # v PROVE verifyPc[v] = "ok"
  BY <1>2, OthersKept DEF LocalsKept
<1>3. ASSUME VerifyStep(v), ~SaveToken(v) PROVE FALSE
  BY <1>1, <1>3 DEF VerifyStep, VerifyOTP, GetOtp, CheckOtp, DeleteOtp, FindForVerify,
                    CreateToken, UpdateUser, DeleteToken, VerifyFails
<1>4. ASSUME UNCHANGED verifyVars PROVE verifyPc[v] = "ok"
  BY <1>4 DEF verifyVars
<1> QED
  BY <1>2, <1>3, <1>4, OnlyVerifiesMoveVerifies

\* A record changes only by its expiry or by a VerifyOTP of its address.
LEMMA RecordFrom ==
  ASSUME Facts, [Next]_vars, NEW e \in Emails, token'[e] # token[e]
  PROVE  \/ token'[e] = None /\ Due(token[e]) /\ now' = now
         \/ \E v \in Verifies : /\ verifyEmail[v] = e /\ ~Returned(v) /\ DeleteToken(v)
                                /\ token'[e] = None
         \/ \E v \in Verifies : /\ verifyEmail[v] = e /\ ~Returned(v) /\ SaveToken(v)
                                /\ token'[e] = Saved(v)
<1>1. DOMAIN token = Emails
  BY DEF Facts, TypeOK
<1>2. ASSUME NEW f \in Emails, ExpireToken(f)
      PROVE  token'[e] = None /\ Due(token[e]) /\ now' = now
  BY <1>1, <1>2 DEF ExpireToken
<1>3. ASSUME NEW v \in Verifies, DeleteToken(v)
      PROVE  verifyEmail[v] = e /\ ~Returned(v) /\ token'[e] = None
  <2>1. verifyEmail[v] \in Emails
    BY <1>3 DEF DeleteToken, VerifyShape, Facts
  <2> QED
    BY <1>1, <1>3, <2>1 DEF DeleteToken, Returned
<1>4. ASSUME NEW v \in Verifies, SaveToken(v)
      PROVE  verifyEmail[v] = e /\ ~Returned(v) /\ token'[e] = Saved(v)
  <2>1. verifyEmail[v] \in Emails
    BY <1>4 DEF SaveToken, VerifyShape, Facts
  <2> QED
    BY <1>1, <1>4, <2>1 DEF SaveToken, Returned
<1> QED
  BY <1>2, <1>3, <1>4
  DEF Next, LoginStep, VerifyStep, CheckStep, Login, FindForLogin, InsertUser, CommitUser,
      GenerateOTP, StoreOtp, SendOtp, VerifyOTP, GetOtp, CheckOtp, DeleteOtp, FindForVerify,
      CreateToken, UpdateUser, VerifyToken, CheckJwt, CompareToken, ExpireOtp, Tick, vars,
      cacheVars

LEMMA TimeGoesOn ==
  ASSUME now \in Nat, [Next]_vars
  PROVE  now' \in Nat /\ now <= now'
<1>1. now' = now \/ now' = now + 1
  BY DEF Next, LoginStep, VerifyStep, CheckStep, Login, FindForLogin, InsertUser, CommitUser,
         GenerateOTP, StoreOtp, SendOtp, VerifyOTP, GetOtp, CheckOtp, DeleteOtp, FindForVerify,
         CreateToken, UpdateUser, DeleteToken, SaveToken, VerifyToken, CheckJwt, CompareToken,
         ExpireOtp, ExpireToken, Tick, vars
<1> QED
  BY <1>1

-----------------------------------------------------------------------------
(* What a process has seen.                                                *)

LEMMA SeenShapeStep ==
  ASSUME Facts, [Next]_vars
  PROVE  SeenShape'
<1>1. \A w \in Verifies : Returned(w) => Returned(w)'
  <2> SUFFICES ASSUME NEW w \in Verifies, Returned(w) PROVE Returned(w)'
    OBVIOUS
  <2>1. LocalsKept(w)
    BY ReturnedKept DEF Facts
  <2> QED
    BY <2>1 DEF LocalsKept, Returned
<1>2. ASSUME NEW v \in Verifies PROVE verifiedBefore'[v] \subseteq {w \in Verifies : Returned(w)'}
  <2>1. CASE verifiedBefore'[v] = verifiedBefore[v]
    BY <1>1, <2>1 DEF Facts, SeenShape
  <2>2. CASE VerifyOTP(v)
    <3>1. verifiedBefore'[v] = {w \in Verifies : Returned(w)}
      BY <2>2 DEF VerifyOTP, Facts, TypeOK
    <3> QED
      BY <1>1, <3>1
  <2>3. verifiedBefore'[v] = verifiedBefore[v] \/ VerifyOTP(v)
    <3>1. ASSUME NEW u \in Verifies, VerifyStep(u)
          PROVE  verifiedBefore'[v] = verifiedBefore[v] \/ VerifyOTP(v)
      <4>1. CASE VerifyOTP(u)
        BY <4>1 DEF VerifyOTP, Facts, TypeOK
      <4>2. CASE ~VerifyOTP(u)
        BY <3>1, <4>2 DEF VerifyStep, GetOtp, CheckOtp, DeleteOtp, FindForVerify, CreateToken,
                          UpdateUser, DeleteToken, SaveToken
      <4> QED
        BY <4>1, <4>2
    <3>2. ASSUME UNCHANGED verifyVars PROVE verifiedBefore'[v] = verifiedBefore[v]
      BY <3>2 DEF verifyVars
    <3> QED
      BY <3>1, <3>2, OnlyVerifiesMoveVerifies
  <2> QED
    BY <2>1, <2>2, <2>3
<1>3. ASSUME NEW v \in Verifies, verifyPc'[v] = "idle" PROVE verifyEmail'[v] = None
  <2>1. verifyPc[v] = "idle"
    BY <1>3, BegunKeptStep DEF BegunKept, Facts
  <2>2. ASSUME NEW u \in Verifies, VerifyStep(u) PROVE u # v
    BY <1>3, <2>1, <2>2
    DEF VerifyStep, VerifyOTP, GetOtp, CheckOtp, DeleteOtp, FindForVerify, CreateToken,
        UpdateUser, DeleteToken, SaveToken, Facts, TypeOK
  <2>3. verifyEmail'[v] = verifyEmail[v]
    <3>1. ASSUME UNCHANGED verifyVars PROVE verifyEmail'[v] = verifyEmail[v]
      BY <3>1 DEF verifyVars
    <3>2. ASSUME NEW u \in Verifies, VerifyStep(u) PROVE verifyEmail'[v] = verifyEmail[v]
      BY <2>2, <3>2, OthersKept DEF LocalsKept, Facts
    <3> QED
      BY <3>1, <3>2, OnlyVerifiesMoveVerifies
  <2> QED
    BY <2>1, <2>3 DEF Facts, SeenShape
\* Only the steps of VerifyToken touch what it knows.
<1>4. ASSUME UNCHANGED checkVars
      PROVE  \A k \in Checks :
               /\ issuedBefore'[k] \subseteq {w \in Verifies : Returned(w)'}
               /\ checkPc'[k] # "idle" => checkToken'[k] \in [jwt : Jwts, bearer : BOOLEAN]
  BY <1>1, <1>4 DEF checkVars, Facts, SeenShape
<1>5. ASSUME NEW c \in Checks, VerifyToken(c)
      PROVE  \A k \in Checks :
               /\ issuedBefore'[k] \subseteq {w \in Verifies : Returned(w)'}
               /\ checkPc'[k] # "idle" => checkToken'[k] \in [jwt : Jwts, bearer : BOOLEAN]
  <2>1. ASSUME NEW v \in Verifies, verifyPc[v] = "ok" PROVE newToken[v] \in Jwts
    BY <2>1 DEF VerifyShape, AfterCreate, Facts
  <2>2. PICK jwt \in Issued, bearer \in BOOLEAN :
          checkToken' = [checkToken EXCEPT ![c] = [jwt |-> jwt, bearer |-> bearer]]
    BY <1>5 DEF VerifyToken
  <2>3. jwt \in Jwts
    BY <2>1, IssuedTyped
  <2>4. /\ checkPc' = [checkPc EXCEPT ![c] = "check"]
        /\ issuedBefore' = [issuedBefore EXCEPT ![c] = {v \in Verifies : Returned(v)}]
    BY <1>5 DEF VerifyToken
  <2>5. DOMAIN checkPc = Checks /\ DOMAIN checkToken = Checks /\ DOMAIN issuedBefore = Checks
    BY DEF Facts, TypeOK
  <2> SUFFICES ASSUME NEW k \in Checks
               PROVE  /\ issuedBefore'[k] \subseteq {w \in Verifies : Returned(w)'}
                      /\ checkPc'[k] # "idle" => checkToken'[k] \in [jwt : Jwts, bearer : BOOLEAN]
    OBVIOUS
  <2>6. CASE k = c
    BY <1>1, <2>2, <2>3, <2>4, <2>5, <2>6
  <2>7. CASE k # c
    <3>1. /\ issuedBefore'[k] = issuedBefore[k] /\ checkPc'[k] = checkPc[k]
          /\ checkToken'[k] = checkToken[k]
      BY <2>2, <2>4, <2>5, <2>7
    <3> QED
      BY <1>1, <3>1 DEF Facts, SeenShape
  <2> QED
    BY <2>6, <2>7
<1>6. ASSUME NEW c \in Checks, CheckJwt(c) \/ CompareToken(c)
      PROVE  \A k \in Checks :
               /\ issuedBefore'[k] \subseteq {w \in Verifies : Returned(w)'}
               /\ checkPc'[k] # "idle" => checkToken'[k] \in [jwt : Jwts, bearer : BOOLEAN]
  <2>1. UNCHANGED <<issuedBefore, checkToken>> /\ checkPc[c] # "idle"
    BY <1>6 DEF CheckJwt, CompareToken
  <2>2. \A k \in Checks \ {c} : checkPc'[k] = checkPc[k]
    BY <1>6 DEF CheckJwt, CompareToken, Facts, TypeOK
  <2> QED
    BY <1>1, <2>1, <2>2 DEF Facts, SeenShape
<1>7. \A k \in Checks :
        /\ issuedBefore'[k] \subseteq {w \in Verifies : Returned(w)'}
        /\ checkPc'[k] # "idle" => checkToken'[k] \in [jwt : Jwts, bearer : BOOLEAN]
  BY <1>4, <1>5, <1>6
  DEF Next, LoginStep, VerifyStep, CheckStep, Login, FindForLogin, InsertUser, CommitUser,
      GenerateOTP, StoreOtp, SendOtp, VerifyOTP, GetOtp, CheckOtp, DeleteOtp, FindForVerify,
      CreateToken, UpdateUser, DeleteToken, SaveToken, ExpireOtp, ExpireToken, Tick, vars
<1>8. /\ \A v \in Verifies : verifiedBefore'[v] \subseteq {w \in Verifies : Returned(w)'}
      /\ \A v \in Verifies : verifyPc'[v] = "idle" => verifyEmail'[v] = None
  BY <1>2, <1>3
<1> QED
  BY <1>7, <1>8 DEF SeenShape, Returned

-----------------------------------------------------------------------------
(* How long a token is valid, and how long it is on record.                *)

LEMMA LaterPlus ==
  ASSUME NEW a \in Nat, NEW b \in Nat, NEW c \in Nat, a <= b
  PROVE  a + c <= b + c
OBVIOUS

LEMMA ClaimsExpireStep ==
  ASSUME TypeOK, \A v \in Verifies : VerifyShape(v), ClaimsExpire, [Next]_vars
  PROVE  ClaimsExpire'
<1> SUFFICES ASSUME NEW v \in Verifies, verifyPc'[v] \in AfterCreate
             PROVE  newToken'[v].exp <= now' + JwtLife
  BY DEF ClaimsExpire, AfterCreate
<1>1. now \in Nat /\ now' \in Nat /\ now <= now' /\ JwtLife \in Nat
  BY TimeGoesOn, Constants DEF TypeOK
<1>2. DOMAIN verifyPc = Verifies /\ DOMAIN newToken = Verifies
  BY DEF TypeOK
<1>3. CASE verifyPc[v] \in AfterCreate
  <2>1. newToken[v] \in Jwts
    BY <1>3 DEF VerifyShape
  <2>2. newToken'[v] = newToken[v] /\ newToken[v].exp \in Nat
    BY <2>1, NoneAssumption, TokensKeptStep DEF TokensKept, Jwts
  <2>3. newToken[v].exp <= now + JwtLife
    BY <1>3 DEF ClaimsExpire
  <2> QED
    BY <1>1, <2>2, <2>3
<1>4. CASE verifyPc[v] \notin AfterCreate
  <2>1. ASSUME VerifyStep(v), ~CreateToken(v) PROVE FALSE
    BY <1>2, <1>4, <2>1
    DEF VerifyStep, VerifyOTP, GetOtp, CheckOtp, DeleteOtp, FindForVerify, UpdateUser,
        DeleteToken, SaveToken, VerifyFails, AfterCreate
  <2>2. ASSUME NEW w \in Verifies, VerifyStep(w), w # v PROVE FALSE
    BY <1>4, <2>2, OthersKept DEF LocalsKept
  <2>3. ASSUME UNCHANGED verifyVars PROVE FALSE
    BY <1>4, <2>3 DEF verifyVars
  <2>4. CreateToken(v)
    BY <2>1, <2>2, <2>3, OnlyVerifiesMoveVerifies
  <2>5. newToken'[v] = [id |-> userId[v], email |-> verifyEmail[v], exp |-> now + JwtLife]
    BY <1>2, <2>4 DEF CreateToken
  <2>6. newToken'[v].exp = now + JwtLife
    BY <2>5
  <2>7. now + JwtLife <= now' + JwtLife
    BY <1>1, LaterPlus
  <2> QED
    BY <2>6, <2>7
<1> QED
  BY <1>3, <1>4

\* Whoever ran alone after the step did so before it.
LEMMA AloneBefore ==
  ASSUME Facts, [Next]_vars, NEW v \in Verifies, verifyPc[v] # "idle", RanAlone(v)'
  PROVE  RanAlone(v)
<1> SUFFICES ASSUME NEW w \in Verifies \ {v}, verifyEmail[w] = verifyEmail[v]
             PROVE  w \in verifiedBefore[v]
  BY DEF RanAlone
<1>1. verifyEmail'[v] = verifyEmail[v] /\ verifiedBefore'[v] = verifiedBefore[v]
  BY BegunKeptStep DEF BegunKept, Facts
<1>2. verifyPc[w] # "idle"
  <2>1. verifyEmail[v] \in Emails
    BY DEF Facts, VerifyShape
  <2> QED
    BY <2>1, Constants DEF Facts, SeenShape
<1>3. verifyEmail'[w] = verifyEmail[w]
  BY <1>2, BegunKeptStep DEF BegunKept, Facts
<1> QED
  BY <1>1, <1>3 DEF RanAlone

LEMMA RecordOutlivesTokenStep ==
  ASSUME Facts, ClaimsExpire, RecordOutlivesToken, [Next]_vars
  PROVE  RecordOutlivesToken'
<1> SUFFICES ASSUME NEW v \in Verifies, verifyPc'[v] = "ok", RanAlone(v)', now' <= newToken'[v].exp
             PROVE  /\ token'[verifyEmail'[v]] # None
                    /\ token'[verifyEmail'[v]].value = newToken'[v]
                    /\ newToken'[v].exp < token'[verifyEmail'[v]].ttl
  BY DEF RecordOutlivesToken, RanAlone
<1> DEFINE e == verifyEmail[v]
<1>1. now \in Nat /\ now' \in Nat /\ now <= now'
  BY TimeGoesOn DEF Facts, TypeOK
<1>2. verifyPc[v] = "ok" \/ SaveToken(v)
  BY OkFrom DEF Facts
<1>3. verifyPc[v] # "idle" /\ verifyPc[v] \in AfterCreate /\ e \in Emails /\ newToken[v] \in Jwts
  BY <1>2 DEF SaveToken, Facts, VerifyShape, AfterCreate
<1>4. newToken'[v] = newToken[v] /\ verifyEmail'[v] = e /\ newToken[v].exp \in Nat
  BY <1>3, NoneAssumption, TokensKeptStep, BegunKeptStep DEF TokensKept, BegunKept, Facts, Jwts
<1>5. RanAlone(v)
  BY <1>3, AloneBefore
<1>6. token \in [Emails -> [value : Jwts, ttl : Nat] \cup {None}]
  BY DEF Facts, TypeOK
<1>7. CASE SaveToken(v)
  <2>1. token' = [token EXCEPT ![e] = Saved(v)]
    <3>1. verifyPc'[v] # "failed"
      OBVIOUS
    <3>2. DOMAIN verifyPc = Verifies
      BY DEF Facts, TypeOK
    <3> QED
      BY <1>7, <3>1, <3>2 DEF SaveToken, VerifyFails
  <2>2. token'[e] = Entry(newToken[v], now + TokenLife)
    BY <1>3, <1>6, <2>1 DEF Saved
  <2>3. token'[e].value = newToken[v] /\ token'[e].ttl = now + TokenLife
    BY <2>2 DEF Entry
  <2>4. token'[e] # None
    <3>1. Saved(v) \in [value : Jwts, ttl : Nat]
      BY <1>1, <1>3, TokenEntryTyped
    <3>2. token'[e] = Saved(v)
      BY <2>2 DEF Saved
    <3>3. None \notin [value : Jwts, ttl : Nat]
      BY NoneAssumption
    <3> QED
      BY <3>1, <3>2, <3>3
  <2>5. newToken[v].exp <= now + JwtLife
    BY <1>3 DEF ClaimsExpire
  <2>6. newToken[v].exp < now + TokenLife
    <3>1. JwtLife \in Nat /\ TokenLife \in Nat /\ JwtLife < TokenLife
      BY AuthAssumption
    <3> QED
      BY <1>1, <1>4, <2>5, <3>1
  <2> QED
    BY <1>4, <2>3, <2>4, <2>6
<1>8. CASE verifyPc[v] = "ok"
  <2>1. now <= newToken[v].exp
    BY <1>1, <1>4
  <2>2. token[e] # None /\ token[e].value = newToken[v] /\ newToken[v].exp < token[e].ttl
    BY <1>5, <1>8, <2>1 DEF RecordOutlivesToken
  <2>3. token'[e] = token[e]
    <3>1. ASSUME Due(token[e]) PROVE FALSE
      <4>1. token[e].ttl <= now /\ token[e].ttl \in Nat
        BY <1>3, <1>6, <2>2, <3>1 DEF Due
      <4> QED
        BY <1>1, <1>4, <2>1, <2>2, <4>1
    <3>2. ASSUME NEW w \in Verifies, verifyEmail[w] = e, ~Returned(w) PROVE FALSE
      <4>1. w # v
        BY <1>8, <3>2 DEF Returned
      <4>2. w \in verifiedBefore[v]
        BY <1>5, <3>2, <4>1 DEF RanAlone
      <4> QED
        BY <3>2, <4>2 DEF Facts, SeenShape
    <3> QED
      BY <1>3, <3>1, <3>2, RecordFrom
  <2> QED
    BY <1>4, <2>2, <2>3
<1> QED
  BY <1>2, <1>7, <1>8

-----------------------------------------------------------------------------
(* Who saved what is on record.                                            *)

LEMMA RecordIsRecentStep ==
  ASSUME Facts, RecordIsRecent, [Next]_vars
  PROVE  RecordIsRecent'
<1> SUFFICES ASSUME NEW e \in Emails, NEW w \in Verifies,
                    token'[e] # None, verifyPc'[w] = "ok", verifyEmail'[w] = e
             PROVE  SavedSince(w, token[e].value)'
  BY DEF RecordIsRecent, SavedSince, Returned
<1>1. verifyPc[w] = "ok" \/ SaveToken(w)
  BY OkFrom DEF Facts
<1>2. verifyPc[w] # "idle"
  BY <1>1 DEF SaveToken
<1>3. verifyEmail[w] = e /\ verifiedBefore'[w] = verifiedBefore[w]
  BY <1>2, BegunKeptStep DEF BegunKept, Facts
<1>4. token \in [Emails -> [value : Jwts, ttl : Nat] \cup {None}]
  BY DEF Facts, TypeOK
\* A VerifyOTP saves before it returns, so nobody has seen it returned.
<1>5. ASSUME NEW v \in Verifies, SaveToken(v), token'[e] = Saved(v)
      PROVE  SavedSince(w, token[e].value)'
  <2>1. ~Returned(v)
    BY <1>5 DEF SaveToken, Returned
  <2>2. v \notin verifiedBefore[w]
    BY <2>1 DEF Facts, SeenShape
  <2>3. newToken'[v] = newToken[v]
    BY <1>5 DEF SaveToken
  <2>4. Returned(v)'
    BY <1>5 DEF SaveToken, VerifyFails, Returned, Facts, TypeOK
  <2>5. token'[e].value = newToken[v]
    BY <1>5 DEF Saved, Entry
  <2> QED
    BY <1>3, <2>2, <2>3, <2>4, <2>5 DEF SavedSince
<1>6. CASE token'[e] = token[e] /\ verifyPc[w] = "ok"
  <2>1. PICK v \in Verifies : /\ Returned(v) /\ newToken[v] = token[e].value
                              /\ v \notin verifiedBefore[w]
    BY <1>3, <1>6 DEF RecordIsRecent, SavedSince
  <2>2. LocalsKept(v)
    BY <2>1, ReturnedKept DEF Facts
  <2> QED
    BY <1>3, <1>6, <2>1, <2>2 DEF SavedSince, LocalsKept, Returned
<1>7. CASE token'[e] # token[e]
  <2>1. PICK v \in Verifies : SaveToken(v) /\ token'[e] = Saved(v)
    BY <1>7, RecordFrom
  <2> QED
    BY <1>5, <2>1
<1>8. CASE SaveToken(w)
  <2>1. verifyPc'[w] # "failed" /\ DOMAIN verifyPc = Verifies
    BY DEF Facts, TypeOK
  <2>2. token' = [token EXCEPT ![e] = Saved(w)]
    BY <1>3, <1>8, <2>1 DEF SaveToken, VerifyFails
  <2>3. token'[e] = Saved(w)
    BY <1>4, <2>2
  <2> QED
    BY <1>5, <1>8, <2>3
<1> QED
  BY <1>1, <1>6, <1>7, <1>8

LEMMA RevokedStep ==
  ASSUME Facts, RecordIsRecent, NewTokenRevokesOld, [Next]_vars
  PROVE  NewTokenRevokesOld'
<1> SUFFICES ASSUME NEW k \in Checks, checkPc'[k] = "accepted",
                    NEW w \in issuedBefore'[k],
                    verifyPc'[w] = "ok", newToken'[w].email = checkToken'[k].jwt.email,
                    \A v \in Verifies : newToken'[v] = checkToken'[k].jwt => v \in verifiedBefore'[w]
             PROVE  newToken'[w] = checkToken'[k].jwt
  BY DEF NewTokenRevokesOld
<1>1. /\ DOMAIN checkPc = Checks /\ DOMAIN checkToken = Checks /\ DOMAIN issuedBefore = Checks
  BY DEF Facts, TypeOK
\* The check had begun, so it keeps its token and what it saw.
<1>2. /\ checkPc[k] = "accepted" \/ (CompareToken(k) /\ checkPc[k] = "get")
      /\ checkToken'[k] = checkToken[k] /\ issuedBefore'[k] = issuedBefore[k]
  <2>1. ASSUME NEW c \in Checks, VerifyToken(c)
        PROVE  /\ checkPc[k] = "accepted"
               /\ checkToken'[k] = checkToken[k] /\ issuedBefore'[k] = issuedBefore[k]
    BY <1>1, <2>1 DEF VerifyToken
  <2>2. ASSUME NEW c \in Checks, CheckJwt(c)
        PROVE  /\ checkPc[k] = "accepted"
               /\ checkToken'[k] = checkToken[k] /\ issuedBefore'[k] = issuedBefore[k]
    BY <1>1, <2>2 DEF CheckJwt
  <2>3. ASSUME NEW c \in Checks, CompareToken(c)
        PROVE  /\ checkPc[k] = "accepted" \/ (CompareToken(k) /\ checkPc[k] = "get")
               /\ checkToken'[k] = checkToken[k] /\ issuedBefore'[k] = issuedBefore[k]
    BY <1>1, <2>3 DEF CompareToken
  <2>4. ASSUME UNCHANGED checkVars
        PROVE  /\ checkPc[k] = "accepted"
               /\ checkToken'[k] = checkToken[k] /\ issuedBefore'[k] = issuedBefore[k]
    BY <2>4 DEF checkVars
  <2> QED
    BY <2>1, <2>2, <2>3, <2>4
    DEF Next, LoginStep, VerifyStep, CheckStep, Login, FindForLogin, InsertUser, CommitUser,
        GenerateOTP, StoreOtp, SendOtp, VerifyOTP, GetOtp, CheckOtp, DeleteOtp, FindForVerify,
        CreateToken, UpdateUser, DeleteToken, SaveToken, ExpireOtp, ExpireToken, Tick, vars
<1>3. /\ w \in Verifies /\ Returned(w) /\ w \in issuedBefore[k]
      /\ checkToken[k] \in [jwt : Jwts, bearer : BOOLEAN]
  BY <1>2 DEF Facts, SeenShape
<1>4. /\ verifyPc[w] = "ok" /\ newToken'[w] = newToken[w]
      /\ verifiedBefore'[w] = verifiedBefore[w]
  <2>1. LocalsKept(w)
    BY <1>3, ReturnedKept DEF Facts
  <2>2. verifyPc[w] # "idle"
    BY <1>3 DEF Returned
  <2> QED
    BY <1>3, <2>1, <2>2, BegunKeptStep DEF LocalsKept, BegunKept, Facts
<1> DEFINE jwt == checkToken[k].jwt
<1>5. jwt \in Jwts /\ jwt # None
  BY <1>3, NoneAssumption
<1>6. ASSUME NEW v \in Verifies, newToken[v] = jwt PROVE v \in verifiedBefore[w]
  <2>1. newToken'[v] = jwt
    BY <1>5, <1>6, TokensKeptStep DEF TokensKept, Facts
  <2> QED
    BY <1>2, <1>4, <2>1
<1>7. CASE checkPc[k] = "accepted"
  BY <1>2, <1>3, <1>4, <1>6, <1>7 DEF NewTokenRevokesOld
<1>8. CASE CompareToken(k)
  <2>1. token[jwt.email] # None /\ token[jwt.email].value = jwt
    BY <1>1, <1>8 DEF CompareToken, IsStored
  <2>2. verifyEmail[w] = jwt.email /\ jwt.email \in Emails
    BY <1>2, <1>4, <1>5, <1>3 DEF Facts, VerifyShape, AfterCreate, Jwts
  <2>3. SavedSince(w, jwt)
    BY <1>3, <1>4, <2>1, <2>2 DEF RecordIsRecent
  <2> QED
    BY <1>6, <2>3 DEF SavedSince
<1> QED
  BY <1>2, <1>7, <1>8

-----------------------------------------------------------------------------
(* The theorems.                                                           *)

LEMMA SessionInit == Init => SessionInv
<1> SUFFICES ASSUME Init PROVE SessionInv
  OBVIOUS
<1>1. IInv
  BY InvInit
<1>2. SeenShape
  BY DEF Init, SeenShape
<1>3. ClaimsExpire /\ RecordOutlivesToken /\ RecordIsRecent /\ NewTokenRevokesOld
  BY DEF Init, ClaimsExpire, AfterCreate, RecordOutlivesToken, RecordIsRecent, NewTokenRevokesOld
<1> QED
  BY <1>1, <1>2, <1>3 DEF SessionInv

LEMMA SessionStep == SessionInv /\ [Next]_vars => SessionInv'
<1> SUFFICES ASSUME SessionInv, [Next]_vars PROVE SessionInv'
  OBVIOUS
<1>1. IInv'
  BY InvStep DEF SessionInv
<1>2. Facts /\ ClaimsExpire /\ RecordOutlivesToken /\ RecordIsRecent /\ NewTokenRevokesOld
  BY DEF SessionInv, IInv, Facts
<1>3. SeenShape'
  BY <1>2, SeenShapeStep
<1>4. ClaimsExpire'
  BY <1>2, ClaimsExpireStep DEF Facts
<1>5. RecordOutlivesToken'
  BY <1>2, RecordOutlivesTokenStep
<1>6. RecordIsRecent' /\ NewTokenRevokesOld'
  BY <1>2, RecordIsRecentStep, RevokedStep
<1> QED
  BY <1>1, <1>3, <1>4, <1>5, <1>6 DEF SessionInv

\* The strengthened invariant about returned tokens holds in every reachable state.
THEOREM SessionsFollowed == Spec => []SessionInv
BY SessionInit, SessionStep, PTL DEF Spec

\* The token that VerifyOTP returned stays on record for as long as it is valid,
\* unless another VerifyOTP of the address ran beside it or later: Redis keeps it
\* for longer than its claims are good for.
THEOREM TokenStaysOnRecord == Spec => []ReturnedTokenIsOnRecord
<1>1. SessionInv => ReturnedTokenIsOnRecord
  BY DEF SessionInv, RecordOutlivesToken, RanAlone, ReturnedTokenIsOnRecord
<1> QED
  BY <1>1, SessionsFollowed, PTL

\* VerifyToken does not accept a token once a VerifyOTP that began after it was
\* issued has returned another one.
THEOREM LoginRevokes == Spec => []NewTokenRevokesOld
BY SessionsFollowed, PTL DEF SessionInv

=============================================================================
