---------------------------- MODULE AuthService ----------------------------
(***************************************************************************)
(* The auth service (auth_service/service/auth_service.go): Login stores   *)
(* and mails a one-time password, VerifyOTP exchanges it for a token,      *)
(* VerifyToken, which the gateway's middleware calls before every handler, *)
(* accepts the token that was saved last.                                  *)
(*                                                                         *)
(* Every execution of a handler is a process; a step is one call to        *)
(* Postgres, Redis or the mailer, or a look at the clock.  A call that     *)
(* reports an error may have taken effect all the same: that also stands   *)
(* for a process that dies between two steps, as nothing is kept in memory.*)
(***************************************************************************)
EXTENDS Naturals, FiniteSets

CONSTANTS
  Emails, Codes,   \* addresses, and what GenerateOTP may return
  Logins,          \* executions of Login
  Verifies,        \* executions of VerifyOTP
  Checks,          \* executions of VerifyToken
  OtpLife,         \* five minutes in the code
  JwtLife,         \* one hour
  TokenLife,       \* twenty-four hours
  UniqueEmail,     \* whether the table has the unique index on email that
                   \* user_service declares and auth_service does not
  MaxId,           \* bound: how many ids the table's sequence gives out
  MaxTime,         \* bound: how far the clock runs
  None             \* no value, no row, redis.Nil

ASSUME AuthAssumption ==
  /\ OtpLife \in Nat /\ JwtLife \in Nat /\ TokenLife \in Nat
  /\ MaxId \in Nat /\ MaxTime \in Nat
  /\ JwtLife < TokenLife
  /\ UniqueEmail \in BOOLEAN
  /\ None \notin Emails \cup Logins \cup Nat

VARIABLES
  now,
  rowEmail, verified,                       \* the users table, by id
  nextId,                                   \* its sequence
  otp, token,                               \* Redis, by key and by email
  inbox,                                    \* mails delivered
  loginPc, loginEmail, loginId, loginOtp,   \* locals of Login
  verifyPc, verifyEmail, verifyCode,        \* locals of VerifyOTP
  otpData, userId, newToken,
  checkPc, checkToken,                      \* locals of VerifyToken
  verifiedBefore, issuedBefore  \* history: VerifyOTPs that had returned when a
                                \* VerifyOTP, or a VerifyToken, began

tableVars  == <<rowEmail, verified, nextId>>
cacheVars  == <<otp, token>>
loginVars  == <<loginPc, loginEmail, loginId, loginOtp>>
verifyVars == <<verifyPc, verifyEmail, verifyCode, otpData, userId, newToken, verifiedBefore>>
checkVars  == <<checkPc, checkToken, issuedBefore>>
vars == <<now, tableVars, cacheVars, inbox, loginVars, verifyVars, checkVars>>

Ids == 1 .. MaxId
Otps == [code : Codes, by : Logins, expiresAt : Nat]
Jwts == [id : Ids, email : Emails, exp : Nat]

OtpKeyOfAny(e) == <<CHOOSE f \in Emails : TRUE, "_otp_data">>   \* mutant: one key for all

\* Login saves under <email>_otp_data ...
OtpKey(e) == <<e, "_otp_data">>
\* ... and VerifyOTP deletes <email>.
DeletedKey(e) == <<e, "">>
Keys == Emails \X {"_otp_data", ""}

Entry(value, ttl) == [value |-> value, ttl |-> ttl]

ASSUME NoneAssumption == None \notin Jwts \cup [value : Jwts, ttl : Nat]

Init ==
  /\ now = 0
  /\ rowEmail = [i \in Ids |-> None]
  /\ verified = [i \in Ids |-> FALSE]
  /\ nextId = 1
  /\ otp = [k \in Keys |-> None]
  /\ token = [e \in Emails |-> None]
  /\ inbox = {}
  /\ loginPc = [l \in Logins |-> "idle"]
  /\ loginEmail = [l \in Logins |-> None]
  /\ loginId = [l \in Logins |-> None]
  /\ loginOtp = [l \in Logins |-> None]
  /\ verifyPc = [v \in Verifies |-> "idle"]
  /\ verifyEmail = [v \in Verifies |-> None]
  /\ verifyCode = [v \in Verifies |-> None]
  /\ otpData = [v \in Verifies |-> None]
  /\ userId = [v \in Verifies |-> None]
  /\ newToken = [v \in Verifies |-> None]
  /\ verifiedBefore = [v \in Verifies |-> {}]
  /\ checkPc = [k \in Checks |-> "idle"]
  /\ checkToken = [k \in Checks |-> None]
  /\ issuedBefore = [k \in Checks |-> {}]

\* FindByEmail is First, the row with the least id.
RowsOf(e) == {i \in Ids : rowEmail[i] = e}
FirstId(e) == CHOOSE i \in RowsOf(e) : \A j \in RowsOf(e) : i <= j

Returned(v) == verifyPc[v] \in {"ok", "failed"}

-----------------------------------------------------------------------------
(* Login                                                                   *)

LoginFails(l) == loginPc' = [loginPc EXCEPT ![l] = "failed"]

Login(l) ==
  /\ loginPc[l] = "idle"
  /\ \E e \in Emails : loginEmail' = [loginEmail EXCEPT ![l] = e]
  /\ loginPc' = [loginPc EXCEPT ![l] = "find"]
  /\ UNCHANGED <<now, tableVars, cacheVars, inbox, loginId, loginOtp, verifyVars, checkVars>>

FindForLogin(l) ==
  /\ loginPc[l] = "find"
  /\ \/ loginPc' = [loginPc EXCEPT ![l] =
                      IF RowsOf(loginEmail[l]) = {} THEN "insert" ELSE "generate"]
     \/ LoginFails(l)
  /\ UNCHANGED <<now, tableVars, cacheVars, inbox, loginEmail, loginId, loginOtp,
                 verifyVars, checkVars>>

\* INSERT takes the next id of the sequence; the row is visible from COMMIT on.
InsertUser(l) ==
  /\ loginPc[l] = "insert"
  /\ nextId <= MaxId
  /\ nextId' = nextId + 1
  /\ loginId' = [loginId EXCEPT ![l] = nextId]
  /\ loginPc' = [loginPc EXCEPT ![l] = "commit"]
  /\ UNCHANGED <<now, rowEmail, verified, cacheVars, inbox, loginEmail, loginOtp,
                 verifyVars, checkVars>>

TakenUnchecked(e) == FALSE                      \* mutant: no unique index
Taken(e) == UniqueEmail /\ RowsOf(e) # {}

CommitUser(l) ==
  /\ loginPc[l] = "commit"
  /\ \/ /\ ~Taken(loginEmail[l])
        /\ rowEmail' = [rowEmail EXCEPT ![loginId[l]] = loginEmail[l]]
        /\ \/ loginPc' = [loginPc EXCEPT ![l] = "generate"]
           \/ LoginFails(l)
     \/ LoginFails(l) /\ UNCHANGED rowEmail
  /\ UNCHANGED <<now, verified, nextId, cacheVars, inbox, loginEmail, loginId, loginOtp,
                 verifyVars, checkVars>>

\* GenerateOTP, and the time at which the code ceases to be valid.
GenerateOTP(l) ==
  /\ loginPc[l] = "generate"
  /\ \E code \in Codes :
       loginOtp' = [loginOtp EXCEPT ![l] =
                      [code |-> code, by |-> l, expiresAt |-> now + OtpLife]]
  /\ loginPc' = [loginPc EXCEPT ![l] = "store"]
  /\ UNCHANGED <<now, tableVars, cacheVars, inbox, loginEmail, loginId, verifyVars, checkVars>>

StoreOtp(l) ==
  /\ loginPc[l] = "store"
  /\ \/ /\ otp' = [otp EXCEPT ![OtpKey(loginEmail[l])] = Entry(loginOtp[l], now + OtpLife)]
        /\ \/ loginPc' = [loginPc EXCEPT ![l] = "mail"]
           \/ LoginFails(l)
     \/ LoginFails(l) /\ UNCHANGED otp
  /\ UNCHANGED <<now, tableVars, token, inbox, loginEmail, loginId, loginOtp,
                 verifyVars, checkVars>>

\* Email.Send gives up after five seconds; the mail may arrive all the same.
SendOtp(l) ==
  /\ loginPc[l] = "mail"
  /\ \/ /\ inbox' = inbox \cup {[email |-> loginEmail[l], otp |-> loginOtp[l]]}
        /\ \/ loginPc' = [loginPc EXCEPT ![l] = "ok"]
           \/ LoginFails(l)
     \/ LoginFails(l) /\ UNCHANGED inbox
  /\ UNCHANGED <<now, tableVars, cacheVars, loginEmail, loginId, loginOtp,
                 verifyVars, checkVars>>

-----------------------------------------------------------------------------
(* VerifyOTP                                                               *)

VerifyFails(v) == verifyPc' = [verifyPc EXCEPT ![v] = "failed"]

\* The caller may submit any code, mailed or guessed.
VerifyOTP(v) ==
  /\ verifyPc[v] = "idle"
  /\ \E e \in Emails : verifyEmail' = [verifyEmail EXCEPT ![v] = e]
  /\ \E code \in Codes : verifyCode' = [verifyCode EXCEPT ![v] = code]
  /\ verifyPc' = [verifyPc EXCEPT ![v] = "get"]
  /\ verifiedBefore' = [verifiedBefore EXCEPT ![v] = {w \in Verifies : Returned(w)}]
  /\ UNCHANGED <<now, tableVars, cacheVars, inbox, loginVars, otpData, userId, newToken,
                 checkVars>>

GetOtp(v) ==
  /\ verifyPc[v] = "get"
  /\ \/ /\ otp[OtpKey(verifyEmail[v])] # None
        /\ otpData' = [otpData EXCEPT ![v] = otp[OtpKey(verifyEmail[v])].value]
        /\ verifyPc' = [verifyPc EXCEPT ![v] = "check"]
     \/ VerifyFails(v) /\ UNCHANGED otpData
  /\ UNCHANGED <<now, tableVars, cacheVars, inbox, loginVars, verifyEmail, verifyCode,
                 userId, newToken, verifiedBefore, checkVars>>

MatchesAnything(v) == now <= otpData[v].expiresAt   \* mutant: the code is not compared
Matches(v) == /\ otpData[v].code = verifyCode[v]
              /\ now <= otpData[v].expiresAt

CheckOtp(v) ==
  /\ verifyPc[v] = "check"
  /\ verifyPc' = [verifyPc EXCEPT ![v] = IF Matches(v) THEN "delete otp" ELSE "failed"]
  /\ UNCHANGED <<now, tableVars, cacheVars, inbox, loginVars, verifyEmail, verifyCode,
                 otpData, userId, newToken, verifiedBefore, checkVars>>

DeleteOtp(v) ==
  /\ verifyPc[v] = "delete otp"
  /\ \/ /\ otp' = [otp EXCEPT ![DeletedKey(verifyEmail[v])] = None]
        /\ \/ verifyPc' = [verifyPc EXCEPT ![v] = "find"]
           \/ VerifyFails(v)
     \/ VerifyFails(v) /\ UNCHANGED otp
  /\ UNCHANGED <<now, tableVars, token, inbox, loginVars, verifyEmail, verifyCode,
                 otpData, userId, newToken, verifiedBefore, checkVars>>

FindForVerify(v) ==
  /\ verifyPc[v] = "find"
  /\ \/ /\ RowsOf(verifyEmail[v]) # {}
        /\ userId' = [userId EXCEPT ![v] = FirstId(verifyEmail[v])]
        /\ verifyPc' = [verifyPc EXCEPT ![v] = "create"]
     \/ VerifyFails(v) /\ UNCHANGED userId
  /\ UNCHANGED <<now, tableVars, cacheVars, inbox, loginVars, verifyEmail, verifyCode,
                 otpData, newToken, verifiedBefore, checkVars>>

\* A token is its claims: two made of one user in one second are the same.
CreateToken(v) ==
  /\ verifyPc[v] = "create"
  /\ newToken' = [newToken EXCEPT ![v] =
                    [id |-> userId[v], email |-> verifyEmail[v], exp |-> now + JwtLife]]
  /\ verifyPc' = [verifyPc EXCEPT ![v] = "update"]
  /\ UNCHANGED <<now, tableVars, cacheVars, inbox, loginVars, verifyEmail, verifyCode,
                 otpData, userId, verifiedBefore, checkVars>>

UpdateUserIgnoringErrors(v) ==   \* mutant: the error of Update is dropped
  /\ verifyPc[v] = "update"
  /\ \/ verified' = [verified EXCEPT ![userId[v]] = TRUE]
     \/ UNCHANGED verified
  /\ verifyPc' = [verifyPc EXCEPT ![v] = "delete token"]
  /\ UNCHANGED <<now, rowEmail, nextId, cacheVars, inbox, loginVars, verifyEmail, verifyCode,
                 otpData, userId, newToken, verifiedBefore, checkVars>>

UpdateUser(v) ==
  /\ verifyPc[v] = "update"
  /\ \/ /\ verified' = [verified EXCEPT ![userId[v]] = TRUE]
        /\ \/ verifyPc' = [verifyPc EXCEPT ![v] = "delete token"]
           \/ VerifyFails(v)
     \/ VerifyFails(v) /\ UNCHANGED verified
  /\ UNCHANGED <<now, rowEmail, nextId, cacheVars, inbox, loginVars, verifyEmail, verifyCode,
                 otpData, userId, newToken, verifiedBefore, checkVars>>

DeleteToken(v) ==
  /\ verifyPc[v] = "delete token"
  /\ \/ /\ token' = [token EXCEPT ![verifyEmail[v]] = None]
        /\ \/ verifyPc' = [verifyPc EXCEPT ![v] = "save"]
           \/ VerifyFails(v)
     \/ VerifyFails(v) /\ UNCHANGED token
  /\ UNCHANGED <<now, tableVars, otp, inbox, loginVars, verifyEmail, verifyCode,
                 otpData, userId, newToken, verifiedBefore, checkVars>>

SavedForOtpLife(v) == Entry(newToken[v], now + OtpLife)   \* mutant: the wrong expiry
Saved(v) == Entry(newToken[v], now + TokenLife)

SaveToken(v) ==
  /\ verifyPc[v] = "save"
  /\ \/ /\ token' = [token EXCEPT ![verifyEmail[v]] = Saved(v)]
        /\ \/ verifyPc' = [verifyPc EXCEPT ![v] = "ok"]
           \/ VerifyFails(v)
     \/ VerifyFails(v) /\ UNCHANGED token
  /\ UNCHANGED <<now, tableVars, otp, inbox, loginVars, verifyEmail, verifyCode,
                 otpData, userId, newToken, verifiedBefore, checkVars>>

-----------------------------------------------------------------------------
(* VerifyToken                                                             *)

Issued == {newToken[v] : v \in {w \in Verifies : verifyPc[w] = "ok"}}

\* A token some VerifyOTP has returned, as it is or with "Bearer " before it.
VerifyToken(k) ==
  /\ checkPc[k] = "idle"
  /\ \E jwt \in Issued, bearer \in BOOLEAN :
       checkToken' = [checkToken EXCEPT ![k] = [jwt |-> jwt, bearer |-> bearer]]
  /\ checkPc' = [checkPc EXCEPT ![k] = "check"]
  /\ issuedBefore' = [issuedBefore EXCEPT ![k] = {v \in Verifies : Returned(v)}]
  /\ UNCHANGED <<now, tableVars, cacheVars, inbox, loginVars, verifyVars>>

\* Jwt.VerifyToken: takes the prefix away, checks signature and expiry.
CheckJwt(k) ==
  /\ checkPc[k] = "check"
  /\ checkPc' = [checkPc EXCEPT ![k] =
                   IF now <= checkToken[k].jwt.exp THEN "get" ELSE "rejected"]
  /\ UNCHANGED <<now, tableVars, cacheVars, inbox, loginVars, verifyVars, checkToken,
                 issuedBefore>>

IsAnyToken(k, entry) == TRUE       \* mutant: any saved token will do
\* Compared with and without the prefix: a token that has it never passes.
IsStored(k, entry) == entry.value = checkToken[k].jwt /\ ~checkToken[k].bearer

CompareToken(k) ==
  /\ checkPc[k] = "get"
  /\ \/ /\ token[checkToken[k].jwt.email] # None
        /\ checkPc' = [checkPc EXCEPT ![k] =
                         IF IsStored(k, token[checkToken[k].jwt.email])
                         THEN "accepted" ELSE "rejected"]
     \/ checkPc' = [checkPc EXCEPT ![k] = "rejected"]
  /\ UNCHANGED <<now, tableVars, cacheVars, inbox, loginVars, verifyVars, checkToken,
                 issuedBefore>>

-----------------------------------------------------------------------------
(* Time                                                                    *)

Due(entry) == entry # None /\ entry.ttl <= now

\* Redis drops an entry in the second its time to live ends.
ExpireOtp(k) ==
  /\ Due(otp[k])
  /\ otp' = [otp EXCEPT ![k] = None]
  /\ UNCHANGED <<now, tableVars, token, inbox, loginVars, verifyVars, checkVars>>

ExpireToken(e) ==
  /\ Due(token[e])
  /\ token' = [token EXCEPT ![e] = None]
  /\ UNCHANGED <<now, tableVars, otp, inbox, loginVars, verifyVars, checkVars>>

Tick ==
  /\ now < MaxTime
  /\ \A k \in Keys : ~Due(otp[k])
  /\ \A e \in Emails : ~Due(token[e])
  /\ now' = now + 1
  /\ UNCHANGED <<tableVars, cacheVars, inbox, loginVars, verifyVars, checkVars>>

LoginStep(l) ==
  \/ Login(l) \/ FindForLogin(l) \/ InsertUser(l) \/ CommitUser(l)
  \/ GenerateOTP(l) \/ StoreOtp(l) \/ SendOtp(l)
VerifyStep(v) ==
  \/ VerifyOTP(v) \/ GetOtp(v) \/ CheckOtp(v) \/ DeleteOtp(v) \/ FindForVerify(v)
  \/ CreateToken(v) \/ UpdateUser(v) \/ DeleteToken(v) \/ SaveToken(v)
CheckStep(k) == VerifyToken(k) \/ CheckJwt(k) \/ CompareToken(k)

Next ==
  \/ \E l \in Logins : LoginStep(l)
  \/ \E v \in Verifies : VerifyStep(v)
  \/ \E k \in Checks : CheckStep(k)
  \/ \E k \in Keys : ExpireOtp(k)
  \/ \E e \in Emails : ExpireToken(e)
  \/ Tick

Spec == Init /\ [][Next]_vars

-----------------------------------------------------------------------------
(* Properties                                                              *)

\* Every variable has its type.
TypeOK ==
  /\ now \in Nat
  /\ rowEmail \in [Ids -> Emails \cup {None}]
  /\ verified \in [Ids -> BOOLEAN]
  /\ nextId \in Nat \ {0}
  /\ otp \in [Keys -> [value : Otps, ttl : Nat] \cup {None}]
  /\ token \in [Emails -> [value : Jwts, ttl : Nat] \cup {None}]
  /\ inbox \subseteq [email : Emails, otp : Otps]
  /\ loginPc \in [Logins -> {"idle", "find", "insert", "commit", "generate",
                             "store", "mail", "ok", "failed"}]
  /\ loginEmail \in [Logins -> Emails \cup {None}]
  /\ loginId \in [Logins -> Ids \cup {None}]
  /\ loginOtp \in [Logins -> Otps \cup {None}]
  /\ verifyPc \in [Verifies -> {"idle", "get", "check", "delete otp", "find", "create",
                                "update", "delete token", "save", "ok", "failed"}]
  /\ verifyEmail \in [Verifies -> Emails \cup {None}]
  /\ verifyCode \in [Verifies -> Codes \cup {None}]
  /\ otpData \in [Verifies -> Otps \cup {None}]
  /\ userId \in [Verifies -> Ids \cup {None}]
  /\ newToken \in [Verifies -> Jwts \cup {None}]
  /\ verifiedBefore \in [Verifies -> SUBSET Verifies]
  /\ checkPc \in [Checks -> {"idle", "check", "get", "accepted", "rejected"}]
  /\ checkToken \in [Checks -> [jwt : Jwts, bearer : BOOLEAN] \cup {None}]
  /\ issuedBefore \in [Checks -> SUBSET Verifies]

\* The token saved for an address names a row with that address, and the row is
\* marked verified: whichever step of VerifyOTP failed, and whoever ran beside it.
StoredTokenNamesVerifiedUser ==
  \A e \in Emails : token[e] # None =>
    LET jwt == token[e].value IN
      jwt.email = e /\ rowEmail[jwt.id] = e /\ verified[jwt.id]

\* A token was saved for an address only because a code that a Login of that
\* address had stored was submitted for it.
TokenWasEarned ==
  \A e \in Emails : token[e] # None =>
    \E v \in Verifies :
      /\ newToken[v] = token[e].value
      /\ verifyEmail[v] = e
      /\ otpData[v].code = verifyCode[v]
      /\ loginEmail[otpData[v].by] = e

\* All tokens of one address carry the same user id, however many logins of a
\* new address race, if the table's index on email is unique.
IdentityIsStable ==
  UniqueEmail =>
    \A v, w \in Verifies :
      newToken[v] # None /\ newToken[w] # None /\ newToken[v].email = newToken[w].email
        => newToken[v].id = newToken[w].id

\* The token that VerifyOTP returned is the one on record for as long as it is
\* valid, unless a VerifyOTP of the same address ran beside it or later.
ReturnedTokenIsOnRecord ==
  \A v \in Verifies :
    /\ verifyPc[v] = "ok"
    /\ now <= newToken[v].exp
    /\ \A w \in Verifies \ {v} :
         verifyEmail[w] = verifyEmail[v] => w \in verifiedBefore[v]
    => /\ token[verifyEmail[v]] # None
       /\ token[verifyEmail[v]].value = newToken[v]

\* Logging in again revokes: a token is not accepted once a VerifyOTP that
\* began after the token was issued has returned another one.
NewTokenRevokesOld ==
  \A k \in Checks : checkPc[k] = "accepted" =>
    \A w \in issuedBefore[k] :
      /\ verifyPc[w] = "ok"
      /\ newToken[w].email = checkToken[k].jwt.email
      /\ \A v \in Verifies : newToken[v] = checkToken[k].jwt => v \in verifiedBefore[w]
      => newToken[w] = checkToken[k].jwt

(* What makes these inductive.                                             *)

\* A running Login has an address; between INSERT and COMMIT it has an id that
\* no row and no other Login has; the OTP it stores and mails is its own.
LoginShape ==
  \A l \in Logins :
    /\ loginPc[l] # "idle" => loginEmail[l] \in Emails
    /\ loginPc[l] = "commit" =>
         loginId[l] \in Ids /\ loginId[l] < nextId /\ rowEmail[loginId[l]] = None
    /\ loginPc[l] \in {"store", "mail"} => loginOtp[l] \in Otps /\ loginOtp[l].by = l

IdsApart ==
  \A l, m \in Logins :
    l # m /\ loginPc[l] = "commit" /\ loginPc[m] = "commit" => loginId[l] # loginId[m]

RowsAllocated == \A i \in Ids : rowEmail[i] # None => i < nextId

RowsUnique ==
  UniqueEmail =>
    \A i, j \in Ids : rowEmail[i] # None /\ rowEmail[i] = rowEmail[j] => i = j

\* The OTP o was made by a Login of the address e.
MadeFor(o, e) == loginPc[o.by] # "idle" /\ loginEmail[o.by] = e

OtpsMadeForKey ==
  \A e \in Emails : otp[OtpKey(e)] # None => MadeFor(otp[OtpKey(e)].value, e)

AfterFind   == {"create", "update", "delete token", "save", "ok"}
AfterCreate == {"update", "delete token", "save", "ok"}

\* What VerifyOTP knows at each of its steps.
VerifyShape(v) ==
  /\ verifyPc[v] # "idle" => verifyEmail[v] \in Emails /\ verifyCode[v] \in Codes
  /\ verifyPc[v] \in {"check", "delete otp", "find"} \cup AfterFind =>
       otpData[v] \in Otps /\ MadeFor(otpData[v], verifyEmail[v])
  /\ verifyPc[v] \in {"delete otp", "find"} \cup AfterFind => otpData[v].code = verifyCode[v]
  /\ verifyPc[v] \in AfterFind => userId[v] \in Ids /\ rowEmail[userId[v]] = verifyEmail[v]
  /\ verifyPc[v] \in {"idle", "get", "check", "delete otp", "find", "create"} =>
       newToken[v] = None
  /\ verifyPc[v] \in AfterCreate =>
       /\ newToken[v] \in Jwts
       /\ newToken[v].id = userId[v] /\ newToken[v].email = verifyEmail[v]
  /\ verifyPc[v] \in {"delete token", "save", "ok"} => verified[userId[v]]

\* A token that was made names a row of its address.
TokensNameRows ==
  \A v \in Verifies : newToken[v] # None =>
    newToken[v].email \in Emails /\ rowEmail[newToken[v].id] = newToken[v].email

\* A saved token was saved by a VerifyOTP that has returned.
SavedByReturned ==
  \A e \in Emails : token[e] # None =>
    \E v \in Verifies :
      /\ Returned(v)
      /\ newToken[v] = token[e].value
      /\ verifyEmail[v] = e
      /\ otpData[v] \in Otps /\ otpData[v].code = verifyCode[v] /\ MadeFor(otpData[v], e)

\* The inductive invariant: with what the processes know at each step, the
\* properties above follow for any number of them.
IInv == /\ TypeOK /\ LoginShape /\ IdsApart /\ RowsAllocated /\ RowsUnique
        /\ OtpsMadeForKey /\ (\A v \in Verifies : VerifyShape(v))
        /\ TokensNameRows /\ SavedByReturned /\ StoredTokenNamesVerifiedUser

(* What makes the two properties about returned tokens inductive.          *)

\* What a process has seen returned when it began had returned; a VerifyOTP
\* that has not begun has no address, a VerifyToken that has begun has a token.
SeenShape ==
  /\ \A v \in Verifies : verifiedBefore[v] \subseteq {w \in Verifies : Returned(w)}
  /\ \A k \in Checks : issuedBefore[k] \subseteq {w \in Verifies : Returned(w)}
  /\ \A v \in Verifies : verifyPc[v] = "idle" => verifyEmail[v] = None
  /\ \A k \in Checks : checkPc[k] # "idle" => checkToken[k] \in [jwt : Jwts, bearer : BOOLEAN]

\* No token is valid for longer than JwtLife from now.
ClaimsExpire ==
  \A v \in Verifies : verifyPc[v] \in AfterCreate => newToken[v].exp <= now + JwtLife

\* Every other VerifyOTP of the address of v had returned when v began.
RanAlone(v) ==
  \A w \in Verifies \ {v} : verifyEmail[w] = verifyEmail[v] => w \in verifiedBefore[v]

\* The record of a token outlives the token.
RecordOutlivesToken ==
  \A v \in Verifies :
    verifyPc[v] = "ok" /\ RanAlone(v) /\ now <= newToken[v].exp =>
      /\ token[verifyEmail[v]] # None
      /\ token[verifyEmail[v]].value = newToken[v]
      /\ newToken[v].exp < token[verifyEmail[v]].ttl

\* What is on record for an address was saved by a VerifyOTP that had not yet
\* returned when w, which has returned a token of the address, began.
SavedSince(w, jwt) ==
  \E v \in Verifies : Returned(v) /\ newToken[v] = jwt /\ v \notin verifiedBefore[w]
RecordIsRecent ==
  \A e \in Emails, w \in Verifies :
    token[e] # None /\ verifyPc[w] = "ok" /\ verifyEmail[w] = e => SavedSince(w, token[e].value)

\* The inductive invariant of the properties about returned tokens.
SessionInv == /\ IInv /\ SeenShape /\ ClaimsExpire /\ RecordOutlivesToken
              /\ RecordIsRecent /\ NewTokenRevokesOld

\* The comment in VerifyOTP, "Delete OTP from Redis after verification": the
\* code that a successful VerifyOTP has used is not there any more.
OtpDeletedAfterVerification ==
  \A v \in Verifies : verifyPc[v] = "ok" =>
    LET entry == otp[OtpKey(verifyEmail[v])] IN entry = None \/ entry.value # otpData[v]

=============================================================================
