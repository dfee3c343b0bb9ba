------------------------------- MODULE Tokens -------------------------------
(***************************************************************************)
(* The JSON web tokens: how the auth service makes and checks them         *)
(* (auth_service/infra/jwt/jwt.go), and how the others read a user id out  *)
(* of them (helper/jwt.go, of which the gateway, the chat service and the  *)
(* user service have a copy each).                                         *)
(*                                                                         *)
(* A token is a record of its claims and of the key pair it was signed     *)
(* with; what a client puts into the header "token" is Empty, something    *)
(* Malformed, or a token, as it is or after the word Bearer.  Time is in   *)
(* seconds.                                                                *)
(***************************************************************************)
EXTENDS Integers

CONSTANTS
  Empty,        \* the empty string
  Malformed,    \* a header that is no token
  None,         \* no user id: the error of a helper
  JwtLife,      \* an hour in the code
  PrivateKey,   \* the key pair that the auth service signs with
  PublicKey     \* by process: the form and the key pair of its public key

IsToken(h) == h \notin {Empty, Malformed}

\* The PEM block is there, is a PUBLIC KEY, can be parsed, and is of RSA.
UsableKey(process) == PublicKey[process].form = "RSA"

\* Claims and key are all there is to a token: two made of one user in one
\* second are the same.
CreateToken(id, email, now) ==
  [id |-> id, email |-> email, exp |-> now + JwtLife, pair |-> PrivateKey]

Signed(jwt, process) == UsableKey(process) /\ jwt.pair = PublicKey[process].pair

\* JWT.VerifyToken: the word Bearer is taken away, and the second in which the
\* token expires still counts.
AuthAccepts(h, now) ==
  IsToken(h) /\ Signed(h.jwt, "auth") /\ now <= h.jwt.exp

\* jwt.Parse of version 5: the token as it is, and no longer in that second.
ParsesForever(h, process, now) ==      \* mutant: no expiry
  IsToken(h) /\ ~h.bearer /\ Signed(h.jwt, process)
Parses(h, process, now) ==
  IsToken(h) /\ ~h.bearer /\ Signed(h.jwt, process) /\ now < h.jwt.exp

GatewayGetIdFromJWT1(h, now) == IF Parses(h, "gateway", now) THEN h.jwt.id ELSE None
ChatGetIdFromJWT1(h, now) == IF Parses(h, "chat", now) THEN h.jwt.id ELSE None
UserGetIdFromJWT1(h, now) == IF Parses(h, "user", now) THEN h.jwt.id ELSE None

\* ParsingJWT reads the header from the metadata of the call.
ChatParsingJWT(md, now) == IF md = <<>> THEN None ELSE ChatGetIdFromJWT1(md[1], now)
UserParsingJWT(md, now) == IF md = <<>> THEN None ELSE UserGetIdFromJWT1(md[1], now)

=============================================================================
