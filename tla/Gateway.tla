------------------------------ MODULE Gateway ------------------------------
(***************************************************************************)
(* The gateway in front of the three services (api-gateway/main.go, its    *)
(* middleware, its helpers and the loop of its websocket handler).  Every  *)
(* HTTP request and every websocket is a handler.  Protected routes first  *)
(* ask the auth service about the token; then the route's handler makes    *)
(* one call, or one after another, and answers.  Handlers run side by side.*)
(*                                                                         *)
(* Messages cross the network in the encoding of the generated code:       *)
(* written by the gateway's copy (GatewayPb), read by the services' copy   *)
(* (ServicePb), and the answer the other way round.  A service executes a  *)
(* call in one step, which AuthService, ChatService, History and UserTable *)
(* take apart; it may take effect and still be answered by an error, and   *)
(* it may fail without an effect: the service is down or cannot be reached.*)
(***************************************************************************)
EXTENDS ProtobufInt, Tokens, Sequences, FiniteSets

CONSTANTS
  Handlers,    \* HTTP requests and websocket connections; a request that a
               \* client repeats is another handler
  Users,       \* ids of the rows of the users table
  Requests,    \* by handler: what clients ask for, a route and its path,
               \* query and body
  Frames,      \* what clients write to a websocket
  Codes,       \* one-time passwords
  Profile,     \* by user: first and last name at first, Empty for NULL
  Contains,    \* pairs of a pattern and a name that it is found in, whatever the case
  Otp,         \* by user: the code that is in Redis at first, or None
  Bad,         \* a body or a path that cannot be read
  MaxFrames,   \* bound: frames per websocket
  MaxTime      \* bound: how far the clock runs

Mail(u) == [mail |-> u]

ASSUME GatewayAssumption ==
  /\ Users \subseteq Nat \ {0}
  /\ JwtLife \in Nat \ {0}
  /\ MaxFrames \in Nat /\ MaxTime \in Nat \ {0}
  /\ None \notin Users
  /\ None \notin {CreateToken(u, Mail(u), t) : u \in Users, t \in 0 .. MaxTime}
  /\ Otp \in [Users -> Codes \cup {None}] /\ DOMAIN Profile = Users
  /\ IsFiniteSet(Users)

IsSequence(q) == q \in Seq({q[i] : i \in DOMAIN q})

\* A JSON array is read as a slice.
ASSUME JsonAssumption ==
  LET sent == {q.body : q \in {x \in UNION {Requests[p] : p \in Handlers} :
                                 x.route = "send" /\ x.body # Bad}} IN
    \A f \in Frames \cup sent :
      f.receiver_id.kind = "list" => IsSequence(f.receiver_id.value)

\* The members of a set in some order, and those of a set of numbers in theirs.
Orders(S) == {q \in [1 .. Cardinality(S) -> S] : \A x \in S : \E i \in DOMAIN q : q[i] = x}
Ascending(I) == {q \in Orders(I) : \A i, j \in DOMAIN q : i < j => q[i] < q[j]}

Gw == INSTANCE GatewayPb
Svc == INSTANCE ServicePb

VARIABLES
  now,
  handler,             \* per handler: its locals, its call and its answer
  otp, saved, issued,  \* auth service: codes, the token on record, all tokens
  profile, isOnline,   \* users table: first and last name, presence
  handed, messages,    \* chat service: copies handed over, by handler, and rows
  renames,             \* history: the updates that took effect
  knownBefore          \* history: what was revoked, and what acknowledged, when
                       \* a handler began

authVars == <<otp, saved, issued>>
userVars == <<profile, isOnline, renames>>
chatVars == <<handed, messages>>
vars == <<now, handler, authVars, userVars, chatVars, knownBefore>>

NoCall == [at |-> "nowhere"]
NoAnswer == [status |-> 0, body |-> Empty]
NoRequest == [route |-> "none", body |-> Empty]
Idle == [pc |-> "idle", header |-> Empty, request |-> NoRequest, ids |-> <<>>, next |-> 1,
         frame |-> 0, content |-> Empty, named |-> <<>>, stream |-> FALSE, pushed |-> <<>>,
         rpc |-> NoCall, answer |-> NoAnswer]

\* The users have logged in, a second ago and by codes that may still be there, and
\* may have set their names.
Init ==
  /\ now = 1
  /\ handler = [p \in Handlers |-> Idle]
  /\ otp = Otp
  /\ saved = [u \in Users |-> CreateToken(u, Mail(u), 0)]
  /\ issued = {saved[u] : u \in Users}
  /\ profile = Profile
  /\ isOnline = [u \in Users |-> TRUE]
  /\ handed = [p \in Handlers |-> <<>>]
  /\ messages = <<>>
  /\ renames = {}
  /\ knownBefore = [p \in Handlers |-> [revoked |-> {}, acknowledged |-> {}]]

Become(p, r) == handler' = [handler EXCEPT ![p] = r]
At(p, label) == handler[p].pc = label
Route(p) == handler[p].request.route
Body(p) == handler[p].request.body

\* The answer of a handler, with which it ends.
Answer(r, status, body) ==
  [r EXCEPT !.pc = "answered", !.rpc = NoCall, !.answer = [status |-> status, body |-> body]]

\* A stub is called: the handler waits, without a deadline, for the answer.
Call(r, label, stub, msg, md) ==
  [r EXCEPT !.pc = label,
            !.rpc = [at |-> "service", path |-> stub.path, md |-> md,
                     bytes |-> Gw!Encode(stub.in, msg)]]

Returned(p) == handler[p].rpc.at = "gateway"
Succeeded(p) == handler[p].rpc.ok

-----------------------------------------------------------------------------
(* Routes and middleware                                                   *)

Protected == {"ws", "users", "update", "send", "list", "by sender"}

Acknowledged(p) == At(p, "answered") /\ Route(p) = "send" /\ handler[p].answer.status = 200

\* A client puts a token it was given, or anything else, into the header.  A token
\* of this second counts as revoked by the next one only, which may be the same
\* again.
Receive(p) ==
  /\ At(p, "idle")
  /\ \E q \in Requests[p],
        h \in {Empty, Malformed} \cup [jwt : issued, bearer : BOOLEAN] :
       LET r == [Idle EXCEPT !.request = q, !.header = h] IN
         Become(p, IF q.route \notin Protected THEN [r EXCEPT !.pc = "handle"]
                   ELSE IF h = Empty THEN Answer(r, 401, Empty)
                   ELSE Call(r, "authenticate", Gw!VerifyToken, [token |-> h], <<>>))
  /\ knownBefore' = [knownBefore EXCEPT ![p] =
       [revoked |-> {t \in issued : saved[t.id] # t /\ t.exp < now + JwtLife},
        acknowledged |-> {q \in Handlers : Acknowledged(q)}]]
  /\ UNCHANGED <<now, authVars, userVars, chatVars>>

Authentication(p) ==
  /\ At(p, "authenticate") /\ Returned(p)
  /\ Become(p, IF Succeeded(p) THEN [handler[p] EXCEPT !.pc = "handle", !.rpc = NoCall]
                               ELSE Answer(handler[p], 401, Empty))
  /\ UNCHANGED <<now, authVars, userVars, chatVars, knownBefore>>

-----------------------------------------------------------------------------
(* Handlers of one call                                                    *)

Handles(p, route) == At(p, "handle") /\ Route(p) = route
Calls(p, stub, msg, md) ==
  /\ Become(p, IF Body(p) = Bad THEN Answer(handler[p], 400, Empty)
                                ELSE Call(handler[p], "call", stub, msg, md))
  /\ UNCHANGED <<now, authVars, userVars, chatVars, knownBefore>>

loginHandler(p) ==
  Handles(p, "login") /\ Calls(p, Gw!Login, [email |-> Body(p).email], <<>>)

verifyOTPHandler(p) ==
  /\ Handles(p, "verify otp")
  /\ Calls(p, Gw!VerifyOTP, [email |-> Body(p).email, code |-> Body(p).code], <<>>)

\* The token is in the body.
verifyTokenHandler(p) ==
  Handles(p, "verify token") /\ Calls(p, Gw!VerifyToken, [token |-> handler[p].header], <<>>)

getAllUsersHandler(p) ==
  Handles(p, "users") /\ Calls(p, Gw!GetAllUsers, [name |-> Body(p).name], <<>>)

\* The id of the body is replaced by that of the path.
updateUserHandler(p) ==
  /\ Handles(p, "update")
  /\ Calls(p, Gw!UpdateUser,
           [id |-> ToInt32(Body(p).id), first_name |-> Body(p).first,
            last_name |-> Body(p).last], <<handler[p].header>>)

listMessageHandler(p) ==
  Handles(p, "list") /\ Calls(p, Gw!ListMessage, <<>>, <<handler[p].header>>)

listMessagesBySenderHandler(p) ==
  /\ Handles(p, "by sender")
  /\ Calls(p, Gw!ListMessageBySender, [sender_id |-> ToInt32(Body(p).id)],
           <<handler[p].header>>)

Stub(route) == CASE route = "login" -> Gw!Login
                 [] route = "verify otp" -> Gw!VerifyOTP
                 [] route = "verify token" -> Gw!VerifyToken
                 [] route = "users" -> Gw!GetAllUsers
                 [] route = "update" -> Gw!UpdateUser
                 [] route = "list" -> Gw!ListMessage
                 [] route = "by sender" -> Gw!ListMessageBySender

\* The answer is copied field by field; whatever the error, the status is 500.
Respond(p) ==
  /\ At(p, "call") /\ Returned(p) /\ Route(p) \notin {"send", "ws"}
  /\ Become(p, IF Succeeded(p)
               THEN Answer(handler[p], 200, Gw!Decode(Stub(Route(p)).out, handler[p].rpc.bytes))
               ELSE Answer(handler[p], 500, Empty))
  /\ UNCHANGED <<now, authVars, userVars, chatVars, knownBefore>>

-----------------------------------------------------------------------------
(* Sending a message: one call of SendMessage per receiver                 *)

Least == -Half
Greatest == Half - 1
FloatWraps(v) == {ToInt32(v)}         \* mutant: the number wraps, as an int64 would
\* int32(v) of a float64 out of range is, by processor, the least int32 or the
\* nearest one.  A number stands for its whole part: the rest is cut off.
FloatToInt32(v) == IF v \in Int32 THEN {v}
                   ELSE IF v > Greatest THEN {Least, Greatest} ELSE {Least}

\* receiver_id is a number or a list, of which anything but numbers is skipped;
\* what it is otherwise leaves no receiver.
Entries(json) == CASE json.kind = "number" -> <<json.value>>
                   [] json.kind = "list" -> json.value
                   [] OTHER -> <<>>
Numeric(json) == {i \in DOMAIN Entries(json) : Entries(json)[i] # Bad}
ReceiverIds(json) ==
  UNION {{list \in [1 .. Cardinality(Numeric(json)) -> Int32] :
            \A i \in DOMAIN list : list[i] \in FloatToInt32(Entries(json)[q[i]])} :
         q \in Ascending(Numeric(json))}

\* The request of one call: one receiver, no sender.
ForwardToGrpc(r) ==
  Call(r, "forward", Gw!SendMessage,
       [sender_id |-> 0, receiver_id |-> <<ToInt32(r.ids[r.next])>>, content |-> r.content],
       <<r.header>>)

Loop(r, list, content) ==
  ForwardToGrpc([r EXCEPT !.ids = list, !.next = 1, !.content = content])

sendMessageHandler(p) ==
  /\ Handles(p, "send")
  /\ IF Body(p) = Bad THEN Become(p, Answer(handler[p], 400, Empty))
     ELSE \E list \in ReceiverIds(Body(p).receiver_id) :
            Become(p, IF list = <<>> THEN Answer(handler[p], 400, Empty)
                                     ELSE Loop(handler[p], list, Body(p).content))
  /\ UNCHANGED <<now, authVars, userVars, chatVars, knownBefore>>

ForwardRestOrStop(p) == Become(p,   \* mutant: continue instead of return
  IF handler[p].next < Len(handler[p].ids)
  THEN ForwardToGrpc([handler[p] EXCEPT !.next = @ + 1])
  ELSE Answer(handler[p], 200, Empty))

ForwardAgain(p) == Become(p,        \* mutant: the receiver is tried until it works
  IF ~Succeeded(p) THEN ForwardToGrpc(handler[p])
  ELSE IF handler[p].next < Len(handler[p].ids)
  THEN ForwardToGrpc([handler[p] EXCEPT !.next = @ + 1])
  ELSE Answer(handler[p], 200, Empty))

\* The first failure ends the loop.
ForwardNextOrStop(p) == Become(p,
  IF ~Succeeded(p) THEN Answer(handler[p], 400, Empty)
  ELSE IF handler[p].next < Len(handler[p].ids)
  THEN ForwardToGrpc([handler[p] EXCEPT !.next = @ + 1])
  ELSE Answer(handler[p], 200, Empty))

Forwarded(p) ==
  /\ At(p, "forward") /\ Returned(p) /\ Route(p) = "send"
  /\ ForwardNextOrStop(p)
  /\ UNCHANGED <<now, authVars, userVars, chatVars, knownBefore>>

-----------------------------------------------------------------------------
(* The websocket                                                           *)

\* The token is read by the gateway itself, and the user marked online.  That
\* update may fail, with or without an effect, and ends the handler.
WsHandler(p) ==
  /\ Handles(p, "ws")
  /\ LET u == GatewayGetIdFromJWT1(handler[p].header, now)
         Online == u # None /\ isOnline' = [isOnline EXCEPT ![u] = TRUE] IN
       \/ Online /\ Become(p, [handler[p] EXCEPT !.pc = "open"])
       \/ (Online \/ UNCHANGED isOnline) /\ Become(p, Answer(handler[p], 0, Empty))
  /\ UNCHANGED <<now, authVars, profile, renames, chatVars, knownBefore>>

\* A frame without a receiver is answered by an error; the others go out with
\* the token that opened the connection.
ReadFrame(p) ==
  /\ At(p, "open")
  /\ handler[p].frame < MaxFrames
  /\ \E f \in Frames : \E list \in ReceiverIds(f.receiver_id) :
       LET r == [handler[p] EXCEPT !.frame = @ + 1, !.named = <<>>] IN
         Become(p, IF list = <<>> THEN [r EXCEPT !.ids = <<>>] ELSE Loop(r, list, f.content))
  /\ UNCHANGED <<now, authVars, userVars, chatVars, knownBefore>>

AfterFrame(r) == IF r.next < Len(r.ids) THEN ForwardToGrpc([r EXCEPT !.next = @ + 1])
                                        ELSE [r EXCEPT !.pc = "open", !.rpc = NoCall]

FrameAbandoned(p) == Become(p,      \* mutant: break instead of continue
  IF Succeeded(p) THEN AfterFrame(handler[p])
  ELSE [handler[p] EXCEPT !.pc = "open", !.rpc = NoCall,
                          !.named = Append(@, handler[p].ids[handler[p].next])])

\* A failure is answered by an error that names the receiver; the loop goes on.
FrameContinued(p) == Become(p,
  AfterFrame(IF Succeeded(p) THEN handler[p]
             ELSE [handler[p] EXCEPT !.named = Append(@, handler[p].ids[handler[p].next])]))

FrameForwarded(p) ==
  /\ At(p, "forward") /\ Returned(p) /\ Route(p) = "ws"
  /\ FrameContinued(p)
  /\ UNCHANGED <<now, authVars, userVars, chatVars, knownBefore>>

CloseSocket(p) ==
  /\ At(p, "open")
  /\ Become(p, Answer([handler[p] EXCEPT !.stream = FALSE], 0, Empty))
  /\ isOnline' \in {isOnline, [isOnline EXCEPT ![handler[p].header.jwt.id] = FALSE]}
  /\ UNCHANGED <<now, authVars, profile, renames, chatVars, knownBefore>>

Open(p) == Route(p) = "ws" /\ (At(p, "open") \/ At(p, "forward"))

\* The goroutine opens the stream, with the token in the metadata and again in
\* the request, while the handler may be at a frame already.  It ends if it cannot,
\* and the handler goes on without it.
OpenStream(p) ==
  /\ Open(p) /\ ~handler[p].stream
  /\ Svc!Leads(Gw!StreamMessages.path, Svc!ChatServiceDesc, Svc!StreamMessagesHandler)
  /\ ChatParsingJWT(<<handler[p].header>>, now) # None
  /\ Become(p, [handler[p] EXCEPT !.stream = TRUE])
  /\ UNCHANGED <<now, authVars, userVars, chatVars, knownBefore>>

Handed == UNION {{q} \X DOMAIN handed[q] : q \in Handlers}

\* A copy for the user arrives on the stream and is written to the socket as it
\* was decoded.
StreamDelivers(p) ==
  /\ Open(p) /\ handler[p].stream
  /\ \E k \in Handed \ {x[1] : x \in {handler[p].pushed[i] : i \in DOMAIN handler[p].pushed}} :
       LET copy == handed[k[1]][k[2]]
           bytes == Svc!Encode(Svc!StreamMessagesHandler.out,
                               [sender_id |-> ToInt32(copy.sender), content |-> copy.content,
                                timestamp |-> Empty]) IN
         /\ copy.receiver = handler[p].header.jwt.id
         /\ Become(p, [handler[p] EXCEPT !.pushed =
                         Append(@, <<k, Gw!Decode(Gw!StreamMessages.out, bytes)>>)])
  /\ UNCHANGED <<now, authVars, userVars, chatVars, knownBefore>>

-----------------------------------------------------------------------------
(* The services                                                            *)

Reached(p, desc, h) ==
  handler[p].rpc.at = "service" /\ Svc!Leads(handler[p].rpc.path, desc, h)
Request(p, h) == Svc!Decode(h.in, handler[p].rpc.bytes)
Metadata(p) == handler[p].rpc.md

Reply(p, h, msg) ==
  Become(p, [handler[p] EXCEPT !.rpc = [at |-> "gateway", ok |-> TRUE,
                                        bytes |-> Svc!Encode(h.out, msg)]])
Refuse(p) == Become(p, [handler[p] EXCEPT !.rpc = [at |-> "gateway", ok |-> FALSE]])

\* No connection, no handler for the path, a service that dies, an early error:
\* the call fails and has changed nothing.
CallFails(p) ==
  /\ handler[p].rpc.at = "service"
  /\ Refuse(p)
  /\ UNCHANGED <<now, authVars, userVars, chatVars, knownBefore>>

AuthLogin(p) ==
  /\ Reached(p, Svc!AuthServiceDesc, Svc!LoginHandler)
  /\ \E u \in Users, code \in Codes :
       /\ Mail(u) = Request(p, Svc!LoginHandler).email
       /\ otp' = [otp EXCEPT ![u] = code]
  /\ \/ Reply(p, Svc!LoginHandler, [message |-> "sent", user |-> <<>>, token |-> Empty])
     \/ Refuse(p)
  /\ UNCHANGED <<now, saved, issued, userVars, chatVars, knownBefore>>

\* A verification that fails late has revoked the old token all the same.
AuthVerifyOTP(p) ==
  /\ Reached(p, Svc!AuthServiceDesc, Svc!VerifyOTPHandler)
  /\ \E u \in Users :
       LET req == Request(p, Svc!VerifyOTPHandler)
           jwt == CreateToken(u, Mail(u), now) IN
         /\ req.email = Mail(u)
         /\ req.code = otp[u]
         /\ \/ /\ saved' = [saved EXCEPT ![u] = jwt]
               /\ issued' = issued \cup {jwt}
               /\ Reply(p, Svc!VerifyOTPHandler,
                        [message |-> "verified", user |-> <<>>, token |-> jwt])
            \/ /\ saved' \in {[saved EXCEPT ![u] = t] : t \in {jwt, None}}
               /\ issued' = issued
               /\ Refuse(p)
  /\ UNCHANGED <<now, otp, userVars, chatVars, knownBefore>>

IsSavedForAnyone(t) == \E u \in Users : saved[u] # None   \* mutant: any record will do
IsSaved(t) == saved[t.jwt.id] = t.jwt /\ ~t.bearer

AuthVerifyToken(p) ==
  /\ Reached(p, Svc!AuthServiceDesc, Svc!VerifyTokenHandler)
  /\ LET t == Request(p, Svc!VerifyTokenHandler).token IN
       /\ AuthAccepts(t, now)
       /\ IsSaved(t)
       /\ Reply(p, Svc!VerifyTokenHandler, [user_email |-> t.jwt.email])
  /\ UNCHANGED <<now, authVars, userVars, chatVars, knownBefore>>

Row(u) == [id |-> ToInt32(u), email |-> Mail(u), first_name |-> profile[u].first,
           last_name |-> profile[u].last, is_online |-> isOnline[u]]
\* Everybody if no name is asked for; nothing is found in a name that is NULL.
Matching(name) ==
  {u \in Users : \/ name = Empty
                 \/ \E part \in {profile[u].first, profile[u].last} \ {Empty} :
                      <<name, part>> \in Contains}

\* SELECT gives no order; nobody found is an error.

UserGetAllUsers(p) ==
  /\ Reached(p, Svc!UserServiceDesc, Svc!GetAllUsersHandler)
  /\ \E q \in Orders(Matching(Request(p, Svc!GetAllUsersHandler).name)) :
       /\ q # <<>>
       /\ Reply(p, Svc!GetAllUsersHandler, [users |-> [i \in DOMAIN q |-> Row(q[i])]])
  /\ UNCHANGED <<now, authVars, userVars, chatVars, knownBefore>>

UserUpdateUser(p) ==
  /\ Reached(p, Svc!UserServiceDesc, Svc!UpdateUserHandler)
  /\ LET req == Request(p, Svc!UpdateUserHandler)
         u == UserParsingJWT(Metadata(p), now) IN
       /\ Empty \notin {req.first_name, req.last_name}
       /\ u \in Users
       /\ req.id = ToInt32(u)
       /\ profile' = [profile EXCEPT ![u] = [first |-> req.first_name, last |-> req.last_name]]
       /\ renames' = renames \cup {[by |-> p, user |-> u, first |-> req.first_name,
                                    last |-> req.last_name, at |-> now]}
  /\ Reply(p, Svc!UpdateUserHandler, [message |-> "updated"]) \/ Refuse(p)
  /\ UNCHANGED <<now, isOnline, authVars, chatVars, knownBefore>>

\* The copies are handed over first and the rows inserted then; a receiver that
\* blocks its sender keeps the call here for ever.
ChatSendMessage(p) ==
  /\ Reached(p, Svc!ChatServiceDesc, Svc!SendMessageHandler)
  /\ LET req == Request(p, Svc!SendMessageHandler)
         u == ChatParsingJWT(Metadata(p), now)
         copies == [i \in DOMAIN req.receiver_id |->
                      [frame |-> handler[p].frame, n |-> handler[p].next, sender |-> u,
                       receiver |-> req.receiver_id[i], content |-> req.content, at |-> now]]
         rows == [i \in DOMAIN copies |-> [by |-> p, copy |-> copies[i]]] IN
       /\ u # None
       /\ copies # <<>>
       /\ handed' = [handed EXCEPT ![p] = @ \o copies]
       /\ \/ messages' = messages \o rows /\ Reply(p, Svc!SendMessageHandler, [status |-> "sent"])
          \/ messages' \in {messages, messages \o rows} /\ Refuse(p)
  /\ UNCHANGED <<now, authVars, userVars, knownBefore>>

RowsTo(u) == {i \in DOMAIN messages : messages[i].copy.receiver = u}
Senders(u) == {messages[i].copy.sender : i \in RowsTo(u)} \cap Users
\* The last row that a sender has for the user.
Latest(u, s) ==
  LET of == {i \in RowsTo(u) : messages[i].copy.sender = s}
      last == CHOOSE i \in of : \A j \in of : j <= i
  IN  [sender |-> profile[s].first, message |-> messages[last].copy.content]

ChatListMessage(p) ==
  /\ Reached(p, Svc!ChatServiceDesc, Svc!ListMessageHandler)
  /\ LET u == ChatParsingJWT(Metadata(p), now) IN
       /\ u # None
       /\ \E q \in Ascending(Senders(u)) :
            Reply(p, Svc!ListMessageHandler,
                  [messages |-> [i \in DOMAIN q |-> Latest(u, q[i])]])
  /\ UNCHANGED <<now, authVars, userVars, chatVars, knownBefore>>

\* A sender without a name, NULL in the table, is an error.
ChatListMessageBySender(p) ==
  /\ Reached(p, Svc!ChatServiceDesc, Svc!ListMessageBySenderHandler)
  /\ LET u == ChatParsingJWT(Metadata(p), now)
         s == Request(p, Svc!ListMessageBySenderHandler).sender_id IN
       /\ u # None /\ s # 0
       /\ s \in Users => profile[s].first # Empty
       /\ \E q \in Ascending({i \in RowsTo(u) : messages[i].copy.sender = s}) :
            Reply(p, Svc!ListMessageBySenderHandler,
                  [sender_name |-> IF s \in Users THEN profile[s].first ELSE Empty,
                   messages |-> [i \in DOMAIN q |-> [message |-> messages[q[i]].copy.content]]])
  /\ UNCHANGED <<now, authVars, userVars, chatVars, knownBefore>>

Tick ==
  /\ now < MaxTime
  /\ now' = now + 1
  /\ UNCHANGED <<handler, authVars, userVars, chatVars, knownBefore>>

GatewayStep(p) ==
  \/ Authentication(p) \/ loginHandler(p) \/ verifyOTPHandler(p) \/ verifyTokenHandler(p)
  \/ getAllUsersHandler(p) \/ updateUserHandler(p) \/ listMessageHandler(p)
  \/ listMessagesBySenderHandler(p) \/ Respond(p) \/ sendMessageHandler(p) \/ Forwarded(p)
  \/ WsHandler(p) \/ FrameForwarded(p)
SocketStep(p) == ReadFrame(p) \/ CloseSocket(p) \/ OpenStream(p) \/ StreamDelivers(p)
QuickCall(p) ==
  \/ AuthLogin(p) \/ AuthVerifyOTP(p) \/ AuthVerifyToken(p) \/ UserGetAllUsers(p)
  \/ UserUpdateUser(p) \/ ChatListMessage(p) \/ ChatListMessageBySender(p)

Next ==
  \/ \E p \in Handlers : \/ Receive(p) \/ GatewayStep(p) \/ SocketStep(p)
                         \/ QuickCall(p) \/ ChatSendMessage(p) \/ CallFails(p)
  \/ Tick

Spec == Init /\ [][Next]_vars

InSendMessage(p) == Reached(p, Svc!ChatServiceDesc, Svc!SendMessageHandler)

\* A handler goes on when it can, and a call is answered: by the service, or by
\* an error.  A SendMessage may be kept by its receiver for ever.
Goes(p) ==
  IF handler[p].rpc.at = "service" THEN ~InSendMessage(p) /\ (CallFails(p) \/ QuickCall(p))
  ELSE ~At(p, "idle") /\ ~At(p, "open") /\ ~At(p, "answered") /\ GatewayStep(p)
Fairness == \A p \in Handlers : WF_vars(Goes(p))
FairSpec == Spec /\ Fairness

-----------------------------------------------------------------------------
(* Properties                                                              *)

Headers == {Empty, Malformed} \cup [jwt : issued, bearer : BOOLEAN]

\* What the auth service has made so far.
Jwts == {CreateToken(u, Mail(u), t) : u \in Users, t \in 0 .. now}

HandlerType(p, r) ==
  /\ DOMAIN r = DOMAIN Idle
  /\ r.pc \in {"idle", "authenticate", "handle", "call", "forward", "open", "answered"}
  /\ r.pc # "idle" => r.request \in Requests[p]
  /\ r.header \in Headers
  /\ r.frame \in 0 .. MaxFrames
  /\ r.rpc.at \in {"nowhere", "service", "gateway"}
  /\ r.rpc.at # "nowhere" <=> r.pc \in {"authenticate", "call", "forward"}
  /\ r.answer.status \in {0, 200, 400, 401, 500}

\* Every variable has its type.
TypeOK ==
  /\ now \in 0 .. MaxTime
  /\ handler = [p \in Handlers |-> handler[p]]
  /\ \A p \in Handlers : HandlerType(p, handler[p])
  /\ issued \subseteq Jwts
  /\ saved \in [Users -> Jwts \cup {None}]
  /\ otp \in [Users -> Codes \cup {None}]
  /\ DOMAIN profile = Users
  /\ isOnline \in [Users -> BOOLEAN]
  /\ handed = [p \in Handlers |-> handed[p]]
  /\ \A p \in Handlers : IsSequence(handed[p])
  /\ knownBefore = [p \in Handlers |-> knownBefore[p]]

Stored(p, c) == \E i \in DOMAIN messages : messages[i] = [by |-> p, copy |-> c]

\* What "successfully send message" and "Failed to forward message to receiver"
\* tell about the receivers: after the one each was served once, in order; after
\* the other the first of them were, up to the one that failed or the one before,
\* and nobody behind it, so that repeating the request serves those again.
AnswerTells(p, r) ==
  LET served == [i \in DOMAIN handed[p] |-> handed[p][i].receiver] IN
    IF r.answer.status = 200
    THEN served = r.ids /\ \A i \in DOMAIN handed[p] : Stored(p, handed[p][i])
    ELSE \/ r.ids = <<>> /\ served = <<>>
         \/ served \in {SubSeq(r.ids, 1, r.next - 1), SubSeq(r.ids, 1, r.next)}
AnswerTellsWhoWasServed ==
  \A p \in Handlers : At(p, "answered") /\ Route(p) = "send" => AnswerTells(p, handler[p])

\* On a websocket: a receiver of the last frame whose message is not stored has
\* been named in an error, whatever became of those before it; no receiver in the
\* frame is served twice.
CopiesOf(p, r, i) ==
  {j \in DOMAIN handed[p] : handed[p][j].frame = r.frame /\ handed[p][j].n = i}
Settled(p, r, i) ==
  /\ \A j, k \in CopiesOf(p, r, i) : j = k
  /\ \/ \E j \in CopiesOf(p, r, i) : Stored(p, handed[p][j])
     \/ \E j \in DOMAIN r.named : r.named[j] = r.ids[i]
FailuresAreNamed ==
  \A p \in Handlers : At(p, "open") =>
    \A i \in DOMAIN handler[p].ids : Settled(p, handler[p], i)

\* Nothing is sent and nobody renamed by a token that had expired by then, or
\* that had been replaced when the request came in or the websocket was opened.
\* A websocket outlives its token's replacement, not its expiry.
ValidFor(p, at) == /\ IsToken(handler[p].header)
                   /\ at < handler[p].header.jwt.exp
                   /\ handler[p].header.jwt \notin knownBefore[p].revoked
NoEffectWithoutValidToken ==
  /\ \A p \in Handlers : \A i \in DOMAIN handed[p] : ValidFor(p, handed[p][i].at)
  /\ \A r \in renames : ValidFor(r.by, r.at)

\* A message is from the user of the token, has the content that was asked for
\* and goes to a receiver that was named, a number that is no id standing for one of
\* the extreme ids; a name is that of the user of the token and as it was asked for;
\* a socket shows who sent a message and what.
Asks(r) == IF r.request.route = "send" THEN {r.request.body} ELSE Frames
Meant(v, id) == IF v \in Int32 THEN id = v ELSE id \in {Least, Greatest}
AsAsked(r, c) ==
  /\ c.sender = r.header.jwt.id
  /\ \E f \in Asks(r) :
       /\ c.content = f.content
       /\ \E q \in Ascending(Numeric(f.receiver_id)) :
            c.n \in DOMAIN q /\ Meant(Entries(f.receiver_id)[q[c.n]], c.receiver)
RenamedAsAsked(x) ==
  /\ x.user = handler[x.by].header.jwt.id
  /\ ToInt32(Body(x.by).id) = ToInt32(x.user)
  /\ x.first = Body(x.by).first /\ x.last = Body(x.by).last
ShownAsSent(r) ==
  \A i \in DOMAIN r.pushed :
    LET k == r.pushed[i][1]
        copy == handed[k[1]][k[2]]
        msg == r.pushed[i][2] IN
      msg.sender_id = ToInt32(copy.sender) /\ msg.content = copy.content
EffectsAreTheCallers ==
  /\ \A p \in Handlers : \A i \in DOMAIN handed[p] : AsAsked(handler[p], handed[p][i])
  /\ \A x \in renames : RenamedAsAsked(x)
  /\ \A p \in Handlers : ShownAsSent(handler[p])

\* What an answer 200 says is so: a token that was given out was issued to the
\* address, the address of a token is its owner's, a listing has every message
\* that had been acknowledged to its sender before, the overview has an entry for
\* each of their senders, and the users bear names that they gave themselves.
Told(p, r, s) ==
  UNION {{handed[q][i].content : i \in
            {j \in DOMAIN handed[q] : /\ handed[q][j].receiver = r.header.jwt.id
                                      /\ handed[q][j].sender = s}} :
         q \in knownBefore[p].acknowledged}
NamesOf(u, row) ==
  \/ row.first_name = Profile[u].first /\ row.last_name = Profile[u].last
  \/ \E x \in renames : x.user = u /\ row.first_name = x.first /\ row.last_name = x.last
TrueAnswer(p, r, body) ==
  CASE r.request.route = "verify otp" ->
         body.token \in issued /\ body.token.email = r.request.body.email
    [] r.request.route = "verify token" -> body.user_email = r.header.jwt.email
    [] r.request.route = "by sender" ->
         Told(p, r, ToInt32(r.request.body.id))
           \subseteq {body.messages[i].message : i \in DOMAIN body.messages}
    [] r.request.route = "list" ->
         Cardinality({s \in Users : Told(p, r, s) # {}}) <= Len(body.messages)
    [] r.request.route = "users" ->
         \A i \in DOMAIN body.users : LET row == body.users[i] IN
           \E u \in Users : row.id = ToInt32(u) /\ row.email = Mail(u) /\ NamesOf(u, row)
    [] OTHER -> TRUE
AnswersAreTrue ==
  \A p \in Handlers : At(p, "answered") /\ handler[p].answer.status = 200 =>
    TrueAnswer(p, handler[p], handler[p].answer.body)

\* A request is answered, whichever of the services fail, unless it waits for a
\* SendMessage for ever: nothing else in the gateway blocks or repeats itself.
RequestIsAnswered ==
  \A p \in Handlers :
    (handler[p].pc \in {"authenticate", "handle"} /\ Route(p) # "ws")
      ~> (At(p, "answered") \/ [](InSendMessage(p)))

(* What makes NoEffectWithoutValidToken inductive.                         *)

\* A token that was revoked is on record never again.
RevokedForGood ==
  \A p \in Handlers : \A t \in knownBefore[p].revoked :
    t \in issued /\ saved[t.id] # t /\ t.exp < now + JwtLife

\* The header of a handler that came past the middleware, if the route has it.
Trusted(p, h) == IsToken(h) /\ h.jwt \notin knownBefore[p].revoked

\* The auth service is asked about the header, and what changes anything carries
\* the header, which the auth service has accepted.
CallShape(p, r) ==
  /\ r.rpc.at = "service" /\ r.pc = "authenticate" =>
       /\ r.rpc.path = Gw!VerifyToken.path
       /\ r.rpc.bytes = Gw!Encode(Gw!TokenRequest, [token |-> r.header])
  /\ r.rpc.at = "gateway" /\ r.pc = "authenticate" /\ r.rpc.ok => Trusted(p, r.header)
  /\ r.rpc.at = "service" /\ r.rpc.path[2] = "UpdateUser" =>
       r.pc = "call" /\ r.request.route = "update" /\ r.rpc.md = <<r.header>>
  /\ r.rpc.at = "service" /\ r.rpc.path[2] = "SendMessage" =>
       /\ r.pc = "forward" /\ r.rpc.md = <<r.header>>
       /\ r.rpc.bytes = Gw!Encode(Gw!SendMessageRequest,
            [sender_id |-> 0, receiver_id |-> <<ToInt32(r.ids[r.next])>>, content |-> r.content])
  /\ r.pc \in {"forward", "open"} => r.request.route \in Protected
  /\ r.pc \in {"handle", "call", "forward", "open"} /\ r.request.route \in Protected =>
       Trusted(p, r.header)

NothingBefore(p) == At(p, "idle") => handed[p] = <<>> /\ \A r \in renames : r.by # p

\* The inductive invariant: it follows a token from the header past the middleware
\* to the services.
GateInv == /\ TypeOK /\ RevokedForGood /\ (\A r \in renames : r.by \in Handlers)
           /\ (\A p \in Handlers : CallShape(p, handler[p]) /\ NothingBefore(p))
           /\ NoEffectWithoutValidToken

(* What makes the other four inductive.                                    *)

\* Nothing happens before the service is asked, or before the socket is open.
NothingYet(p, r) ==
  r.pc \in {"idle", "authenticate", "handle", "call"} =>
    handed[p] = <<>> /\ r.ids = <<>> /\ r.frame = 0 /\ r.pushed = <<>>

\* What a handler of one call asks: of its request and its header.
Question(r) ==
  LET b == r.request.body IN
    CASE r.request.route = "login" -> [email |-> b.email]
      [] r.request.route = "verify otp" -> [email |-> b.email, code |-> b.code]
      [] r.request.route = "verify token" -> [token |-> r.header]
      [] r.request.route = "users" -> [name |-> b.name]
      [] r.request.route = "update" ->
           [id |-> ToInt32(b.id), first_name |-> b.first, last_name |-> b.last]
      [] r.request.route = "list" -> <<>>
      [] r.request.route = "by sender" -> [sender_id |-> ToInt32(b.id)]

OneCall == {"login", "verify otp", "verify token", "users", "update", "list", "by sender"}

\* The service is asked that question, and an answer on its way is as true as one
\* that was given.
QuestionShape(p, r) ==
  /\ r.pc = "call" => r.request.route \in OneCall
  /\ r.pc = "call" /\ r.rpc.at = "service" =>
       /\ r.rpc.path = Stub(r.request.route).path
       /\ r.rpc.bytes = Gw!Encode(Stub(r.request.route).in, Question(r))
       /\ r.request.route \in {"update", "list", "by sender"} => r.rpc.md = <<r.header>>
  /\ r.pc = "call" /\ r.rpc.at = "gateway" /\ r.rpc.ok =>
       TrueAnswer(p, r, Gw!Decode(Stub(r.request.route).out, r.rpc.bytes))
  /\ r.pc = "answered" /\ r.answer.status = 200 => TrueAnswer(p, r, r.answer.body)

\* The loop is somewhere in the receivers of what was asked for.
LoopShape(r) ==
  /\ r.pc = "open" => r.request.route = "ws"
  /\ r.pc = "forward" =>
       /\ r.request.route \in {"send", "ws"}
       /\ \E f \in Asks(r) : r.ids \in ReceiverIds(f.receiver_id) /\ r.content = f.content
       /\ r.ids \in Seq(Int32) /\ r.next \in DOMAIN r.ids
       /\ r.rpc.at = "service" => r.rpc.path = Gw!SendMessage.path

Returns(r) == r.rpc.at = "gateway"
Succeeds(r) == r.rpc.at = "gateway" /\ r.rpc.ok

\* A send request: those before the present receiver have been served and stored;
\* the present one may have been, and has if the call succeeded.
SendProgress(p, r) ==
  r.request.route = "send" =>
    /\ r.pc = "forward" =>
         /\ Len(handed[p]) = r.next - 1 \/ (Returns(r) /\ Len(handed[p]) = r.next)
         /\ Succeeds(r) => Len(handed[p]) = r.next
         /\ \A i \in DOMAIN handed[p] :
              /\ handed[p][i].receiver = r.ids[i]
              /\ i < r.next \/ Succeeds(r) => Stored(p, handed[p][i])
    /\ r.pc = "answered" => AnswerTells(p, r)

\* A frame: those before the present receiver are settled, those behind it have not
\* been served.
FrameProgress(p, r) ==
  r.request.route = "ws" =>
    /\ \A i \in DOMAIN handed[p] : handed[p][i].frame \in 0 .. r.frame
    /\ r.pc = "open" => \A i \in DOMAIN r.ids : Settled(p, r, i)
    /\ r.pc = "forward" =>
         /\ IsSequence(r.named)
         /\ \A i \in DOMAIN r.ids :
              /\ i < r.next => Settled(p, r, i)
              /\ i > r.next \/ (i = r.next /\ ~Returns(r)) => CopiesOf(p, r, i) = {}
              /\ i = r.next =>
                   /\ \A j, k \in CopiesOf(p, r, i) : j = k
                   /\ Succeeds(r) => \E j \in CopiesOf(p, r, i) : Stored(p, handed[p][j])

\* What is shown was handed over.
ShownShape(r) ==
  IsSequence(r.pushed) /\ \A i \in DOMAIN r.pushed : r.pushed[i][1] \in Handed

\* What the properties say of one handler.
HandlerInv(p, r) ==
  /\ NothingYet(p, r) /\ QuestionShape(p, r) /\ LoopShape(r)
  /\ SendProgress(p, r) /\ FrameProgress(p, r)
  /\ ShownShape(r) /\ ShownAsSent(r)
  /\ \A i \in DOMAIN handed[p] : AsAsked(r, handed[p][i])
  /\ \A q \in knownBefore[p].acknowledged : q \in Handlers /\ Acknowledged(q)

\* ... and of the tables.
TablesInv ==
  /\ IsSequence(messages)
  /\ \A x \in renames : RenamedAsAsked(x)
  /\ \A u \in Users : NamesOf(u, [first_name |-> profile[u].first, last_name |-> profile[u].last])

\* The inductive invariant of all five: it follows a request from the client to the
\* services' tables, and an answer from there to the client.
RequestInv == GateInv /\ TablesInv /\ \A p \in Handlers : HandlerInv(p, handler[p])

=============================================================================
