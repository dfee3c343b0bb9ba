--------------------------- MODULE Gateway_proofs ---------------------------
(* Theorems about Gateway for every value of its constants.                *)
EXTENDS Gateway, TLAPS

LEMMA Constants ==
  /\ JwtLife \in Nat \ {0} /\ MaxTime \in Nat \ {0} /\ MaxFrames \in Nat
  /\ None \notin {CreateToken(u, Mail(u), t) : u \in Users, t \in 0 .. MaxTime}
BY GatewayAssumption

-----------------------------------------------------------------------------
(* What the services decode is what the gateway has encoded.               *)

\* A message without messages in it survives the network, if its fields have
\* numbers and names of their own.
LEMMA RoundTrip ==
  ASSUME NEW F,
         \A f, g \in F : f.num = g.num => f = g,
         \A f, g \in F : f.name = g.name => f = g,
         \A f \in F : f.kind \notin {"message", "messages"},
         NEW msg, NEW f \in F
  PROVE  Svc!Decode(F, Gw!Encode(F, msg))[f.name] = msg[f.name]
<1>1. \A g \in F : /\ Gw!Numbered(F, g.num) = g /\ Gw!Named(F, g.name) = g
                   /\ Svc!Numbered(F, g.num) = g /\ Svc!Named(F, g.name) = g
  BY DEF Gw!Numbered, Gw!Named, Svc!Numbered, Svc!Named
<1>2. \A g \in F : ~Gw!Inner(F, g.name) /\ ~Svc!Inner(F, g.name)
  BY <1>1 DEF Gw!Inner, Svc!Inner
<1>3. \A k : Gw!Zero(k) = Svc!Zero(k) /\ Gw!WireType(k) = Svc!WireType(k)
  BY DEF Gw!Zero, Svc!Zero, Gw!WireType, Svc!WireType
<1> DEFINE flat == [s \in Gw!Names(F) |->
                      IF Gw!Inner(F, s)
                      THEN [i \in DOMAIN msg[s] |-> Gw!EncodeFlat(Gw!Named(F, s).of, msg[s][i])]
                      ELSE msg[s]]
           bytes == Gw!EncodeFlat(F, flat)
<1>4. f.name \in Gw!Names(F) /\ f.name \in Svc!Names(F) /\ f.num \in Gw!Numbers(F)
  BY DEF Gw!Names, Svc!Names, Gw!Numbers
<1>5. flat[f.name] = msg[f.name]
  BY <1>2, <1>4
<1> HIDE DEF flat
<1>6. /\ f.num \in DOMAIN bytes <=> msg[f.name] # Gw!Zero(f.kind)
      /\ f.num \in DOMAIN bytes =>
           bytes[f.num].type = Gw!WireType(f.kind) /\ bytes[f.num].value = msg[f.name]
  BY <1>1, <1>4, <1>5 DEF Gw!EncodeFlat
<1> HIDE DEF bytes
<1>7. Svc!DecodeFlat(F, bytes)[f.name] = msg[f.name]
  BY <1>1, <1>3, <1>4, <1>6 DEF Svc!DecodeFlat
<1>8. Svc!Decode(F, bytes)[f.name] = msg[f.name]
  BY <1>2, <1>4, <1>7 DEF Svc!Decode
<1> QED
  BY <1>8 DEF Gw!Encode, flat, bytes

LEMMA TokenDecoded ==
  ASSUME NEW h
  PROVE  Svc!Decode(Svc!TokenRequest, Gw!Encode(Gw!TokenRequest, [token |-> h])).token = h
<1> DEFINE f == Gw!Field(1, "token", "string")
<1>1. Gw!TokenRequest = {f} /\ Svc!TokenRequest = {f}
  BY DEF Gw!TokenRequest, Svc!TokenRequest, Gw!Field, Svc!Field
<1>2. f.name = "token" /\ f.kind = "string"
  BY DEF Gw!Field
<1> HIDE DEF f
<1>3. Svc!Decode({f}, Gw!Encode({f}, [token |-> h]))[f.name] = [token |-> h][f.name]
  BY <1>2, RoundTrip
<1> QED
  BY <1>1, <1>2, <1>3

LEMMA MessageDecoded ==
  ASSUME NEW x, NEW y, NEW z
  PROVE  Svc!Decode(Svc!SendMessageRequest,
           Gw!Encode(Gw!SendMessageRequest,
                     [sender_id |-> x, receiver_id |-> y, content |-> z])).receiver_id = y
<1> DEFINE f == Gw!Field(1, "sender_id", "int32")
           g == Gw!Field(2, "receiver_id", "repeated int32")
           h == Gw!Field(4, "content", "string")
           F == {f, g, h}
           msg == [sender_id |-> x, receiver_id |-> y, content |-> z]
<1>1. Gw!SendMessageRequest = F /\ Svc!SendMessageRequest = F
  BY DEF Gw!SendMessageRequest, Svc!SendMessageRequest, Gw!Field, Svc!Field
<1>2. /\ f.num = 1 /\ f.name = "sender_id" /\ f.kind = "int32"
      /\ g.num = 2 /\ g.name = "receiver_id" /\ g.kind = "repeated int32"
      /\ h.num = 4 /\ h.name = "content" /\ h.kind = "string"
      /\ f.num # g.num /\ f.num # h.num /\ g.num # h.num
  BY DEF Gw!Field
<1> HIDE DEF f, g, h
<1>3. /\ \A a, b \in F : a.num = b.num => a = b
      /\ \A a, b \in F : a.name = b.name => a = b
      /\ \A a \in F : a.kind \notin {"message", "messages"}
      /\ g \in F
  <2>1. \A a \in F : a = f \/ a = g \/ a = h
    OBVIOUS
  <2>2. g \in F
    OBVIOUS
  <2> HIDE DEF F
  <2>3. \A a, b \in F : a.num = b.num => a = b
    BY <1>2, <2>1
  <2>4. \A a, b \in F : a.name = b.name => a = b
    BY <1>2, <2>1
  <2> QED
    BY <1>2, <2>1, <2>2, <2>3, <2>4
<1> HIDE DEF F
<1>4. Svc!Decode(F, Gw!Encode(F, msg))[g.name] = msg[g.name]
  BY <1>3, RoundTrip
<1>5. msg[g.name] = y
  <2>1. msg["receiver_id"] = y
    OBVIOUS
  <2> QED
    BY <1>2, <2>1
<1> HIDE DEF msg
<1>6. Svc!Decode(F, Gw!Encode(F, msg)).receiver_id = y
  BY <1>2, <1>4, <1>5
<1> QED
  BY <1>1, <1>6 DEF msg

-----------------------------------------------------------------------------
(* Steps that change one handler.                                          *)

LEMMA CallFacts ==
  ASSUME NEW r, DOMAIN r = DOMAIN Idle, NEW label, NEW stub, NEW msg, NEW md,
         NEW c, c = Call(r, label, stub, msg, md)
  PROVE  /\ DOMAIN c = DOMAIN Idle /\ c.pc = label
         /\ c.header = r.header /\ c.request = r.request /\ c.frame = r.frame
         /\ c.ids = r.ids /\ c.next = r.next /\ c.content = r.content
         /\ c.answer = r.answer
         /\ c.rpc.at = "service" /\ c.rpc.path = stub.path /\ c.rpc.md = md
         /\ c.rpc.bytes = Gw!Encode(stub.in, msg)
BY DEF Call, Idle

LEMMA AnswerFacts ==
  ASSUME NEW r, DOMAIN r = DOMAIN Idle, NEW status, NEW body,
         NEW c, c = Answer(r, status, body)
  PROVE  /\ DOMAIN c = DOMAIN Idle /\ c.pc = "answered"
         /\ c.header = r.header /\ c.request = r.request /\ c.frame = r.frame
         /\ c.rpc.at = "nowhere" /\ c.answer.status = status
BY DEF Answer, Idle, NoCall

LEMMA HandlersKept ==
  ASSUME GateInv, NEW p \in Handlers, NEW r, Become(p, r), HandlerType(p, r), CallShape(p, r),
         issued \subseteq issued', UNCHANGED knownBefore
  PROVE  /\ (handler = [q \in Handlers |-> handler[q]])'
         /\ handler'[p] = r /\ \A q \in Handlers \ {p} : handler'[q] = handler[q]
         /\ \A q \in Handlers : HandlerType(q, handler[q])'
         /\ \A q \in Handlers : CallShape(q, handler[q])'
<1>1. /\ handler = [q \in Handlers |-> handler[q]]
      /\ \A q \in Handlers : HandlerType(q, handler[q]) /\ CallShape(q, handler[q])
  BY DEF GateInv, TypeOK
<1>2. handler' = [handler EXCEPT ![p] = r]
  BY DEF Become
<1>3. /\ handler'[p] = r /\ \A q \in Handlers \ {p} : handler'[q] = handler[q]
      /\ handler' = [q \in Handlers |-> handler'[q]]
  BY <1>1, <1>2
<1>4. \A h : h \in Headers => h \in Headers'
  BY DEF Headers
<1>5. \A q \in Handlers : HandlerType(q, handler'[q]) /\ CallShape(q, handler'[q])
  BY <1>1, <1>3
<1>6. \A q \in Handlers : HandlerType(q, handler[q])'
  BY <1>4, <1>5 DEF HandlerType
<1>7. \A q \in Handlers : CallShape(q, handler[q])'
  BY <1>5 DEF CallShape, Trusted
<1> QED
  BY <1>3, <1>6, <1>7

\* A step of one handler in which it remains whose it was, and nobody else sees it.
LEMMA LocalStep ==
  ASSUME GateInv, NEW p \in Handlers, NEW r, Become(p, r),
         HandlerType(p, r), CallShape(p, r), r.pc # "idle", r.header = handler[p].header,
         ~At(p, "idle"), isOnline' \in [Users -> BOOLEAN],
         UNCHANGED <<now, authVars, profile, renames, chatVars, knownBefore>>
  PROVE  GateInv'
<1>1. UNCHANGED <<now, otp, saved, issued, profile, renames, handed, messages, knownBefore>>
  BY DEF authVars, chatVars
<1>2. /\ (handler = [q \in Handlers |-> handler[q]])'
      /\ handler'[p] = r /\ \A q \in Handlers \ {p} : handler'[q] = handler[q]
      /\ \A q \in Handlers : HandlerType(q, handler[q])'
      /\ \A q \in Handlers : CallShape(q, handler[q])'
  BY <1>1, HandlersKept
<1>3. TypeOK'
  BY <1>1, <1>2 DEF GateInv, TypeOK, Jwts
<1>4. RevokedForGood' /\ (\A x \in renames : x.by \in Handlers)'
  BY <1>1 DEF GateInv, RevokedForGood
<1>5. \A q \in Handlers : NothingBefore(q)'
  BY <1>1, <1>2 DEF GateInv, NothingBefore, At
<1>6. NoEffectWithoutValidToken'
  <2>1. \A q \in Handlers : handler'[q].header = handler[q].header
    BY <1>2
  <2>2. \A q \in Handlers : \A t : ValidFor(q, t) => ValidFor(q, t)'
    BY <1>1, <2>1 DEF ValidFor
  <2>3. \A q \in Handlers : \A i \in DOMAIN handed[q] : ValidFor(q, handed[q][i].at)
    BY DEF GateInv, NoEffectWithoutValidToken
  <2>4. \A x \in renames : x.by \in Handlers /\ ValidFor(x.by, x.at)
    BY DEF GateInv, NoEffectWithoutValidToken
  <2> QED
    BY <1>1, <2>2, <2>3, <2>4 DEF NoEffectWithoutValidToken
<1> QED
  BY <1>2, <1>3, <1>4, <1>5, <1>6 DEF GateInv

-----------------------------------------------------------------------------
(* Where a handler may go.                                                 *)

LEMMA HandlerFacts ==
  ASSUME GateInv, NEW p \in Handlers
  PROVE  LET r == handler[p] IN
           /\ HandlerType(p, r) /\ CallShape(p, r) /\ DOMAIN r = DOMAIN Idle
           /\ r.header \in Headers /\ r.frame \in 0 .. MaxFrames
           /\ r.answer.status \in {0, 200, 400, 401, 500}
           /\ ~At(p, "idle") => r.request \in Requests[p]
BY DEF GateInv, TypeOK, HandlerType, At

\* A copy of a handler's record in which the locals of a loop may differ.
Like(p, r) == /\ DOMAIN r = DOMAIN Idle
              /\ r.header = handler[p].header /\ r.request = handler[p].request
              /\ r.frame \in 0 .. MaxFrames /\ r.answer = handler[p].answer

LEMMA MayAnswer ==
  ASSUME GateInv, NEW p \in Handlers, ~At(p, "idle"), NEW r, Like(p, r),
         NEW status \in {0, 200, 400, 401, 500}, NEW body,
         NEW c, c = Answer(r, status, body)
  PROVE  /\ HandlerType(p, c) /\ CallShape(p, c)
         /\ c.pc # "idle" /\ c.header = handler[p].header
<1>1. /\ DOMAIN c = DOMAIN Idle /\ c.pc = "answered"
      /\ c.header = r.header /\ c.request = r.request /\ c.frame = r.frame
      /\ c.rpc.at = "nowhere" /\ c.answer.status = status
  BY AnswerFacts DEF Like
<1>2. /\ r.header \in Headers /\ r.header = handler[p].header
      /\ r.request \in Requests[p] /\ r.frame \in 0 .. MaxFrames
  BY HandlerFacts DEF Like
<1>3. HandlerType(p, c)
  BY <1>1, <1>2 DEF HandlerType
<1>4. CallShape(p, c)
  BY <1>1 DEF CallShape
<1> QED
  BY <1>1, <1>2, <1>3, <1>4

\* On the way without a call: to the handler, or back to the socket.
LEMMA MayGoOn ==
  ASSUME GateInv, NEW p \in Handlers, ~At(p, "idle"), NEW r, Like(p, r),
         NEW pc \in {"handle", "open"},
         r.request.route \in Protected => Trusted(p, r.header),
         pc = "open" => r.request.route \in Protected,
         NEW c, c = [r EXCEPT !.pc = pc, !.rpc = NoCall]
  PROVE  /\ HandlerType(p, c) /\ CallShape(p, c)
         /\ c.pc # "idle" /\ c.header = handler[p].header
<1>1. /\ DOMAIN c = DOMAIN Idle /\ c.pc = pc /\ c.rpc.at = "nowhere"
      /\ c.header = r.header /\ c.request = r.request /\ c.frame = r.frame
      /\ c.answer = r.answer
  BY DEF Like, Idle, NoCall
<1>2. /\ r.header \in Headers /\ r.header = handler[p].header
      /\ r.request \in Requests[p] /\ r.frame \in 0 .. MaxFrames
      /\ r.answer.status \in {0, 200, 400, 401, 500}
  BY HandlerFacts DEF Like
<1>3. HandlerType(p, c)
  BY <1>1, <1>2 DEF HandlerType
<1>4. CallShape(p, c)
  BY <1>1 DEF CallShape
<1> QED
  BY <1>1, <1>2, <1>3, <1>4

LEMMA MayCall ==
  ASSUME GateInv, NEW p \in Handlers, At(p, "handle"), NEW stub, NEW msg, NEW md,
         stub.path[2] # "SendMessage",
         stub.path[2] = "UpdateUser" => Route(p) = "update" /\ md = <<handler[p].header>>,
         NEW c, c = Call(handler[p], "call", stub, msg, md)
  PROVE  /\ HandlerType(p, c) /\ CallShape(p, c)
         /\ c.pc # "idle" /\ c.header = handler[p].header
<1> DEFINE r == handler[p]
<1>1. DOMAIN r = DOMAIN Idle
  BY HandlerFacts
<1>2. /\ DOMAIN c = DOMAIN Idle /\ c.pc = "call"
      /\ c.header = r.header /\ c.request = r.request /\ c.frame = r.frame
      /\ c.answer = r.answer
      /\ c.rpc.at = "service" /\ c.rpc.path = stub.path /\ c.rpc.md = md
  BY <1>1, CallFacts
<1>3. /\ r.header \in Headers /\ r.request \in Requests[p] /\ r.frame \in 0 .. MaxFrames
      /\ r.answer.status \in {0, 200, 400, 401, 500}
  BY HandlerFacts DEF At
<1>4. r.request.route \in Protected => Trusted(p, r.header)
  BY HandlerFacts, ZenonT(60) DEF CallShape, At
<1>5. HandlerType(p, c)
  BY <1>2, <1>3 DEF HandlerType
<1>6. CallShape(p, c)
  BY <1>2, <1>4 DEF CallShape, Route
<1> QED
  BY <1>2, <1>5, <1>6

LEMMA MayForward ==
  ASSUME GateInv, NEW p \in Handlers, ~At(p, "idle"), NEW r, Like(p, r),
         r.request.route \in Protected, Trusted(p, r.header),
         NEW c, c = ForwardToGrpc(r)
  PROVE  /\ HandlerType(p, c) /\ CallShape(p, c)
         /\ c.pc # "idle" /\ c.header = handler[p].header
<1> DEFINE msg == [sender_id |-> 0, receiver_id |-> <<ToInt32(r.ids[r.next])>>,
                   content |-> r.content]
<1>1. /\ Gw!SendMessage.path[2] = "SendMessage" /\ Gw!SendMessage.in = Gw!SendMessageRequest
  BY DEF Gw!SendMessage, Gw!Method
<1>2. c = Call(r, "forward", Gw!SendMessage, msg, <<r.header>>)
  BY DEF ForwardToGrpc
<1>3. /\ DOMAIN c = DOMAIN Idle /\ c.pc = "forward"
      /\ c.header = r.header /\ c.request = r.request /\ c.frame = r.frame
      /\ c.ids = r.ids /\ c.next = r.next /\ c.content = r.content
      /\ c.answer = r.answer
      /\ c.rpc.at = "service" /\ c.rpc.path = Gw!SendMessage.path /\ c.rpc.md = <<r.header>>
      /\ c.rpc.bytes = Gw!Encode(Gw!SendMessage.in, msg)
  BY <1>2, CallFacts DEF Like
<1>4. /\ r.header \in Headers /\ r.header = handler[p].header
      /\ r.request \in Requests[p] /\ r.frame \in 0 .. MaxFrames
      /\ r.answer.status \in {0, 200, 400, 401, 500}
  BY HandlerFacts DEF Like
<1>5. HandlerType(p, c)
  BY <1>3, <1>4 DEF HandlerType
<1>6. CallShape(p, c)
  BY <1>1, <1>3 DEF CallShape
<1> QED
  BY <1>3, <1>4, <1>5, <1>6

LEMMA LikeItself ==
  ASSUME GateInv, NEW p \in Handlers
  PROVE  Like(p, handler[p])
BY HandlerFacts DEF Like

\* A step of one handler that nobody else sees.
LEMMA QuietStep ==
  ASSUME GateInv, NEW p \in Handlers, NEW r, Become(p, r),
         HandlerType(p, r), CallShape(p, r), r.pc # "idle", r.header = handler[p].header,
         ~At(p, "idle"), UNCHANGED <<now, authVars, userVars, chatVars, knownBefore>>
  PROVE  GateInv'
<1>1. isOnline \in [Users -> BOOLEAN]
  BY DEF GateInv, TypeOK
<1> QED
  BY <1>1, LocalStep DEF userVars

-----------------------------------------------------------------------------
(* The steps of the gateway.                                               *)

LEMMA AuthenticationStep ==
  ASSUME GateInv, NEW p \in Handlers, Authentication(p)
  PROVE  GateInv'
<1>1. At(p, "authenticate") /\ ~At(p, "idle") /\ Like(p, handler[p])
  BY LikeItself DEF Authentication, At
<1>2. CASE Succeeded(p)
  <2> DEFINE c == [handler[p] EXCEPT !.pc = "handle", !.rpc = NoCall]
  <2>1. Become(p, c)
    BY <1>2 DEF Authentication
  <2>2. Trusted(p, handler[p].header)
    BY <1>1, <1>2, HandlerFacts, ZenonT(60) DEF CallShape, Authentication, At, Returned, Succeeded
  <2>3. HandlerType(p, c) /\ CallShape(p, c) /\ c.pc # "idle" /\ c.header = handler[p].header
    BY <1>1, <2>2, MayGoOn
  <2> QED
    BY <1>1, <2>1, <2>3, QuietStep DEF Authentication
<1>3. CASE ~Succeeded(p)
  <2> DEFINE c == Answer(handler[p], 401, Empty)
  <2>1. Become(p, c)
    BY <1>3 DEF Authentication
  <2>3. HandlerType(p, c) /\ CallShape(p, c) /\ c.pc # "idle" /\ c.header = handler[p].header
    BY <1>1, MayAnswer
  <2> QED
    BY <1>1, <2>1, <2>3, QuietStep DEF Authentication
<1> QED
  BY <1>2, <1>3

LEMMA CallsStep ==
  ASSUME GateInv, NEW p \in Handlers, At(p, "handle"), NEW stub, NEW msg, NEW md,
         stub.path[2] # "SendMessage",
         stub.path[2] = "UpdateUser" => Route(p) = "update" /\ md = <<handler[p].header>>,
         Calls(p, stub, msg, md)
  PROVE  GateInv'
<1>1. ~At(p, "idle") /\ Like(p, handler[p])
  BY LikeItself DEF At
<1>2. CASE Body(p) = Bad
  <2> DEFINE c == Answer(handler[p], 400, Empty)
  <2>1. Become(p, c)
    BY <1>2 DEF Calls
  <2>2. HandlerType(p, c) /\ CallShape(p, c) /\ c.pc # "idle" /\ c.header = handler[p].header
    BY <1>1, MayAnswer
  <2> QED
    BY <1>1, <2>1, <2>2, QuietStep DEF Calls
<1>3. CASE Body(p) # Bad
  <2> DEFINE c == Call(handler[p], "call", stub, msg, md)
  <2>1. Become(p, c)
    BY <1>3 DEF Calls
  <2>2. HandlerType(p, c) /\ CallShape(p, c) /\ c.pc # "idle" /\ c.header = handler[p].header
    BY MayCall
  <2> QED
    BY <1>1, <2>1, <2>2, QuietStep DEF Calls
<1> QED
  BY <1>2, <1>3

LEMMA StubNames ==
  /\ Gw!Login.path[2] = "Login" /\ Gw!VerifyOTP.path[2] = "VerifyOTP"
  /\ Gw!VerifyToken.path[2] = "VerifyToken" /\ Gw!GetAllUsers.path[2] = "GetAllUsers"
  /\ Gw!UpdateUser.path[2] = "UpdateUser" /\ Gw!ListMessage.path[2] = "ListMessage"
  /\ Gw!ListMessageBySender.path[2] = "ListMessageBySender"
BY DEF Gw!Login, Gw!VerifyOTP, Gw!VerifyToken, Gw!GetAllUsers, Gw!UpdateUser, Gw!ListMessage,
       Gw!ListMessageBySender, Gw!Method

LEMMA OneCallStep ==
  ASSUME GateInv, NEW p \in Handlers,
         \/ loginHandler(p) \/ verifyOTPHandler(p) \/ verifyTokenHandler(p)
         \/ getAllUsersHandler(p) \/ updateUserHandler(p) \/ listMessageHandler(p)
         \/ listMessagesBySenderHandler(p)
  PROVE  GateInv'
<1>1. CASE loginHandler(p)
  BY <1>1, StubNames, CallsStep DEF loginHandler, Handles
<1>2. CASE verifyOTPHandler(p)
  BY <1>2, StubNames, CallsStep DEF verifyOTPHandler, Handles
<1>3. CASE verifyTokenHandler(p)
  BY <1>3, StubNames, CallsStep DEF verifyTokenHandler, Handles
<1>4. CASE getAllUsersHandler(p)
  BY <1>4, StubNames, CallsStep DEF getAllUsersHandler, Handles
<1>5. CASE updateUserHandler(p)
  BY <1>5, StubNames, CallsStep DEF updateUserHandler, Handles
<1>6. CASE listMessageHandler(p)
  BY <1>6, StubNames, CallsStep DEF listMessageHandler, Handles
<1>7. CASE listMessagesBySenderHandler(p)
  BY <1>7, StubNames, CallsStep DEF listMessagesBySenderHandler, Handles
<1> QED
  BY <1>1, <1>2, <1>3, <1>4, <1>5, <1>6, <1>7

LEMMA RespondStep ==
  ASSUME GateInv, NEW p \in Handlers, Respond(p)
  PROVE  GateInv'
<1>1. ~At(p, "idle") /\ Like(p, handler[p])
  BY LikeItself DEF Respond, At
<1>2. PICK status, body : status \in {200, 500} /\ Become(p, Answer(handler[p], status, body))
  BY DEF Respond
<1> DEFINE c == Answer(handler[p], status, body)
<1>3. HandlerType(p, c) /\ CallShape(p, c) /\ c.pc # "idle" /\ c.header = handler[p].header
  BY <1>1, <1>2, MayAnswer
<1> QED
  BY <1>1, <1>2, <1>3, QuietStep DEF Respond

LEMMA TrustedOnTheWay ==
  ASSUME GateInv, NEW p \in Handlers,
         handler[p].pc \in {"handle", "call", "forward", "open"}, Route(p) \in Protected
  PROVE  Trusted(p, handler[p].header)
BY HandlerFacts, ZenonT(60) DEF CallShape, Route

LEMMA SendStep ==
  ASSUME GateInv, NEW p \in Handlers, sendMessageHandler(p)
  PROVE  GateInv'
<1>1. /\ ~At(p, "idle") /\ Like(p, handler[p]) /\ Route(p) \in Protected
      /\ Trusted(p, handler[p].header)
  BY LikeItself, TrustedOnTheWay DEF sendMessageHandler, Handles, At, Protected
<1>2. ASSUME Become(p, Answer(handler[p], 400, Empty))
      PROVE  GateInv'
  <2> DEFINE c == Answer(handler[p], 400, Empty)
  <2>1. HandlerType(p, c) /\ CallShape(p, c) /\ c.pc # "idle" /\ c.header = handler[p].header
    BY <1>1, MayAnswer
  <2> QED
    BY <1>1, <1>2, <2>1, QuietStep DEF sendMessageHandler
<1>3. ASSUME NEW list, Become(p, Loop(handler[p], list, Body(p).content))
      PROVE  GateInv'
  <2> DEFINE r == [handler[p] EXCEPT !.ids = list, !.next = 1, !.content = Body(p).content]
             c == ForwardToGrpc(r)
  <2>1. /\ DOMAIN r = DOMAIN Idle /\ r.header = handler[p].header
        /\ r.request = handler[p].request /\ r.frame = handler[p].frame
        /\ r.answer = handler[p].answer
    BY <1>1 DEF Like, Idle
  <2>2. Like(p, r) /\ r.request.route \in Protected /\ Trusted(p, r.header)
    BY <1>1, <2>1 DEF Like, Route
  <2>3. HandlerType(p, c) /\ CallShape(p, c) /\ c.pc # "idle" /\ c.header = handler[p].header
    BY <1>1, <2>2, MayForward
  <2>4. Become(p, c)
    BY <1>3 DEF Loop
  <2> QED
    BY <1>1, <2>3, <2>4, QuietStep DEF sendMessageHandler
<1> QED
  BY <1>2, <1>3 DEF sendMessageHandler

LEMMA NextForward ==
  ASSUME GateInv, NEW p \in Handlers, ~At(p, "idle"), NEW r, Like(p, r),
         r.request.route \in Protected, Trusted(p, r.header),
         NEW c, c = ForwardToGrpc([r EXCEPT !.next = @ + 1])
  PROVE  /\ HandlerType(p, c) /\ CallShape(p, c)
         /\ c.pc # "idle" /\ c.header = handler[p].header
<1> DEFINE q == [r EXCEPT !.next = @ + 1]
<1>1. /\ DOMAIN q = DOMAIN Idle /\ q.header = r.header /\ q.request = r.request
      /\ q.frame = r.frame /\ q.answer = r.answer
  BY DEF Like, Idle
<1>2. Like(p, q) /\ q.request.route \in Protected /\ Trusted(p, q.header)
  BY <1>1 DEF Like
<1> HIDE DEF q
<1>3. c = ForwardToGrpc(q)
  BY DEF q
<1> QED
  BY <1>2, <1>3, MayForward

LEMMA ForwardedStep ==
  ASSUME GateInv, NEW p \in Handlers, Forwarded(p)
  PROVE  GateInv'
<1>1. /\ ~At(p, "idle") /\ Like(p, handler[p]) /\ handler[p].request.route \in Protected
      /\ Trusted(p, handler[p].header)
  BY LikeItself, TrustedOnTheWay DEF Forwarded, At, Protected, Route
<1>2. ASSUME NEW status \in {200, 400}, Become(p, Answer(handler[p], status, Empty))
      PROVE  GateInv'
  <2> DEFINE c == Answer(handler[p], status, Empty)
  <2>1. HandlerType(p, c) /\ CallShape(p, c) /\ c.pc # "idle" /\ c.header = handler[p].header
    BY <1>1, MayAnswer
  <2> QED
    BY <1>1, <1>2, <2>1, QuietStep DEF Forwarded
<1>3. ASSUME Become(p, ForwardToGrpc([handler[p] EXCEPT !.next = @ + 1]))
      PROVE  GateInv'
  <2> DEFINE c == ForwardToGrpc([handler[p] EXCEPT !.next = @ + 1])
  <2>1. HandlerType(p, c) /\ CallShape(p, c) /\ c.pc # "idle" /\ c.header = handler[p].header
    BY <1>1, NextForward
  <2> QED
    BY <1>1, <1>3, <2>1, QuietStep DEF Forwarded
<1> QED
  BY <1>2, <1>3 DEF Forwarded, ForwardNextOrStop

LEMMA WsStep ==
  ASSUME GateInv, NEW p \in Handlers, WsHandler(p)
  PROVE  GateInv'
<1>1. /\ ~At(p, "idle") /\ Like(p, handler[p]) /\ handler[p].request.route \in Protected
      /\ Trusted(p, handler[p].header)
  BY LikeItself, TrustedOnTheWay DEF WsHandler, Handles, At, Protected, Route
<1>2. isOnline' \in [Users -> BOOLEAN]
  BY DEF WsHandler, GateInv, TypeOK
<1>3. UNCHANGED <<now, authVars, profile, renames, chatVars, knownBefore>>
  BY DEF WsHandler
<1>4. CASE Become(p, [handler[p] EXCEPT !.pc = "open"])
  <2> DEFINE c == [handler[p] EXCEPT !.pc = "open"]
  <2>1. handler[p].rpc.at = "nowhere"
    BY HandlerFacts DEF HandlerType, WsHandler, Handles, At
  <2>2. /\ DOMAIN c = DOMAIN Idle /\ c.pc = "open" /\ c.rpc.at = "nowhere"
        /\ c.header = handler[p].header /\ c.request = handler[p].request
        /\ c.frame = handler[p].frame /\ c.answer = handler[p].answer
    BY <1>1, <2>1 DEF Like, Idle
  <2>3. HandlerType(p, c)
    BY <1>1, <2>2, HandlerFacts DEF HandlerType
  <2>4. CallShape(p, c)
    BY <1>1, <2>2 DEF CallShape
  <2> QED
    BY <1>1, <1>2, <1>3, <1>4, <2>2, <2>3, <2>4, LocalStep
<1>5. CASE Become(p, Answer(handler[p], 0, Empty))
  <2> DEFINE c == Answer(handler[p], 0, Empty)
  <2>1. HandlerType(p, c) /\ CallShape(p, c) /\ c.pc # "idle" /\ c.header = handler[p].header
    BY <1>1, MayAnswer
  <2>2. Become(p, c)
    BY <1>5
  <2> HIDE DEF c
  <2> QED
    BY ONLY GateInv, p \in Handlers, <1>1, <1>2, <1>3, <2>1, <2>2, LocalStep
<1> QED
  BY <1>4, <1>5 DEF WsHandler

LEMMA ReadFrameStep ==
  ASSUME GateInv, NEW p \in Handlers, ReadFrame(p)
  PROVE  GateInv'
<1>1. /\ At(p, "open") /\ ~At(p, "idle") /\ Like(p, handler[p])
      /\ handler[p].request.route \in Protected /\ Trusted(p, handler[p].header)
  BY LikeItself, HandlerFacts, ZenonT(60) DEF ReadFrame, At, CallShape
<1> DEFINE r == [handler[p] EXCEPT !.frame = @ + 1, !.named = <<>>]
<1>2. /\ DOMAIN r = DOMAIN Idle /\ r.header = handler[p].header
      /\ r.request = handler[p].request /\ r.frame = handler[p].frame + 1
      /\ r.answer = handler[p].answer /\ r.pc = "open" /\ r.rpc = handler[p].rpc
  BY <1>1 DEF Like, Idle, At
<1>3. handler[p].frame + 1 \in 0 .. MaxFrames
  BY HandlerFacts, Constants DEF ReadFrame
<1>4. handler[p].rpc.at = "nowhere"
  BY <1>1, HandlerFacts DEF HandlerType, At
<1> HIDE DEF r
<1>5. ASSUME Become(p, [r EXCEPT !.ids = <<>>])
      PROVE  GateInv'
  <2> DEFINE c == [r EXCEPT !.ids = <<>>]
  <2>1. /\ DOMAIN c = DOMAIN Idle /\ c.header = r.header /\ c.request = r.request
        /\ c.frame = r.frame /\ c.answer = r.answer /\ c.pc = r.pc /\ c.rpc = r.rpc
    BY <1>2 DEF Idle
  <2>2. HandlerType(p, c)
    BY <1>1, <1>2, <1>3, <1>4, <2>1, HandlerFacts DEF HandlerType
  <2>3. CallShape(p, c)
    BY <1>1, <1>2, <1>4, <2>1 DEF CallShape
  <2>4. c.pc # "idle" /\ c.header = handler[p].header
    BY <1>2, <2>1
  <2> QED
    BY <1>1, <1>5, <2>2, <2>3, <2>4, QuietStep DEF ReadFrame
<1>6. ASSUME NEW list, NEW content, Become(p, Loop(r, list, content))
      PROVE  GateInv'
  <2> DEFINE q == [r EXCEPT !.ids = list, !.next = 1, !.content = content]
             c == ForwardToGrpc(q)
  <2>1. /\ DOMAIN q = DOMAIN Idle /\ q.header = r.header /\ q.request = r.request
        /\ q.frame = r.frame /\ q.answer = r.answer
    BY <1>2 DEF Idle
  <2>2. Like(p, q) /\ q.request.route \in Protected /\ Trusted(p, q.header)
    BY <1>1, <1>2, <1>3, <2>1 DEF Like
  <2>3. HandlerType(p, c) /\ CallShape(p, c) /\ c.pc # "idle" /\ c.header = handler[p].header
    BY <1>1, <2>2, MayForward
  <2>4. Become(p, c)
    BY <1>6 DEF Loop
  <2> QED
    BY <1>1, <2>3, <2>4, QuietStep DEF ReadFrame
<1> QED
  BY <1>5, <1>6 DEF ReadFrame, r

LEMMA FrameForwardedStep ==
  ASSUME GateInv, NEW p \in Handlers, FrameForwarded(p)
  PROVE  GateInv'
<1>1. /\ ~At(p, "idle") /\ Like(p, handler[p]) /\ handler[p].request.route \in Protected
      /\ Trusted(p, handler[p].header)
  BY LikeItself, TrustedOnTheWay DEF FrameForwarded, At, Protected, Route
<1>2. ASSUME NEW r, Like(p, r), Become(p, AfterFrame(r))
      PROVE  GateInv'
  <2>1. r.request.route \in Protected /\ Trusted(p, r.header)
    BY <1>1, <1>2 DEF Like
  <2>2. CASE Become(p, ForwardToGrpc([r EXCEPT !.next = @ + 1]))
    <3> DEFINE c == ForwardToGrpc([r EXCEPT !.next = @ + 1])
    <3>1. HandlerType(p, c) /\ CallShape(p, c) /\ c.pc # "idle" /\ c.header = handler[p].header
      BY <1>1, <1>2, <2>1, NextForward
    <3> QED
      BY <1>1, <2>2, <3>1, QuietStep DEF FrameForwarded
  <2>3. CASE Become(p, [r EXCEPT !.pc = "open", !.rpc = NoCall])
    <3> DEFINE c == [r EXCEPT !.pc = "open", !.rpc = NoCall]
    <3>1. HandlerType(p, c) /\ CallShape(p, c) /\ c.pc # "idle" /\ c.header = handler[p].header
      BY <1>1, <1>2, <2>1, MayGoOn
    <3> QED
      BY <1>1, <2>3, <3>1, QuietStep DEF FrameForwarded
  <2> QED
    BY <1>2, <2>2, <2>3 DEF AfterFrame
<1>3. CASE Succeeded(p)
  BY <1>1, <1>2, <1>3 DEF FrameForwarded, FrameContinued
<1>4. CASE ~Succeeded(p)
  <2> DEFINE r == [handler[p] EXCEPT !.named = Append(@, handler[p].ids[handler[p].next])]
  <2>1. Become(p, AfterFrame(r))
    BY <1>4 DEF FrameForwarded, FrameContinued
  <2>2. Like(p, r)
    BY <1>1 DEF Like, Idle
  <2> QED
    BY <1>2, <2>1, <2>2
<1> QED
  BY <1>3, <1>4

\* The locals that the call and the token do not depend on.
LEMMA NotedStep ==
  ASSUME GateInv, NEW p \in Handlers, ~At(p, "idle"), NEW c, Become(p, c),
         DOMAIN c = DOMAIN Idle, c.pc = handler[p].pc, c.header = handler[p].header,
         c.request = handler[p].request, c.frame = handler[p].frame,
         c.ids = handler[p].ids, c.next = handler[p].next, c.content = handler[p].content,
         c.rpc = handler[p].rpc, c.answer = handler[p].answer,
         UNCHANGED <<now, authVars, userVars, chatVars, knownBefore>>
  PROVE  GateInv'
<1>1. HandlerType(p, c)
  BY HandlerFacts DEF HandlerType
<1>2. CallShape(p, c)
  BY HandlerFacts DEF CallShape
<1> QED
  BY <1>1, <1>2, QuietStep DEF At

LEMMA OpenStreamStep ==
  ASSUME GateInv, NEW p \in Handlers, OpenStream(p)
  PROVE  GateInv'
<1> DEFINE c == [handler[p] EXCEPT !.stream = TRUE]
<1>1. /\ DOMAIN c = DOMAIN Idle /\ c.pc = handler[p].pc /\ c.header = handler[p].header
      /\ c.request = handler[p].request /\ c.frame = handler[p].frame
      /\ c.ids = handler[p].ids /\ c.next = handler[p].next
      /\ c.content = handler[p].content /\ c.rpc = handler[p].rpc
      /\ c.answer = handler[p].answer
  BY HandlerFacts DEF Idle
<1>2. Become(p, c) /\ ~At(p, "idle")
  BY DEF OpenStream, Open, At
<1> HIDE DEF c
<1> QED
  BY <1>1, <1>2, NotedStep DEF OpenStream

LEMMA StreamDeliversStep ==
  ASSUME GateInv, NEW p \in Handlers, StreamDelivers(p)
  PROVE  GateInv'
<1>1. PICK x : Become(p, [handler[p] EXCEPT !.pushed = Append(@, x)])
  BY DEF StreamDelivers
<1> DEFINE c == [handler[p] EXCEPT !.pushed = Append(@, x)]
<1>2. /\ DOMAIN c = DOMAIN Idle /\ c.pc = handler[p].pc /\ c.header = handler[p].header
      /\ c.request = handler[p].request /\ c.frame = handler[p].frame
      /\ c.ids = handler[p].ids /\ c.next = handler[p].next
      /\ c.content = handler[p].content /\ c.rpc = handler[p].rpc
      /\ c.answer = handler[p].answer
  BY HandlerFacts DEF Idle
<1>3. Become(p, c) /\ ~At(p, "idle")
  BY <1>1 DEF StreamDelivers, Open, At
<1> HIDE DEF c
<1> QED
  BY <1>2, <1>3, NotedStep DEF StreamDelivers

LEMMA CloseSocketStep ==
  ASSUME GateInv, NEW p \in Handlers, CloseSocket(p)
  PROVE  GateInv'
<1>1. ~At(p, "idle") /\ Like(p, handler[p])
  BY LikeItself DEF CloseSocket, At
<1> DEFINE r == [handler[p] EXCEPT !.stream = FALSE]
           c == Answer(r, 0, Empty)
<1>2. Like(p, r)
  BY <1>1 DEF Like, Idle
<1>3. HandlerType(p, c) /\ CallShape(p, c) /\ c.pc # "idle" /\ c.header = handler[p].header
  BY <1>1, <1>2, MayAnswer
<1>4. isOnline' \in [Users -> BOOLEAN]
  BY DEF CloseSocket, GateInv, TypeOK
<1> QED
  BY <1>1, <1>3, <1>4, LocalStep DEF CloseSocket

-----------------------------------------------------------------------------
(* The steps of the services.                                              *)

\* A call that has come back.  Of the middleware's calls only one that succeeds
\* needs the token.
LEMMA MayReturn ==
  ASSUME GateInv, NEW p \in Handlers, handler[p].rpc.at = "service",
         NEW a, a.at = "gateway", At(p, "authenticate") /\ a.ok => Trusted(p, handler[p].header),
         NEW c, c = [handler[p] EXCEPT !.rpc = a]
  PROVE  /\ HandlerType(p, c) /\ CallShape(p, c)
         /\ c.pc # "idle" /\ c.header = handler[p].header /\ ~At(p, "idle")
<1>1. /\ DOMAIN c = DOMAIN Idle /\ c.pc = handler[p].pc /\ c.header = handler[p].header
      /\ c.request = handler[p].request /\ c.frame = handler[p].frame
      /\ c.rpc = a /\ c.answer = handler[p].answer
  BY HandlerFacts DEF Idle
<1>2. ~At(p, "idle")
  BY HandlerFacts DEF HandlerType, At
<1>3. HandlerType(p, c)
  BY <1>1, HandlerFacts DEF HandlerType
<1>4. CallShape(p, c)
  BY <1>1, HandlerFacts DEF CallShape, At
<1> QED
  BY <1>1, <1>2, <1>3, <1>4 DEF At

LEMMA RefusedFacts ==
  ASSUME GateInv, NEW p \in Handlers, handler[p].rpc.at = "service", Refuse(p)
  PROVE  \E c : /\ Become(p, c) /\ HandlerType(p, c) /\ CallShape(p, c)
                /\ c.pc # "idle" /\ c.header = handler[p].header /\ ~At(p, "idle")
<1> DEFINE a == [at |-> "gateway", ok |-> FALSE]
           c == [handler[p] EXCEPT !.rpc = a]
<1>1. a.at = "gateway" /\ ~a.ok
  OBVIOUS
<1>2. Become(p, c)
  BY DEF Refuse
<1> HIDE DEF a
<1>3. /\ HandlerType(p, c) /\ CallShape(p, c)
      /\ c.pc # "idle" /\ c.header = handler[p].header /\ ~At(p, "idle")
  BY <1>1, MayReturn
<1> QED
  BY <1>2, <1>3

LEMMA RepliedFacts ==
  ASSUME GateInv, NEW p \in Handlers, handler[p].rpc.at = "service", NEW h, NEW msg,
         Reply(p, h, msg), At(p, "authenticate") => Trusted(p, handler[p].header)
  PROVE  \E c : /\ Become(p, c) /\ HandlerType(p, c) /\ CallShape(p, c)
                /\ c.pc # "idle" /\ c.header = handler[p].header /\ ~At(p, "idle")
<1> DEFINE a == [at |-> "gateway", ok |-> TRUE, bytes |-> Svc!Encode(h.out, msg)]
           c == [handler[p] EXCEPT !.rpc = a]
<1>1. a.at = "gateway"
  OBVIOUS
<1>2. Become(p, c)
  BY DEF Reply
<1> HIDE DEF a
<1>3. /\ HandlerType(p, c) /\ CallShape(p, c)
      /\ c.pc # "idle" /\ c.header = handler[p].header /\ ~At(p, "idle")
  BY <1>1, MayReturn
<1> QED
  BY <1>2, <1>3

LEMMA NotAuthenticating ==
  ASSUME GateInv, NEW p \in Handlers, NEW desc, NEW h, Reached(p, desc, h),
         h.name # "VerifyToken"
  PROVE  handler[p].rpc.at = "service" /\ ~At(p, "authenticate")
<1>1. handler[p].rpc.at = "service" /\ handler[p].rpc.path[2] = h.name
  BY DEF Reached, Svc!Leads
<1>2. At(p, "authenticate") => handler[p].rpc.path = Gw!VerifyToken.path
  BY <1>1, HandlerFacts DEF CallShape, At
<1> QED
  BY <1>1, <1>2, StubNames

LEMMA HandlerNames ==
  /\ Svc!LoginHandler.name = "Login" /\ Svc!VerifyOTPHandler.name = "VerifyOTP"
  /\ Svc!VerifyTokenHandler.in = Svc!TokenRequest
  /\ Svc!GetAllUsersHandler.name = "GetAllUsers" /\ Svc!UpdateUserHandler.name = "UpdateUser"
  /\ Svc!SendMessageHandler.name = "SendMessage"
  /\ Svc!SendMessageHandler.in = Svc!SendMessageRequest
  /\ Svc!ListMessageHandler.name = "ListMessage"
  /\ Svc!ListMessageBySenderHandler.name = "ListMessageBySender"
BY DEF Svc!LoginHandler, Svc!VerifyOTPHandler, Svc!VerifyTokenHandler, Svc!GetAllUsersHandler,
       Svc!UpdateUserHandler, Svc!SendMessageHandler, Svc!ListMessageHandler,
       Svc!ListMessageBySenderHandler, Svc!Handler

LEMMA CallFailsStep ==
  ASSUME GateInv, NEW p \in Handlers, CallFails(p)
  PROVE  GateInv'
BY RefusedFacts, QuietStep DEF CallFails

LEMMA ReadingStep ==
  ASSUME GateInv, NEW p \in Handlers,
         UserGetAllUsers(p) \/ ChatListMessage(p) \/ ChatListMessageBySender(p)
  PROVE  GateInv'
<1>1. CASE UserGetAllUsers(p)
  <2>1. PICK msg : Reply(p, Svc!GetAllUsersHandler, msg)
    BY <1>1 DEF UserGetAllUsers
  <2> QED
    BY <1>1, <2>1, HandlerNames, NotAuthenticating, RepliedFacts, QuietStep DEF UserGetAllUsers
<1>2. CASE ChatListMessage(p)
  <2>1. PICK msg : Reply(p, Svc!ListMessageHandler, msg)
    BY <1>2 DEF ChatListMessage
  <2> QED
    BY <1>2, <2>1, HandlerNames, NotAuthenticating, RepliedFacts, QuietStep DEF ChatListMessage
<1>3. CASE ChatListMessageBySender(p)
  <2>1. PICK msg : Reply(p, Svc!ListMessageBySenderHandler, msg)
    BY <1>3 DEF ChatListMessageBySender
  <2> QED
    BY <1>3, <2>1, HandlerNames, NotAuthenticating, RepliedFacts, QuietStep
       DEF ChatListMessageBySender
<1> QED
  BY <1>1, <1>2, <1>3

\* The auth service has compared the header with the token on record, and a token
\* on record has not been revoked.
LEMMA AuthVerifyTokenStep ==
  ASSUME GateInv, NEW p \in Handlers, AuthVerifyToken(p)
  PROVE  GateInv'
<1> DEFINE t == Request(p, Svc!VerifyTokenHandler).token
<1>1. AuthAccepts(t, now) /\ IsSaved(t) /\ handler[p].rpc.at = "service"
  BY DEF AuthVerifyToken, Reached
<1>2. PICK msg : Reply(p, Svc!VerifyTokenHandler, msg)
  BY DEF AuthVerifyToken
<1>3. ASSUME At(p, "authenticate") PROVE Trusted(p, handler[p].header)
  <2>1. t = handler[p].header
    <3>1. handler[p].rpc.bytes = Gw!Encode(Gw!TokenRequest, [token |-> handler[p].header])
      BY <1>1, <1>3, HandlerFacts, ZenonT(60) DEF CallShape, At
    <3>2. Request(p, Svc!VerifyTokenHandler)
            = Svc!Decode(Svc!TokenRequest, handler[p].rpc.bytes)
      BY HandlerNames DEF Request
    <3> QED
      BY <3>1, <3>2, TokenDecoded
  <2>2. IsToken(handler[p].header)
    BY <1>1, <2>1 DEF AuthAccepts
  <2>3. handler[p].header.jwt \notin knownBefore[p].revoked
    BY <1>1, <2>1 DEF GateInv, RevokedForGood, IsSaved
  <2> QED
    BY <2>2, <2>3 DEF Trusted
<1> QED
  BY <1>1, <1>2, <1>3, RepliedFacts, QuietStep DEF AuthVerifyToken

\* A call that takes effect, at the service's stores as far as they count here.
LEMMA EffectStep ==
  ASSUME GateInv, NEW p \in Handlers, NEW c, Become(p, c), HandlerType(p, c), CallShape(p, c),
         c.pc # "idle", c.header = handler[p].header, ~At(p, "idle"),
         UNCHANGED <<now, isOnline, knownBefore>>,
         issued \subseteq issued', issued' \subseteq Jwts, saved' \in [Users -> Jwts \cup {None}],
         otp' \in [Users -> Codes \cup {None}], DOMAIN profile' = Users,
         \A q \in Handlers : \A t \in knownBefore[q].revoked : saved'[t.id] # t,
         handed' = [q \in Handlers |-> handed'[q]],
         \A q \in Handlers : IsSequence(handed'[q]),
         \A q \in Handlers \ {p} : handed'[q] = handed[q],
         \A i \in DOMAIN handed'[p] : ValidFor(p, handed'[p][i].at),
         \A x \in renames' \ renames : x.by = p /\ ValidFor(p, x.at)
  PROVE  GateInv'
<1>1. /\ (handler = [q \in Handlers |-> handler[q]])'
      /\ handler'[p] = c /\ \A q \in Handlers \ {p} : handler'[q] = handler[q]
      /\ \A q \in Handlers : HandlerType(q, handler[q])'
      /\ \A q \in Handlers : CallShape(q, handler[q])'
  BY HandlersKept
<1>2. TypeOK'
  <2>1. now' \in 0 .. MaxTime /\ isOnline' \in [Users -> BOOLEAN]
        /\ knownBefore' = [q \in Handlers |-> knownBefore'[q]] /\ Jwts' = Jwts
    BY DEF GateInv, TypeOK, Jwts
  <2> QED
    BY <1>1, <2>1 DEF TypeOK
<1>3. RevokedForGood'
  BY DEF GateInv, RevokedForGood
<1>4. \A x \in renames' : x.by \in Handlers
  BY DEF GateInv
<1>5. \A q \in Handlers : NothingBefore(q)'
  BY <1>1 DEF GateInv, NothingBefore, At
<1>6. NoEffectWithoutValidToken'
  <2>1. \A q \in Handlers : handler'[q].header = handler[q].header
    BY <1>1
  <2>2. \A q \in Handlers : \A t : ValidFor(q, t) => ValidFor(q, t)'
    BY <2>1 DEF ValidFor
  <2>3. \A q \in Handlers : \A i \in DOMAIN handed'[q] : ValidFor(q, handed'[q][i].at)
    BY DEF GateInv, NoEffectWithoutValidToken
  <2>4. \A x \in renames' : x.by \in Handlers /\ ValidFor(x.by, x.at)
    BY <1>4 DEF GateInv, NoEffectWithoutValidToken
  <2> QED
    BY <2>2, <2>3, <2>4 DEF NoEffectWithoutValidToken
<1> QED
  BY <1>1, <1>2, <1>3, <1>4, <1>5, <1>6 DEF GateInv

\* What there is already.
LEMMA StoresTyped ==
  ASSUME GateInv
  PROVE  /\ now \in 0 .. MaxTime /\ issued \subseteq Jwts /\ saved \in [Users -> Jwts \cup {None}]
         /\ otp \in [Users -> Codes \cup {None}] /\ DOMAIN profile = Users
         /\ handed = [q \in Handlers |-> handed[q]]
         /\ \A q \in Handlers : IsSequence(handed[q])
         /\ \A q \in Handlers : \A t \in knownBefore[q].revoked :
              t \in issued /\ saved[t.id] # t /\ t.exp < now + JwtLife
         /\ \A q \in Handlers : \A i \in DOMAIN handed[q] : ValidFor(q, handed[q][i].at)
BY DEF GateInv, TypeOK, RevokedForGood, NoEffectWithoutValidToken

LEMMA AuthLoginStep ==
  ASSUME GateInv, NEW p \in Handlers, AuthLogin(p)
  PROVE  GateInv'
<1>1. handler[p].rpc.at = "service" /\ ~At(p, "authenticate")
  BY HandlerNames, NotAuthenticating DEF AuthLogin
<1>2. PICK c : /\ Become(p, c) /\ HandlerType(p, c) /\ CallShape(p, c)
               /\ c.pc # "idle" /\ c.header = handler[p].header /\ ~At(p, "idle")
  BY <1>1, RepliedFacts, RefusedFacts DEF AuthLogin
<1>3. otp' \in [Users -> Codes \cup {None}]
  BY StoresTyped DEF AuthLogin
<1>4. UNCHANGED <<now, isOnline, knownBefore, saved, issued, profile, renames, handed>>
  BY DEF AuthLogin, userVars, chatVars
<1> QED
  BY <1>2, <1>3, <1>4, StoresTyped, EffectStep

\* The new token is none of those that were revoked: they were made earlier.
LEMMA AuthVerifyOTPStep ==
  ASSUME GateInv, NEW p \in Handlers, AuthVerifyOTP(p)
  PROVE  GateInv'
<1>1. handler[p].rpc.at = "service" /\ ~At(p, "authenticate")
  BY HandlerNames, NotAuthenticating DEF AuthVerifyOTP
<1>2. PICK c : /\ Become(p, c) /\ HandlerType(p, c) /\ CallShape(p, c)
               /\ c.pc # "idle" /\ c.header = handler[p].header /\ ~At(p, "idle")
  BY <1>1, RepliedFacts, RefusedFacts DEF AuthVerifyOTP
<1>3. PICK u \in Users :
        /\ \/ saved' = [saved EXCEPT ![u] = CreateToken(u, Mail(u), now)]
           \/ saved' = [saved EXCEPT ![u] = None]
        /\ issued' = issued \/ issued' = issued \cup {CreateToken(u, Mail(u), now)}
  BY DEF AuthVerifyOTP
<1> DEFINE jwt == CreateToken(u, Mail(u), now)
<1>4. jwt \in Jwts /\ jwt.exp = now + JwtLife
  BY StoresTyped, Constants DEF Jwts, CreateToken
<1>5. None \notin Jwts
  BY StoresTyped, Constants DEF Jwts
<1> HIDE DEF jwt
<1>6. issued \subseteq issued' /\ issued' \subseteq Jwts /\ saved' \in [Users -> Jwts \cup {None}]
  BY <1>3, <1>4, StoresTyped DEF jwt
<1>7. ASSUME NEW q \in Handlers, NEW t \in knownBefore[q].revoked
      PROVE  saved'[t.id] # t
  <2>1. t \in Jwts /\ saved[t.id] # t /\ t.exp < now + JwtLife
    BY StoresTyped
  <2>2. t.id \in Users /\ t.exp \in Int
    BY <2>1, Constants DEF Jwts, CreateToken
  <2>3. t # jwt /\ t # None
    BY <1>4, <1>5, <2>1, <2>2, StoresTyped, Constants
  <2> QED
    BY <1>3, <2>1, <2>2, <2>3, StoresTyped DEF jwt
<1>8. UNCHANGED <<now, isOnline, knownBefore, otp, profile, renames, handed>>
  BY DEF AuthVerifyOTP, userVars, chatVars
<1> QED
  BY <1>2, <1>6, <1>7, <1>8, StoresTyped, EffectStep

\* Whoever the token in the metadata names has a token that is valid now.
LEMMA ParsedIsValid ==
  ASSUME GateInv, NEW p \in Handlers, Trusted(p, handler[p].header),
         \/ ChatParsingJWT(<<handler[p].header>>, now) # None
         \/ UserParsingJWT(<<handler[p].header>>, now) # None
  PROVE  ValidFor(p, now)
<1> DEFINE h == handler[p].header
<1>1. ChatParsingJWT(<<h>>, now) # None => now < h.jwt.exp
  BY DEF ChatParsingJWT, ChatGetIdFromJWT1, Parses
<1>2. UserParsingJWT(<<h>>, now) # None => now < h.jwt.exp
  BY DEF UserParsingJWT, UserGetIdFromJWT1, Parses
<1> QED
  BY <1>1, <1>2 DEF ValidFor, Trusted

LEMMA UserUpdateUserStep ==
  ASSUME GateInv, NEW p \in Handlers, UserUpdateUser(p)
  PROVE  GateInv'
<1>1. handler[p].rpc.at = "service" /\ ~At(p, "authenticate")
  BY HandlerNames, NotAuthenticating DEF UserUpdateUser
<1>2. PICK msg : Reply(p, Svc!UpdateUserHandler, msg) \/ Refuse(p)
  BY DEF UserUpdateUser
<1>3. PICK c : /\ Become(p, c) /\ HandlerType(p, c) /\ CallShape(p, c)
               /\ c.pc # "idle" /\ c.header = handler[p].header /\ ~At(p, "idle")
  BY <1>1, <1>2, RepliedFacts, RefusedFacts
<1>4. handler[p].rpc.path[2] = "UpdateUser"
  BY HandlerNames DEF UserUpdateUser, Reached, Svc!Leads
<1>5. At(p, "call") /\ Route(p) \in Protected /\ handler[p].rpc.md = <<handler[p].header>>
  BY <1>1, <1>4, HandlerFacts, ZenonT(60) DEF CallShape, At, Route, Protected
<1>6. Trusted(p, handler[p].header)
  BY <1>5, TrustedOnTheWay DEF At
<1>7. UserParsingJWT(<<handler[p].header>>, now) \in Users
  BY <1>5 DEF UserUpdateUser, Metadata
<1>8. ValidFor(p, now)
  BY <1>6, <1>7, ParsedIsValid, GatewayAssumption
<1>9. /\ DOMAIN profile' = Users
      /\ \A x \in renames' \ renames : x.by = p /\ x.at = now
  BY StoresTyped DEF UserUpdateUser
<1>10. UNCHANGED <<now, isOnline, knownBefore, otp, saved, issued, handed>>
  BY DEF UserUpdateUser, authVars, chatVars
<1> QED
  BY <1>3, <1>8, <1>9, <1>10, StoresTyped, EffectStep

LEMMA AppendedCopies ==
  ASSUME NEW q, IsSequence(q), NEW x
  PROVE  /\ IsSequence(q \o <<x>>)
         /\ \A i \in DOMAIN (q \o <<x>>) : (q \o <<x>>)[i] = x
                                            \/ (i \in DOMAIN q /\ (q \o <<x>>)[i] = q[i])
<1> DEFINE S == {q[i] : i \in DOMAIN q}
           r == q \o <<x>>
<1>1. q \in Seq(S \cup {x}) /\ <<x>> \in Seq(S \cup {x})
  BY DEF IsSequence
<1> HIDE DEF S
<1>2. /\ r \in Seq(S \cup {x}) /\ Len(r) = Len(q) + 1 /\ Len(q) \in Nat
      /\ \A i \in 1 .. Len(r) : r[i] = IF i <= Len(q) THEN q[i] ELSE <<x>>[i - Len(q)]
  BY <1>1
<1>3. DOMAIN r = 1 .. Len(r) /\ DOMAIN q = 1 .. Len(q)
  BY <1>1, <1>2
<1> HIDE DEF r
<1>4. \A i \in DOMAIN r : r[i] = x \/ (i \in DOMAIN q /\ r[i] = q[i])
  <2> SUFFICES ASSUME NEW i \in 1 .. Len(r)
               PROVE  r[i] = x \/ (i \in 1 .. Len(q) /\ r[i] = q[i])
    BY <1>3
  <2>1. CASE i <= Len(q)
    BY <1>2, <2>1
  <2>2. CASE ~(i <= Len(q))
    <3>1. i - Len(q) = 1
      BY <1>2, <2>2
    <3>2. r[i] = <<x>>[1]
      BY <1>2, <2>2, <3>1
    <3> QED
      BY <3>2
  <2> QED
    BY <2>1, <2>2
<1>5. IsSequence(r)
  BY <1>2, <1>3 DEF IsSequence
<1> QED
  BY <1>4, <1>5 DEF r

LEMMA ChatSendMessageStep ==
  ASSUME GateInv, NEW p \in Handlers, ChatSendMessage(p)
  PROVE  GateInv'
<1>1. handler[p].rpc.at = "service" /\ ~At(p, "authenticate")
  BY HandlerNames, NotAuthenticating DEF ChatSendMessage
<1>2. PICK msg : Reply(p, Svc!SendMessageHandler, msg) \/ Refuse(p)
  BY DEF ChatSendMessage
<1>3. PICK c : /\ Become(p, c) /\ HandlerType(p, c) /\ CallShape(p, c)
               /\ c.pc # "idle" /\ c.header = handler[p].header /\ ~At(p, "idle")
  BY <1>1, <1>2, RepliedFacts, RefusedFacts
<1>4. handler[p].rpc.path[2] = "SendMessage"
  BY HandlerNames DEF ChatSendMessage, Reached, Svc!Leads
<1> DEFINE to == <<ToInt32(handler[p].ids[handler[p].next])>>
<1>5. /\ At(p, "forward") /\ handler[p].rpc.md = <<handler[p].header>>
      /\ handler[p].rpc.bytes = Gw!Encode(Gw!SendMessageRequest,
            [sender_id |-> 0, receiver_id |-> to, content |-> handler[p].content])
  BY <1>1, <1>4, HandlerFacts, ZenonT(60) DEF CallShape, At
<1>6. Trusted(p, handler[p].header)
  BY <1>5, HandlerFacts, ZenonT(60) DEF CallShape, At
<1> DEFINE req == Request(p, Svc!SendMessageHandler)
           u == ChatParsingJWT(Metadata(p), now)
           copy(i) == [frame |-> handler[p].frame, n |-> handler[p].next, sender |-> u,
                       receiver |-> req.receiver_id[i], content |-> req.content, at |-> now]
<1>7. req.receiver_id = to
  <2>1. req = Svc!Decode(Svc!SendMessageRequest, handler[p].rpc.bytes)
    BY HandlerNames DEF Request
  <2> HIDE DEF to
  <2> QED
    BY <1>5, <2>1, MessageDecoded
<1>8. u # None /\ handed' = [handed EXCEPT ![p] = @ \o [i \in DOMAIN req.receiver_id |-> copy(i)]]
  BY DEF ChatSendMessage
<1>9. ValidFor(p, now)
  BY <1>5, <1>6, <1>8, ParsedIsValid DEF Metadata
<1>10. [i \in DOMAIN req.receiver_id |-> copy(i)] = <<copy(1)>>
  <2>1. DOMAIN req.receiver_id = {1}
    BY <1>7
  <2> QED
    BY <2>1
<1>11. copy(1).at = now
  OBVIOUS
<1> HIDE DEF copy, req, u
<1>12. /\ handed' = [q \in Handlers |-> handed'[q]] /\ handed'[p] = handed[p] \o <<copy(1)>>
       /\ \A q \in Handlers \ {p} : handed'[q] = handed[q]
  BY <1>8, <1>10, StoresTyped
<1>13. /\ \A q \in Handlers : IsSequence(handed'[q])
       /\ \A i \in DOMAIN handed'[p] : handed'[p][i] = copy(1)
                                       \/ (i \in DOMAIN handed[p] /\ handed'[p][i] = handed[p][i])
  <2> DEFINE q == handed[p]
             x == copy(1)
  <2>1. IsSequence(q) /\ handed'[p] = q \o <<x>>
    BY <1>12, StoresTyped
  <2> HIDE DEF q, x
  <2>2. /\ IsSequence(handed'[p])
        /\ \A i \in DOMAIN handed'[p] : handed'[p][i] = x
                                        \/ (i \in DOMAIN q /\ handed'[p][i] = q[i])
    BY <2>1, AppendedCopies
  <2> QED
    BY <1>12, <2>2, StoresTyped DEF q, x
<1>14. \A i \in DOMAIN handed'[p] : ValidFor(p, handed'[p][i].at)
  BY <1>9, <1>11, <1>13, StoresTyped
<1>15. UNCHANGED <<now, isOnline, knownBefore, otp, saved, issued, profile, renames>>
  BY DEF ChatSendMessage, authVars, userVars
<1> QED
  BY <1>3, <1>12, <1>13, <1>14, <1>15, StoresTyped, EffectStep

-----------------------------------------------------------------------------
(* The beginning of a request, the clock, and the theorems.                *)

LEMMA ReceiveStep ==
  ASSUME GateInv, NEW p \in Handlers, Receive(p)
  PROVE  GateInv'
<1>1. PICK q \in Requests[p], h \in Headers :
        LET r == [Idle EXCEPT !.request = q, !.header = h] IN
          Become(p, IF q.route \notin Protected THEN [r EXCEPT !.pc = "handle"]
                    ELSE IF h = Empty THEN Answer(r, 401, Empty)
                    ELSE Call(r, "authenticate", Gw!VerifyToken, [token |-> h], <<>>))
  BY DEF Receive, Headers
<1>2. /\ At(p, "idle") /\ handed[p] = <<>> /\ \A x \in renames : x.by # p
  BY DEF Receive, GateInv, NothingBefore
<1>3. UNCHANGED <<now, otp, saved, issued, profile, isOnline, renames, handed, messages>>
  BY DEF Receive, authVars, userVars, chatVars
<1> DEFINE r == [Idle EXCEPT !.request = q, !.header = h]
<1>4. /\ DOMAIN r = DOMAIN Idle /\ r.request = q /\ r.header = h /\ r.frame = 0
      /\ r.rpc.at = "nowhere" /\ r.answer.status = 0
  BY DEF Idle, NoCall, NoAnswer
<1> HIDE DEF r
<1>5. PICK c : /\ Become(p, c) /\ HandlerType(p, c) /\ c.pc # "idle" /\ c.header = h
               /\ CallShape(p, c)'
  <2>1. CASE q.route \notin Protected
    <3> DEFINE c == [r EXCEPT !.pc = "handle"]
    <3>1. /\ DOMAIN c = DOMAIN Idle /\ c.pc = "handle" /\ c.request = q /\ c.header = h
          /\ c.frame = 0 /\ c.rpc.at = "nowhere" /\ c.answer.status = 0
      BY <1>4 DEF Idle
    <3>2. Become(p, c)
      BY <1>1, <2>1 DEF r
    <3> HIDE DEF c
    <3>3. HandlerType(p, c)
      BY <3>1, Constants DEF HandlerType
    <3>4. CallShape(p, c)'
      BY <2>1, <3>1 DEF CallShape
    <3> QED
      BY <3>1, <3>2, <3>3, <3>4
  <2>2. CASE q.route \in Protected /\ h = Empty
    <3> DEFINE c == Answer(r, 401, Empty)
    <3>1. /\ DOMAIN c = DOMAIN Idle /\ c.pc = "answered" /\ c.request = q /\ c.header = h
          /\ c.frame = 0 /\ c.rpc.at = "nowhere" /\ c.answer.status = 401
      BY <1>4, AnswerFacts
    <3>2. Become(p, c)
      BY <1>1, <2>2 DEF r
    <3> HIDE DEF c
    <3>3. HandlerType(p, c)
      BY <3>1, Constants DEF HandlerType
    <3>4. CallShape(p, c)'
      BY <3>1 DEF CallShape
    <3> QED
      BY <3>1, <3>2, <3>3, <3>4
  <2>3. CASE q.route \in Protected /\ h # Empty
    <3> DEFINE c == Call(r, "authenticate", Gw!VerifyToken, [token |-> h], <<>>)
    <3>1. /\ DOMAIN c = DOMAIN Idle /\ c.pc = "authenticate" /\ c.request = q /\ c.header = h
          /\ c.frame = 0 /\ c.rpc.at = "service" /\ c.answer.status = 0
          /\ c.rpc.path = Gw!VerifyToken.path
          /\ c.rpc.bytes = Gw!Encode(Gw!VerifyToken.in, [token |-> h])
      BY <1>4, CallFacts
    <3>2. Become(p, c)
      BY <1>1, <2>3 DEF r
    <3>3. Gw!VerifyToken.path[2] = "VerifyToken" /\ Gw!VerifyToken.in = Gw!TokenRequest
      BY DEF Gw!VerifyToken, Gw!Method
    <3> HIDE DEF c
    <3>4. HandlerType(p, c)
      BY <3>1, Constants DEF HandlerType
    <3>5. CallShape(p, c)'
      BY <3>1, <3>3 DEF CallShape
    <3> QED
      BY <3>1, <3>2, <3>4, <3>5
  <2> QED
    BY <2>1, <2>2, <2>3
<1>6. /\ handler = [x \in Handlers |-> handler[x]]
      /\ knownBefore = [x \in Handlers |-> knownBefore[x]]
      /\ \A x \in Handlers : HandlerType(x, handler[x]) /\ CallShape(x, handler[x])
  BY DEF GateInv, TypeOK
<1>7. /\ handler' = [x \in Handlers |-> handler'[x]] /\ handler'[p] = c
      /\ \A x \in Handlers \ {p} : handler'[x] = handler[x]
  BY <1>5, <1>6 DEF Become
<1>8. /\ knownBefore' = [x \in Handlers |-> knownBefore'[x]]
      /\ knownBefore'[p].revoked = {t \in issued : saved[t.id] # t /\ t.exp < now + JwtLife}
      /\ \A x \in Handlers \ {p} : knownBefore'[x] = knownBefore[x]
  BY <1>6 DEF Receive
<1>9. TypeOK'
  <2>1. \A x \in Handlers : HandlerType(x, handler'[x])
    BY <1>5, <1>6, <1>7
  <2>2. \A x \in Handlers : HandlerType(x, handler[x])'
    BY <1>3, <2>1 DEF HandlerType, Headers
  <2>3. handler' = [x \in Handlers |-> handler'[x]]
    BY <1>7
  <2> QED
    BY <1>3, <1>8, <2>2, <2>3 DEF GateInv, TypeOK, Jwts
<1>10. RevokedForGood'
  BY <1>3, <1>8 DEF GateInv, RevokedForGood
<1>11. \A x \in Handlers : CallShape(x, handler[x])'
  <2> SUFFICES ASSUME NEW x \in Handlers \ {p} PROVE CallShape(x, handler[x])'
    BY <1>5, <1>7, ZenonT(60) DEF CallShape, Trusted
  <2>1. CallShape(x, handler'[x])
    BY <1>6, <1>7
  <2> QED
    BY <1>8, <2>1 DEF CallShape, Trusted
<1>12. \A x \in Handlers : NothingBefore(x)'
  BY <1>3, <1>5, <1>7 DEF GateInv, NothingBefore, At
<1>13. NoEffectWithoutValidToken'
  <2>1. \A x \in Handlers \ {p} : \A t : ValidFor(x, t) => ValidFor(x, t)'
    BY <1>7, <1>8 DEF ValidFor
  <2>2. \A x \in Handlers : \A i \in DOMAIN handed[x] : ValidFor(x, handed[x][i].at)
    BY DEF GateInv, NoEffectWithoutValidToken
  <2>3. \A x \in renames : x.by \in Handlers \ {p} /\ ValidFor(x.by, x.at)
    BY <1>2 DEF GateInv, NoEffectWithoutValidToken
  <2>4. DOMAIN handed[p] = {}
    BY <1>2
  <2> QED
    BY <1>3, <2>1, <2>2, <2>3, <2>4 DEF NoEffectWithoutValidToken
<1> QED
  BY <1>3, <1>9, <1>10, <1>11, <1>12, <1>13 DEF GateInv

LEMMA TickStep ==
  ASSUME GateInv, Tick
  PROVE  GateInv'
<1>1. /\ now \in 0 .. MaxTime /\ now' = now + 1 /\ now' \in 0 .. MaxTime
      /\ \A t \in 0 .. now : t \in 0 .. now'
  BY StoresTyped, Constants DEF Tick
<1>2. UNCHANGED <<handler, otp, saved, issued, profile, isOnline, renames, handed, messages,
                  knownBefore>>
  BY DEF Tick, authVars, userVars, chatVars
<1>3. Jwts \subseteq Jwts'
  BY <1>1 DEF Jwts
<1>4. TypeOK'
  <2>1. \A q \in Handlers : HandlerType(q, handler[q])'
    BY <1>2 DEF GateInv, TypeOK, HandlerType, Headers
  <2> QED
    BY <1>1, <1>2, <1>3, <2>1 DEF GateInv, TypeOK
<1>5. RevokedForGood'
  <2> SUFFICES ASSUME NEW q \in Handlers, NEW t \in knownBefore[q].revoked
               PROVE  t \in issued /\ saved[t.id] # t /\ t.exp < now' + JwtLife
    BY <1>2 DEF RevokedForGood
  <2>1. t \in Jwts /\ t \in issued /\ saved[t.id] # t /\ t.exp < now + JwtLife
    BY StoresTyped
  <2>2. t.exp \in Int
    BY <1>1, <2>1, Constants DEF Jwts, CreateToken
  <2> QED
    BY <1>1, <2>1, <2>2, Constants
<1>6. /\ \A x \in renames' : x.by \in Handlers
      /\ \A q \in Handlers : CallShape(q, handler[q])' /\ NothingBefore(q)'
      /\ NoEffectWithoutValidToken'
  BY <1>2 DEF GateInv, CallShape, Trusted, NothingBefore, At, NoEffectWithoutValidToken, ValidFor
<1> QED
  BY <1>4, <1>5, <1>6 DEF GateInv

LEMMA InitInv == Init => GateInv
<1> SUFFICES ASSUME Init PROVE GateInv
  OBVIOUS
<1>1. TypeOK
  <2>1. \A u \in Users : saved[u] \in Jwts
    BY Constants DEF Init, Jwts
  <2>2. saved \in [Users -> Jwts \cup {None}] /\ issued \subseteq Jwts
    BY <2>1 DEF Init
  <2>3. \A p \in Handlers : HandlerType(p, handler[p])
    BY Constants DEF Init, HandlerType, Idle, Headers, NoCall, NoAnswer
  <2>4. \A p \in Handlers : IsSequence(handed[p])
    BY DEF Init, IsSequence
  <2> QED
    BY <2>2, <2>3, <2>4, GatewayAssumption DEF Init, TypeOK
<1>2. \A p \in Handlers : CallShape(p, handler[p])
  BY DEF Init, CallShape, Idle, NoCall
<1> QED
  BY <1>1, <1>2
  DEF Init, GateInv, RevokedForGood, NothingBefore, NoEffectWithoutValidToken

LEMMA InvStep == GateInv /\ [Next]_vars => GateInv'
<1> SUFFICES ASSUME GateInv, [Next]_vars PROVE GateInv'
  OBVIOUS
<1>1. ASSUME NEW p \in Handlers, Receive(p) PROVE GateInv'
  BY <1>1, ReceiveStep
<1>2. ASSUME NEW p \in Handlers, GatewayStep(p) PROVE GateInv'
  BY <1>2, AuthenticationStep, OneCallStep, RespondStep, SendStep, ForwardedStep, WsStep,
     FrameForwardedStep DEF GatewayStep
<1>3. ASSUME NEW p \in Handlers, SocketStep(p) PROVE GateInv'
  BY <1>3, ReadFrameStep, CloseSocketStep, OpenStreamStep, StreamDeliversStep DEF SocketStep
<1>4. ASSUME NEW p \in Handlers, QuickCall(p) PROVE GateInv'
  BY <1>4, AuthLoginStep, AuthVerifyOTPStep, AuthVerifyTokenStep, UserUpdateUserStep, ReadingStep
  DEF QuickCall
<1>5. ASSUME NEW p \in Handlers, ChatSendMessage(p) \/ CallFails(p) PROVE GateInv'
  BY <1>5, ChatSendMessageStep, CallFailsStep
<1>6. ASSUME UNCHANGED vars PROVE GateInv'
  <2>1. UNCHANGED <<now, handler, otp, saved, issued, profile, isOnline, renames, handed,
                    messages, knownBefore>>
    BY <1>6 DEF vars, authVars, userVars, chatVars
  <2>2. TypeOK'
    BY <2>1 DEF GateInv, TypeOK, HandlerType, Headers, Jwts
  <2> QED
    BY <2>1, <2>2 DEF GateInv, RevokedForGood, CallShape, Trusted, NothingBefore, At,
                      NoEffectWithoutValidToken, ValidFor
<1> QED
  BY <1>1, <1>2, <1>3, <1>4, <1>5, <1>6, TickStep DEF Next

\* The gateway asks about every token it passes on, of whichever route and however
\* the requests, the services' answers and failures, new tokens and the clock
\* interleave: a handler past the middleware holds a token that was on record when
\* the auth service answered, and its calls carry this token and no other.
THEOREM TokensFollowed == Spec => []GateInv
BY InitInv, InvStep, PTL DEF Spec

\* No message is handed over and nobody renamed by a token that had expired by then,
\* or that had been replaced when the request came in: middleware, metadata and the
\* services' own parsing together leave no way around.
THEOREM ValidTokensOnly == Spec => []NoEffectWithoutValidToken
<1>1. GateInv => NoEffectWithoutValidToken
  BY DEF GateInv
<1> QED
  BY <1>1, TokensFollowed, PTL

=============================================================================
