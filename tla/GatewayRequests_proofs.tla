---------------------- MODULE GatewayRequests_proofs ----------------------
(* Theorems about what Gateway's requests do and what they are told, for   *)
(* every value of its constants.                                           *)
EXTENDS Gateway_proofs, FiniteSetTheorems, SequenceTheorems

-----------------------------------------------------------------------------
(* Both copies of the generated code write and read in the same way.       *)

LEMMA SameFlat ==
  ASSUME NEW F, NEW x
  PROVE  Svc!EncodeFlat(F, x) = Gw!EncodeFlat(F, x) /\ Svc!DecodeFlat(F, x) = Gw!DecodeFlat(F, x)
<1>1. \A k : Gw!Zero(k) = Svc!Zero(k) /\ Gw!WireType(k) = Svc!WireType(k)
  BY DEF Gw!Zero, Svc!Zero, Gw!WireType, Svc!WireType
<1>2. \A n : Gw!Numbered(F, n) = Svc!Numbered(F, n) /\ Gw!Named(F, n) = Svc!Named(F, n)
  BY DEF Gw!Numbered, Svc!Numbered, Gw!Named, Svc!Named
<1>3. Gw!Names(F) = Svc!Names(F) /\ Gw!Numbers(F) = Svc!Numbers(F)
  BY DEF Gw!Names, Svc!Names, Gw!Numbers, Svc!Numbers
<1>4. Svc!EncodeFlat(F, x) = Gw!EncodeFlat(F, x)
  BY <1>1, <1>2, <1>3 DEF Gw!EncodeFlat, Svc!EncodeFlat
<1>5. Svc!DecodeFlat(F, x) = Gw!DecodeFlat(F, x)
  BY <1>1, <1>2, <1>3 DEF Gw!DecodeFlat, Svc!DecodeFlat
<1> QED
  BY <1>4, <1>5

LEMMA SameFormat ==
  ASSUME NEW F, NEW x
  PROVE  Svc!Encode(F, x) = Gw!Encode(F, x) /\ Svc!Decode(F, x) = Gw!Decode(F, x)
<1>1. \A s : Gw!Named(F, s) = Svc!Named(F, s) /\ (Gw!Inner(F, s) <=> Svc!Inner(F, s))
  BY DEF Gw!Named, Svc!Named, Gw!Inner, Svc!Inner
<1>2. Gw!Names(F) = Svc!Names(F)
  BY DEF Gw!Names, Svc!Names
<1>3. \A G, y : Svc!EncodeFlat(G, y) = Gw!EncodeFlat(G, y)
                /\ Svc!DecodeFlat(G, y) = Gw!DecodeFlat(G, y)
  BY SameFlat
<1>4. Svc!Encode(F, x) = Gw!Encode(F, x)
  BY <1>1, <1>2, <1>3 DEF Gw!Encode, Svc!Encode
<1>5. Svc!Decode(F, x) = Gw!Decode(F, x)
  BY <1>1, <1>2, <1>3 DEF Gw!Decode, Svc!Decode
<1> QED
  BY <1>4, <1>5

\* The fields of a message have numbers and names of their own.
Distinct(F) == /\ \A f, g \in F : f.num = g.num => f = g
               /\ \A f, g \in F : f.name = g.name => f = g

LEMMA FlatTrip ==
  ASSUME NEW F, Distinct(F), NEW msg, NEW f \in F
  PROVE  Gw!DecodeFlat(F, Gw!EncodeFlat(F, msg))[f.name] = msg[f.name]
<1>1. Gw!Numbered(F, f.num) = f /\ Gw!Named(F, f.name) = f
  BY DEF Gw!Numbered, Gw!Named, Distinct
<1>2. f.name \in Gw!Names(F) /\ f.num \in Gw!Numbers(F)
  BY DEF Gw!Names, Gw!Numbers
<1> DEFINE bytes == Gw!EncodeFlat(F, msg)
<1>3. /\ f.num \in DOMAIN bytes <=> msg[f.name] # Gw!Zero(f.kind)
      /\ f.num \in DOMAIN bytes =>
           bytes[f.num].type = Gw!WireType(f.kind) /\ bytes[f.num].value = msg[f.name]
  BY <1>1, <1>2 DEF Gw!EncodeFlat
<1> HIDE DEF bytes
<1>4. Gw!DecodeFlat(F, bytes)[f.name] = msg[f.name]
  BY <1>1, <1>2, <1>3 DEF Gw!DecodeFlat
<1> QED
  BY <1>4 DEF bytes

\* What is decoded is what was encoded: a field without messages in it, and the
\* fields of the messages in a field.
LEMMA FieldTrip ==
  ASSUME NEW F, Distinct(F), NEW msg, NEW f \in F, f.kind \notin {"message", "messages"}
  PROVE  Gw!Decode(F, Gw!Encode(F, msg))[f.name] = msg[f.name]
<1> DEFINE flat == [s \in Gw!Names(F) |->
                      IF Gw!Inner(F, s)
                      THEN [i \in DOMAIN msg[s] |-> Gw!EncodeFlat(Gw!Named(F, s).of, msg[s][i])]
                      ELSE msg[s]]
<1>1. f.name \in Gw!Names(F) /\ ~Gw!Inner(F, f.name)
  BY DEF Gw!Names, Gw!Inner, Gw!Named, Distinct
<1>2. flat[f.name] = msg[f.name]
  BY <1>1
<1> HIDE DEF flat
<1>3. Gw!DecodeFlat(F, Gw!EncodeFlat(F, flat))[f.name] = msg[f.name]
  BY <1>2, FlatTrip
<1>4. Gw!Decode(F, Gw!EncodeFlat(F, flat))[f.name] = msg[f.name]
  BY <1>1, <1>3 DEF Gw!Decode
<1> QED
  BY <1>4 DEF Gw!Encode, flat

LEMMA InnerTrip ==
  ASSUME NEW F, Distinct(F), NEW msg, NEW f \in F, f.kind = "messages", Distinct(f.of),
         NEW rows, rows = msg[f.name],
         NEW got, got = Gw!Decode(F, Gw!Encode(F, msg))[f.name]
  PROVE  /\ got = [i \in DOMAIN rows |-> got[i]]
         /\ \A i \in DOMAIN rows : \A g \in f.of : got[i][g.name] = rows[i][g.name]
<1> DEFINE flat == [s \in Gw!Names(F) |->
                      IF Gw!Inner(F, s)
                      THEN [i \in DOMAIN msg[s] |-> Gw!EncodeFlat(Gw!Named(F, s).of, msg[s][i])]
                      ELSE msg[s]]
<1>1. f.name \in Gw!Names(F) /\ Gw!Inner(F, f.name) /\ Gw!Named(F, f.name) = f
  BY DEF Gw!Names, Gw!Inner, Gw!Named, Distinct
<1>2. flat[f.name] = [i \in DOMAIN rows |-> Gw!EncodeFlat(f.of, rows[i])]
  BY <1>1
<1> HIDE DEF flat
<1>3. Gw!DecodeFlat(F, Gw!EncodeFlat(F, flat))[f.name] = flat[f.name]
  BY FlatTrip
<1>4. Gw!Decode(F, Gw!EncodeFlat(F, flat))[f.name]
        = [i \in DOMAIN flat[f.name] |-> Gw!DecodeFlat(f.of, flat[f.name][i])]
  BY <1>1, <1>3 DEF Gw!Decode
<1>5. got = [i \in DOMAIN flat[f.name] |-> Gw!DecodeFlat(f.of, flat[f.name][i])]
  BY <1>4 DEF Gw!Encode, flat
<1>6. got = [i \in DOMAIN rows |-> Gw!DecodeFlat(f.of, Gw!EncodeFlat(f.of, rows[i]))]
  BY <1>2, <1>5
<1>7. \A i \in DOMAIN rows : \A g \in f.of : got[i][g.name] = rows[i][g.name]
  BY <1>6, FlatTrip
<1> QED
  BY <1>6, <1>7

-----------------------------------------------------------------------------
(* The messages.                                                           *)

Flat(f) == f.kind \notin {"message", "messages"}

LEMMA TripOne ==
  ASSUME NEW f, Flat(f), NEW msg,
         NEW got, got = Svc!Decode({f}, Gw!Encode({f}, msg)) \/ got = Gw!Decode({f}, Svc!Encode({f}, msg))
  PROVE  got[f.name] = msg[f.name]
<1>1. got = Gw!Decode({f}, Gw!Encode({f}, msg))
  BY SameFormat
<1>2. Distinct({f})
  BY DEF Distinct
<1> QED
  BY <1>1, <1>2, FieldTrip DEF Flat

LEMMA TripTwo ==
  ASSUME NEW f, NEW g, f.num # g.num, f.name # g.name, Flat(f), Flat(g),
         NEW F, F = {f, g}, NEW msg, NEW got, got = Svc!Decode(F, Gw!Encode(F, msg))
  PROVE  got[f.name] = msg[f.name] /\ got[g.name] = msg[g.name]
<1>1. got = Gw!Decode(F, Gw!Encode(F, msg))
  BY SameFormat
<1>2. Distinct(F) /\ f \in F /\ g \in F
  BY DEF Distinct
<1>3. got[f.name] = msg[f.name]
  BY <1>1, <1>2, FieldTrip DEF Flat
<1>4. got[g.name] = msg[g.name]
  BY <1>1, <1>2, FieldTrip DEF Flat
<1> QED
  BY <1>3, <1>4

LEMMA TripThree ==
  ASSUME NEW f, NEW g, NEW h, f.num # g.num, f.num # h.num, g.num # h.num,
         f.name # g.name, f.name # h.name, g.name # h.name, Flat(f), Flat(g), Flat(h),
         NEW F, F = {f, g, h}, NEW msg,
         NEW got, \/ got = Svc!Decode(F, Gw!Encode(F, msg))
                  \/ got = Gw!Decode(F, Svc!Encode(F, msg))
  PROVE  got[f.name] = msg[f.name] /\ got[g.name] = msg[g.name] /\ got[h.name] = msg[h.name]
<1>1. got = Gw!Decode(F, Gw!Encode(F, msg))
  BY SameFormat
<1>2. f \in F /\ g \in F /\ h \in F /\ \A x \in F : x = f \/ x = g \/ x = h
  OBVIOUS
<1>3. Distinct(F)
  <2>1. \A x, y \in F : x.num = y.num => x = y
    BY <1>2
  <2>2. \A x, y \in F : x.name = y.name => x = y
    BY <1>2
  <2> QED
    BY <2>1, <2>2 DEF Distinct
<1>4. got[f.name] = msg[f.name]
  BY <1>1, <1>2, <1>3, FieldTrip DEF Flat
<1>5. got[g.name] = msg[g.name]
  BY <1>1, <1>2, <1>3, FieldTrip DEF Flat
<1>6. got[h.name] = msg[h.name]
  BY <1>1, <1>2, <1>3, FieldTrip DEF Flat
<1> QED
  BY <1>4, <1>5, <1>6

LEMMA Schemas ==
  /\ Svc!TokenRequest = Gw!TokenRequest /\ Svc!TokenResponse = Gw!TokenResponse
  /\ Svc!OTPRequest = Gw!OTPRequest /\ Svc!AuthResponse = Gw!AuthResponse
  /\ Svc!UpdateUserRequest = Gw!UpdateUserRequest /\ Svc!UsersList = Gw!UsersList
  /\ Svc!SendMessageRequest = Gw!SendMessageRequest
  /\ Svc!StreamMessagesResponse = Gw!StreamMessagesResponse
  /\ Svc!ListMessageResponse = Gw!ListMessageResponse
  /\ Svc!ListMessageBySenderRequest = Gw!ListMessageBySenderRequest
  /\ Svc!ListMessageBySenderResponse = Gw!ListMessageBySenderResponse
BY DEF Svc!TokenRequest, Gw!TokenRequest, Svc!TokenResponse, Gw!TokenResponse, Svc!OTPRequest,
       Gw!OTPRequest, Svc!AuthUser, Gw!AuthUser, Svc!AuthResponse, Gw!AuthResponse,
       Svc!UpdateUserRequest, Gw!UpdateUserRequest, Svc!User, Gw!User, Svc!UsersList,
       Gw!UsersList, Svc!SendMessageRequest, Gw!SendMessageRequest,
       Svc!StreamMessagesResponse, Gw!StreamMessagesResponse, Svc!Message, Gw!Message,
       Svc!ListMessageResponse, Gw!ListMessageResponse, Svc!ListMessageBySenderRequest,
       Gw!ListMessageBySenderRequest, Svc!Messages, Gw!Messages,
       Svc!ListMessageBySenderResponse, Gw!ListMessageBySenderResponse,
       Svc!Field, Gw!Field, Svc!Nested, Gw!Nested

LEMMA OTPTrip ==
  ASSUME NEW x, NEW y,
         NEW got, got = Svc!Decode(Svc!OTPRequest,
                    Gw!Encode(Gw!OTPRequest, [email |-> x, code |-> y]))
  PROVE  got.email = x /\ got.code = y
<1> DEFINE f == Gw!Field(1, "email", "string")
           g == Gw!Field(2, "code", "string")
           msg == [email |-> x, code |-> y]
<1>1. Gw!OTPRequest = {f, g}
  BY DEF Gw!OTPRequest
<1>2. /\ f.num = 1 /\ f.name = "email" /\ f.kind = "string"
      /\ g.num = 2 /\ g.name = "code" /\ g.kind = "string"
      /\ f.num # g.num
  BY DEF Gw!Field
<1>3. msg["email"] = x /\ msg["code"] = y
  OBVIOUS
<1> HIDE DEF f, g, msg
<1>4. Flat(f) /\ Flat(g) /\ f.name # g.name
  BY <1>2 DEF Flat
<1>5. got = Svc!Decode({f, g}, Gw!Encode({f, g}, msg))
  BY <1>1, Schemas DEF msg
<1>6. got[f.name] = msg[f.name] /\ got[g.name] = msg[g.name]
  BY <1>2, <1>4, <1>5, TripTwo
<1> QED
  BY <1>2, <1>3, <1>6

LEMMA UpdateTrip ==
  ASSUME NEW x, NEW y, NEW z,
         NEW got, got = Svc!Decode(Svc!UpdateUserRequest,
                    Gw!Encode(Gw!UpdateUserRequest, [id |-> x, first_name |-> y, last_name |-> z]))
  PROVE  got.id = x /\ got.first_name = y /\ got.last_name = z
<1> DEFINE f == Gw!Field(1, "id", "int32")
           g == Gw!Field(3, "first_name", "string")
           h == Gw!Field(4, "last_name", "string")
           msg == [id |-> x, first_name |-> y, last_name |-> z]
<1>1. Gw!UpdateUserRequest = {f, g, h}
  BY DEF Gw!UpdateUserRequest
<1>2. /\ f.num = 1 /\ f.name = "id" /\ f.kind = "int32"
      /\ g.num = 3 /\ g.name = "first_name" /\ g.kind = "string"
      /\ h.num = 4 /\ h.name = "last_name" /\ h.kind = "string"
      /\ f.num # g.num /\ f.num # h.num /\ g.num # h.num
  BY DEF Gw!Field
<1>3. msg["id"] = x /\ msg["first_name"] = y /\ msg["last_name"] = z
  OBVIOUS
<1> HIDE DEF f, g, h, msg
<1>4. /\ Flat(f) /\ Flat(g) /\ Flat(h)
      /\ f.name # g.name /\ f.name # h.name /\ g.name # h.name
      /\ f.num # g.num /\ f.num # h.num /\ g.num # h.num
  BY <1>2 DEF Flat
<1>5. got = Svc!Decode({f, g, h}, Gw!Encode({f, g, h}, msg))
  BY <1>1, Schemas DEF msg
<1>6. got[f.name] = msg[f.name] /\ got[g.name] = msg[g.name] /\ got[h.name] = msg[h.name]
  BY <1>4, <1>5, TripThree
<1> QED
  BY <1>2, <1>3, <1>6

LEMMA SendTrip ==
  ASSUME NEW x, NEW y, NEW z,
         NEW got, got = Svc!Decode(Svc!SendMessageRequest,
                    Gw!Encode(Gw!SendMessageRequest, [sender_id |-> x, receiver_id |-> y, content |-> z]))
  PROVE  got.sender_id = x /\ got.receiver_id = y /\ got.content = z
<1> DEFINE f == Gw!Field(1, "sender_id", "int32")
           g == Gw!Field(2, "receiver_id", "repeated int32")
           h == Gw!Field(4, "content", "string")
           msg == [sender_id |-> x, receiver_id |-> y, content |-> z]
<1>1. Gw!SendMessageRequest = {f, g, h}
  BY DEF Gw!SendMessageRequest
<1>2. /\ f.num = 1 /\ f.name = "sender_id" /\ f.kind = "int32"
      /\ g.num = 2 /\ g.name = "receiver_id" /\ g.kind = "repeated int32"
      /\ h.num = 4 /\ h.name = "content" /\ h.kind = "string"
      /\ f.num # g.num /\ f.num # h.num /\ g.num # h.num
  BY DEF Gw!Field
<1>3. msg["sender_id"] = x /\ msg["receiver_id"] = y /\ msg["content"] = z
  OBVIOUS
<1> HIDE DEF f, g, h, msg
<1>4. /\ Flat(f) /\ Flat(g) /\ Flat(h)
      /\ f.name # g.name /\ f.name # h.name /\ g.name # h.name
      /\ f.num # g.num /\ f.num # h.num /\ g.num # h.num
  BY <1>2 DEF Flat
<1>5. got = Svc!Decode({f, g, h}, Gw!Encode({f, g, h}, msg))
  BY <1>1, Schemas DEF msg
<1>6. got[f.name] = msg[f.name] /\ got[g.name] = msg[g.name] /\ got[h.name] = msg[h.name]
  BY <1>4, <1>5, TripThree
<1> QED
  BY <1>2, <1>3, <1>6

LEMMA SenderTrip ==
  ASSUME NEW x,
         NEW got, got = Svc!Decode(Svc!ListMessageBySenderRequest,
                    Gw!Encode(Gw!ListMessageBySenderRequest, [sender_id |-> x]))
  PROVE  got.sender_id = x
<1> DEFINE f == Gw!Field(1, "sender_id", "int32")
           msg == [sender_id |-> x]
<1>1. Gw!ListMessageBySenderRequest = {f}
  BY DEF Gw!ListMessageBySenderRequest
<1>2. f.num = 1 /\ f.name = "sender_id" /\ f.kind = "int32"
  BY DEF Gw!Field
<1>3. msg["sender_id"] = x
  OBVIOUS
<1> HIDE DEF f, msg
<1>4. Flat(f)
  BY <1>2 DEF Flat
<1>5. got = Svc!Decode({f}, Gw!Encode({f}, msg))
  BY <1>1, Schemas DEF msg
<1>6. got[f.name] = msg[f.name]
  BY <1>2, <1>4, <1>5, TripOne
<1> QED
  BY <1>2, <1>3, <1>6

LEMMA AddressTrip ==
  ASSUME NEW x,
         NEW got, got = Gw!Decode(Gw!TokenResponse,
                    Svc!Encode(Svc!TokenResponse, [user_email |-> x]))
  PROVE  got.user_email = x
<1> DEFINE f == Gw!Field(1, "user_email", "string")
           msg == [user_email |-> x]
<1>1. Gw!TokenResponse = {f}
  BY DEF Gw!TokenResponse
<1>2. f.num = 1 /\ f.name = "user_email" /\ f.kind = "string"
  BY DEF Gw!Field
<1>3. msg["user_email"] = x
  OBVIOUS
<1> HIDE DEF f, msg
<1>4. Flat(f)
  BY <1>2 DEF Flat
<1>5. got = Gw!Decode({f}, Svc!Encode({f}, msg))
  BY <1>1, Schemas DEF msg
<1>6. got[f.name] = msg[f.name]
  BY <1>2, <1>4, <1>5, TripOne
<1> QED
  BY <1>2, <1>3, <1>6

LEMMA StreamTrip ==
  ASSUME NEW x, NEW y, NEW z,
         NEW got, got = Gw!Decode(Gw!StreamMessagesResponse,
                    Svc!Encode(Svc!StreamMessagesResponse, [sender_id |-> x, content |-> y, timestamp |-> z]))
  PROVE  got.sender_id = x /\ got.content = y /\ got.timestamp = z
<1> DEFINE f == Gw!Field(1, "sender_id", "int32")
           g == Gw!Field(3, "content", "string")
           h == Gw!Field(4, "timestamp", "string")
           msg == [sender_id |-> x, content |-> y, timestamp |-> z]
<1>1. Gw!StreamMessagesResponse = {f, g, h}
  BY DEF Gw!StreamMessagesResponse
<1>2. /\ f.num = 1 /\ f.name = "sender_id" /\ f.kind = "int32"
      /\ g.num = 3 /\ g.name = "content" /\ g.kind = "string"
      /\ h.num = 4 /\ h.name = "timestamp" /\ h.kind = "string"
      /\ f.num # g.num /\ f.num # h.num /\ g.num # h.num
  BY DEF Gw!Field
<1>3. msg["sender_id"] = x /\ msg["content"] = y /\ msg["timestamp"] = z
  OBVIOUS
<1> HIDE DEF f, g, h, msg
<1>4. /\ Flat(f) /\ Flat(g) /\ Flat(h)
      /\ f.name # g.name /\ f.name # h.name /\ g.name # h.name
      /\ f.num # g.num /\ f.num # h.num /\ g.num # h.num
  BY <1>2 DEF Flat
<1>5. got = Gw!Decode({f, g, h}, Svc!Encode({f, g, h}, msg))
  BY <1>1, Schemas DEF msg
<1>6. got[f.name] = msg[f.name] /\ got[g.name] = msg[g.name] /\ got[h.name] = msg[h.name]
  BY <1>4, <1>5, TripThree
<1> QED
  BY <1>2, <1>3, <1>6

LEMMA DistinctThree ==
  ASSUME NEW f, NEW g, NEW h, f.num # g.num, f.num # h.num, g.num # h.num,
         f.name # g.name, f.name # h.name, g.name # h.name
  PROVE  Distinct({f, g, h})
<1> DEFINE F == {f, g, h}
<1>1. \A x \in F : x = f \/ x = g \/ x = h
  OBVIOUS
<1> HIDE DEF F
<1>2. \A x, y \in F : x.num = y.num => x = y
  BY <1>1
<1>3. \A x, y \in F : x.name = y.name => x = y
  BY <1>1
<1> QED
  BY <1>2, <1>3 DEF Distinct, F

LEMMA AuthTrip ==
  ASSUME NEW x, NEW y, NEW z,
         NEW got, got = Gw!Decode(Gw!AuthResponse,
                          Svc!Encode(Svc!AuthResponse, [message |-> x, user |-> y, token |-> z]))
  PROVE  got.token = z
<1> DEFINE f == Gw!Field(1, "message", "string")
           g == Gw!Nested(2, "user", "message", Gw!AuthUser)
           h == Gw!Field(3, "token", "string")
           F == {f, g, h}
           msg == [message |-> x, user |-> y, token |-> z]
<1>1. Gw!AuthResponse = F
  BY DEF Gw!AuthResponse
<1>2. /\ f.num = 1 /\ f.name = "message" /\ g.num = 2 /\ g.name = "user"
      /\ h.num = 3 /\ h.name = "token" /\ h.kind = "string"
      /\ f.num # g.num /\ f.num # h.num /\ g.num # h.num
  BY DEF Gw!Field, Gw!Nested
<1>3. msg["token"] = z
  OBVIOUS
<1>4. got = Gw!Decode(F, Gw!Encode(F, msg))
  BY <1>1, Schemas, SameFormat
<1> HIDE DEF f, g, h, msg
<1>5. f.name # g.name /\ f.name # h.name /\ g.name # h.name /\ f.num # g.num /\ f.num # h.num
      /\ g.num # h.num
  BY <1>2
<1>6. Distinct(F) /\ h \in F
  BY <1>5, DistinctThree
<1> HIDE DEF F
<1>7. got[h.name] = msg[h.name]
  BY <1>2, <1>4, <1>6, FieldTrip
<1> QED
  BY <1>2, <1>3, <1>7

LEMMA DistinctUser == Distinct(Gw!User)
<1> DEFINE a == Gw!Field(1, "id", "int32")
           b == Gw!Field(2, "email", "string")
           c == Gw!Field(3, "first_name", "string")
           d == Gw!Field(4, "last_name", "string")
           e == Gw!Field(5, "is_online", "bool")
           F == {a, b, c, d, e}
<1>1. Gw!User = F
  BY DEF Gw!User
<1>2. /\ a.num = 1 /\ b.num = 2 /\ c.num = 3 /\ d.num = 4 /\ e.num = 5
      /\ a.name = "id" /\ b.name = "email" /\ c.name = "first_name" /\ d.name = "last_name"
      /\ e.name = "is_online"
  BY DEF Gw!Field
<1>3. \A x \in F : x = a \/ x = b \/ x = c \/ x = d \/ x = e
  OBVIOUS
<1> HIDE DEF a, b, c, d, e, F
<1>4. \A x, y \in F : x.num = y.num => x = y
  BY <1>2, <1>3
<1>5. \A x, y \in F : x.name = y.name => x = y
  BY <1>2, <1>3
<1> QED
  BY <1>1, <1>4, <1>5 DEF Distinct

LEMMA UsersTrip ==
  ASSUME NEW rows, NEW got,
         got = Gw!Decode(Gw!UsersList, Svc!Encode(Svc!UsersList, [users |-> rows]))
  PROVE  /\ DOMAIN got.users = DOMAIN rows
         /\ \A i \in DOMAIN rows :
              /\ got.users[i].id = rows[i].id /\ got.users[i].email = rows[i].email
              /\ got.users[i].first_name = rows[i].first_name
              /\ got.users[i].last_name = rows[i].last_name
<1> DEFINE f == Gw!Nested(1, "users", "messages", Gw!User)
           F == {f}
           msg == [users |-> rows]
<1>1. Gw!UsersList = F /\ f.name = "users" /\ f.kind = "messages" /\ f.of = Gw!User
  BY DEF Gw!UsersList, Gw!Nested
<1>2. Distinct(F) /\ f \in F
  BY DEF Distinct
<1>3. msg["users"] = rows
  OBVIOUS
<1>4. got = Gw!Decode(F, Gw!Encode(F, msg))
  BY <1>1, Schemas, SameFormat
<1> HIDE DEF f, F, msg
<1> DEFINE list == got[f.name]
<1>5. list = Gw!Decode(F, Gw!Encode(F, msg))[f.name] /\ rows = msg[f.name]
  BY <1>1, <1>3, <1>4
<1> HIDE DEF list
<1>6. /\ list = [i \in DOMAIN rows |-> list[i]]
      /\ \A i \in DOMAIN rows : \A g \in f.of : list[i][g.name] = rows[i][g.name]
  <2>1. Distinct(f.of) /\ f.kind = "messages"
    BY <1>1, DistinctUser
  <2>2. list = [i \in DOMAIN rows |-> list[i]]
    BY <1>2, <1>5, <2>1, InnerTrip
  <2>3. ASSUME NEW i \in DOMAIN rows, NEW g \in f.of
        PROVE  list[i][g.name] = rows[i][g.name]
    BY <1>2, <1>5, <2>1, InnerTrip
  <2> QED
    BY <2>2, <2>3
<1>7. /\ got.users = [i \in DOMAIN rows |-> got.users[i]]
      /\ \A i \in DOMAIN rows : \A g \in Gw!User : got.users[i][g.name] = rows[i][g.name]
  BY <1>1, <1>6 DEF list
<1>8. \E a, b, c, d \in Gw!User : /\ a.name = "id" /\ b.name = "email"
                                  /\ c.name = "first_name" /\ d.name = "last_name"
  BY DEF Gw!User, Gw!Field
<1> QED
  BY <1>7, <1>8

LEMMA OverviewTrip ==
  ASSUME NEW rows, NEW got,
         got = Gw!Decode(Gw!ListMessageResponse,
                 Svc!Encode(Svc!ListMessageResponse, [messages |-> rows]))
  PROVE  got.messages = [i \in DOMAIN rows |-> got.messages[i]]
<1> DEFINE f == Gw!Nested(1, "messages", "messages", Gw!Message)
           F == {f}
           msg == [messages |-> rows]
<1>1. Gw!ListMessageResponse = F /\ f.name = "messages" /\ f.kind = "messages"
      /\ f.of = Gw!Message
  BY DEF Gw!ListMessageResponse, Gw!Nested
<1>2. Distinct(F) /\ f \in F
  BY DEF Distinct
<1>3. Distinct(Gw!Message)
  <2>1. Gw!Field(2, "sender", "string").num = 2 /\ Gw!Field(3, "message", "string").num = 3
        /\ Gw!Field(2, "sender", "string").name = "sender"
        /\ Gw!Field(3, "message", "string").name = "message"
    BY DEF Gw!Field
  <2> QED
    BY <2>1 DEF Distinct, Gw!Message
<1>4. msg["messages"] = rows
  OBVIOUS
<1>5. got = Gw!Decode(F, Gw!Encode(F, msg))
  BY <1>1, Schemas, SameFormat
<1> HIDE DEF f, F, msg
<1> DEFINE list == got[f.name]
<1>6. list = Gw!Decode(F, Gw!Encode(F, msg))[f.name] /\ rows = msg[f.name]
  BY <1>1, <1>4, <1>5
<1> HIDE DEF list
<1>7. list = [i \in DOMAIN rows |-> list[i]]
  BY <1>1, <1>2, <1>3, <1>6, InnerTrip
<1> QED
  BY <1>1, <1>7 DEF list

LEMMA ListingTrip ==
  ASSUME NEW name, NEW rows, NEW got,
         got = Gw!Decode(Gw!ListMessageBySenderResponse,
                 Svc!Encode(Svc!ListMessageBySenderResponse,
                            [sender_name |-> name, messages |-> rows]))
  PROVE  /\ DOMAIN got.messages = DOMAIN rows
         /\ \A i \in DOMAIN rows : got.messages[i].message = rows[i].message
<1> DEFINE e == Gw!Field(1, "sender_name", "string")
           f == Gw!Nested(2, "messages", "messages", Gw!Messages)
           F == {e, f}
           msg == [sender_name |-> name, messages |-> rows]
<1>1. Gw!ListMessageBySenderResponse = F /\ f.name = "messages" /\ f.kind = "messages"
      /\ f.of = Gw!Messages
  BY DEF Gw!ListMessageBySenderResponse, Gw!Nested
<1>2. e.num = 1 /\ f.num = 2 /\ e.name = "sender_name"
  BY DEF Gw!Field, Gw!Nested
<1>3. msg["messages"] = rows
  OBVIOUS
<1>4. got = Gw!Decode(F, Gw!Encode(F, msg))
  BY <1>1, Schemas, SameFormat
<1>5. Distinct(Gw!Messages) /\ \E g \in Gw!Messages : g.name = "message"
  BY DEF Distinct, Gw!Messages, Gw!Field
<1>6. \A x \in F : x = e \/ x = f
  OBVIOUS
<1>7. f \in F
  OBVIOUS
<1> HIDE DEF e, f, F, msg
<1>8. Distinct(F)
  BY <1>1, <1>2, <1>6 DEF Distinct
<1> DEFINE list == got[f.name]
<1>9. list = Gw!Decode(F, Gw!Encode(F, msg))[f.name] /\ rows = msg[f.name]
  BY <1>1, <1>3, <1>4
<1> HIDE DEF list
<1>10. /\ list = [i \in DOMAIN rows |-> list[i]]
       /\ \A i \in DOMAIN rows : \A g \in f.of : list[i][g.name] = rows[i][g.name]
  <2>1. Distinct(f.of)
    BY <1>1, <1>5
  <2>2. list = [i \in DOMAIN rows |-> list[i]]
    BY ONLY <1>1, <1>7, <1>8, <1>9, <2>1, InnerTrip, SMTT(30)
  <2>3. \A i \in DOMAIN rows : \A g \in f.of : list[i][g.name] = rows[i][g.name]
    BY ONLY <1>1, <1>7, <1>8, <1>9, <2>1, InnerTrip, SMTT(30)
  <2> QED
    BY <2>2, <2>3
<1> QED
  BY <1>1, <1>5, <1>10 DEF list

-----------------------------------------------------------------------------
(* Numbers, lists and sequences.                                           *)

LEMMA ToInt32Kept ==
  ASSUME NEW x \in Int32
  PROVE  ToInt32(x) = x
<1>1. Half \in Nat \ {0}
  BY WidthAssumption
<1> HIDE DEF Half
<1> QED
  BY <1>1 DEF Int32, ToInt32

LEMMA SequenceFacts ==
  ASSUME NEW q, IsSequence(q)
  PROVE  Len(q) \in Nat /\ DOMAIN q = 1 .. Len(q)
BY DEF IsSequence

LEMMA AppendedOne ==
  ASSUME NEW q, IsSequence(q), NEW x
  PROVE  /\ IsSequence(Append(q, x)) /\ Len(q) \in Nat
         /\ DOMAIN q = 1 .. Len(q) /\ DOMAIN Append(q, x) = 1 .. Len(q) + 1
         /\ Append(q, x)[Len(q) + 1] = x /\ \A i \in DOMAIN q : Append(q, x)[i] = q[i]
<1> DEFINE S == {q[i] : i \in DOMAIN q}
           T == S \cup {x}
           r == Append(q, x)
<1>1. q \in Seq(T) /\ x \in T
  BY DEF IsSequence
<1> HIDE DEF S, T
<1>2. /\ r \in Seq(T) /\ Len(r) = Len(q) + 1 /\ Len(q) \in Nat
      /\ r[Len(q) + 1] = x /\ \A i \in 1 .. Len(q) : r[i] = q[i]
  BY <1>1
<1>3. DOMAIN q = 1 .. Len(q) /\ DOMAIN r = 1 .. Len(r)
  BY <1>1, <1>2
<1>4. IsSequence(r)
  BY <1>2, <1>3 DEF IsSequence
<1> QED
  BY <1>2, <1>3, <1>4

LEMMA Appended ==
  ASSUME NEW q, IsSequence(q), NEW x
  PROVE  /\ IsSequence(q \o <<x>>) /\ Len(q \o <<x>>) = Len(q) + 1 /\ Len(q) \in Nat
         /\ DOMAIN q = 1 .. Len(q) /\ DOMAIN (q \o <<x>>) = 1 .. Len(q) + 1
         /\ (q \o <<x>>)[Len(q) + 1] = x /\ \A i \in DOMAIN q : (q \o <<x>>)[i] = q[i]
<1> DEFINE S == {q[i] : i \in DOMAIN q}
           T == S \cup {x}
           r == q \o <<x>>
<1>1. q \in Seq(T) /\ x \in T
  BY DEF IsSequence
<1> HIDE DEF S, T
<1>2. <<x>> \in Seq(T) /\ Len(<<x>>) = 1 /\ <<x>>[1] = x
  BY <1>1
<1>3. r \in Seq(T) /\ Len(r) = Len(q) + 1 /\ Len(q) \in Nat
  BY <1>1, <1>2
<1>4. \A i \in 1 .. Len(q) : r[i] = q[i]
  BY <1>1, <1>2, <1>3
<1>5. r[Len(q) + 1] = <<x>>[1]
  BY <1>1, <1>2, <1>3
<1>6. DOMAIN q = 1 .. Len(q) /\ DOMAIN r = 1 .. Len(r)
  BY <1>1, <1>3
<1>7. IsSequence(r)
  <2> HIDE DEF r
  <2> QED
    BY ONLY <1>3, <1>6 DEF IsSequence
<1> QED
  BY <1>2, <1>3, <1>4, <1>5, <1>6, <1>7

LEMMA ReceiverIdsAreIds ==
  ASSUME NEW json, json.kind = "list" => IsSequence(json.value),
         NEW list \in ReceiverIds(json)
  PROVE  list \in Seq(Int32)
<1>1. IsSequence(Entries(json))
  <2>1. IsSequence(<<>>) /\ IsSequence(<<json.value>>)
    BY DEF IsSequence
  <2> QED
    BY <2>1 DEF Entries
<1>2. list \in [1 .. Cardinality(Numeric(json)) -> Int32]
  BY DEF ReceiverIds
<1>3. IsFiniteSet(DOMAIN Entries(json))
  BY <1>1, SequenceFacts, FS_Interval
<1>4. Cardinality(Numeric(json)) \in Nat
  BY <1>3, FS_Subset, FS_CardinalityType DEF Numeric
<1> QED
  BY <1>2, <1>4

\* An id of the list is what one of the numbers of the request means.
LEMMA AskedIsMeant ==
  ASSUME NEW json, NEW list \in ReceiverIds(json), NEW n \in DOMAIN list
  PROVE  \E q \in Ascending(Numeric(json)) :
           n \in DOMAIN q /\ Meant(Entries(json)[q[n]], list[n])
<1>1. PICK q \in Ascending(Numeric(json)) :
        /\ list \in [1 .. Cardinality(Numeric(json)) -> Int32]
        /\ \A i \in DOMAIN list : list[i] \in FloatToInt32(Entries(json)[q[i]])
  BY DEF ReceiverIds
<1>2. DOMAIN q = DOMAIN list
  BY <1>1 DEF Ascending, Orders
<1>3. list[n] \in FloatToInt32(Entries(json)[q[n]])
  BY <1>1
<1>4. Meant(Entries(json)[q[n]], list[n])
  BY ONLY <1>3 DEF FloatToInt32, Meant
<1> QED
  BY <1>2, <1>4

-----------------------------------------------------------------------------
(* What a step leaves as it was.                                           *)

Kept(q, r) == \A i \in DOMAIN q : i \in DOMAIN r /\ r[i] = q[i]

\* A step of p: the others stay where they are, and nothing is taken back.
StepOf(p) ==
  /\ ~At(p, "answered")
  /\ \A q \in Handlers \ {p} : /\ handler'[q] = handler[q] /\ handed'[q] = handed[q]
                               /\ knownBefore'[q] = knownBefore[q]
  /\ Kept(handed[p], handed'[p]) /\ Kept(messages, messages')
  /\ issued \subseteq issued' /\ renames \subseteq renames'

LEMMA StoredKept ==
  ASSUME NEW p, StepOf(p), NEW q, NEW c, Stored(q, c)
  PROVE  Stored(q, c)'
BY DEF StepOf, Kept, Stored

LEMMA HandedKept ==
  ASSUME NEW p \in Handlers, StepOf(p), NEW k \in Handed
  PROVE  /\ k[1] \in Handlers /\ k[2] \in DOMAIN handed[k[1]]
         /\ k \in Handed' /\ handed'[k[1]][k[2]] = handed[k[1]][k[2]]
<1>1. PICK q \in Handlers : k \in {q} \X DOMAIN handed[q]
  BY DEF Handed
<1>2. k[1] = q /\ k[2] \in DOMAIN handed[q] /\ k = <<k[1], k[2]>>
  BY <1>1
<1>3. k[2] \in DOMAIN handed'[q] /\ handed'[q][k[2]] = handed[q][k[2]]
  BY <1>2 DEF StepOf, Kept
<1>4. k \in {q} \X DOMAIN handed'[q]
  BY <1>2, <1>3
<1>5. k \in Handed'
  BY <1>4 DEF Handed
<1> QED
  BY <1>2, <1>3, <1>5

\* An answer that is true remains so.
LEMMA AnswerKept ==
  ASSUME NEW p \in Handlers, StepOf(p), NEW q \in Handlers,
         knownBefore'[q] = knownBefore[q],
         \A x \in knownBefore[q].acknowledged : x \in Handlers /\ Acknowledged(x),
         NEW r, NEW body, TrueAnswer(q, r, body)
  PROVE  TrueAnswer(q, r, body)'
<1>1. \A x \in knownBefore[q].acknowledged : handed'[x] = handed[x]
  BY DEF StepOf, Acknowledged
<1>2. \A s : Told(q, r, s)' = Told(q, r, s)
  BY <1>1 DEF Told
<1>3. \A u, row : NamesOf(u, row) => NamesOf(u, row)'
  BY DEF NamesOf, StepOf
<1>4. issued \subseteq issued'
  BY DEF StepOf
<1>5. CASE r.request.route = "verify otp"
  BY <1>4, <1>5 DEF TrueAnswer
<1>6. CASE r.request.route = "verify token"
  BY <1>6 DEF TrueAnswer
<1>7. CASE r.request.route = "by sender"
  BY <1>2, <1>7 DEF TrueAnswer
<1>8. CASE r.request.route = "list"
  <2>1. {s \in Users : Told(q, r, s)' # {}} = {s \in Users : Told(q, r, s) # {}}
    BY <1>2
  <2> QED
    BY <1>8, <2>1 DEF TrueAnswer
<1>9. CASE r.request.route = "users"
  BY <1>3, <1>9 DEF TrueAnswer
<1>10. CASE r.request.route \notin {"verify otp", "verify token", "by sender", "list", "users"}
  BY <1>10 DEF TrueAnswer
<1> QED
  BY <1>5, <1>6, <1>7, <1>8, <1>9, <1>10

LEMMA AcknowledgedKept ==
  ASSUME NEW p \in Handlers, StepOf(p), NEW x \in Handlers, Acknowledged(x)
  PROVE  Acknowledged(x)' /\ handed'[x] = handed[x]
BY DEF StepOf, Acknowledged, At, Route

LEMMA SettledKept ==
  ASSUME NEW p \in Handlers, StepOf(p), NEW q \in Handlers, handed'[q] = handed[q],
         NEW r, NEW i
  PROVE  CopiesOf(q, r, i)' = CopiesOf(q, r, i) /\ (Settled(q, r, i) => Settled(q, r, i)')
<1>1. CopiesOf(q, r, i)' = CopiesOf(q, r, i)
  BY DEF CopiesOf
<1>2. \A c : Stored(q, c) => Stored(q, c)'
  BY StoredKept
<1> QED
  BY <1>1, <1>2 DEF Settled

LEMMA ShownKept ==
  ASSUME NEW p \in Handlers, StepOf(p), NEW r, ShownShape(r), ShownAsSent(r)
  PROVE  ShownShape(r)' /\ ShownAsSent(r)'
<1>1. \A i \in DOMAIN r.pushed : LET k == r.pushed[i][1] IN
        k \in Handed' /\ handed'[k[1]][k[2]] = handed[k[1]][k[2]]
  BY HandedKept DEF ShownShape
<1>2. ShownShape(r)'
  BY <1>1 DEF ShownShape, IsSequence
<1>3. ShownAsSent(r)'
  BY <1>1 DEF ShownAsSent
<1> QED
  BY <1>2, <1>3

\* What is so of a handler remains so if it does not hand over anything.
LEMMA HandlerInvKept ==
  ASSUME NEW p \in Handlers, StepOf(p), NEW q \in Handlers, handed'[q] = handed[q],
         knownBefore'[q] = knownBefore[q], NEW r, HandlerInv(q, r)
  PROVE  HandlerInv(q, r)'
<1>1. NothingYet(q, r)'
  BY DEF HandlerInv, NothingYet
<1>2. \A x \in knownBefore[q].acknowledged : x \in Handlers /\ Acknowledged(x)
  BY DEF HandlerInv
<1>3. QuestionShape(q, r)'
  <2>1. \A body : TrueAnswer(q, r, body) => TrueAnswer(q, r, body)'
    BY <1>2, AnswerKept
  <2>2. QuestionShape(q, r)
    BY DEF HandlerInv
  <2> QED
    BY <2>1, <2>2 DEF QuestionShape
<1>4. LoopShape(r)'
  BY DEF HandlerInv, LoopShape
<1>5. \A c : Stored(q, c) => Stored(q, c)'
  BY StoredKept
<1>6. SendProgress(q, r)'
  <2>1. AnswerTells(q, r) => AnswerTells(q, r)'
    <3>1. CASE r.answer.status = 200
      BY <1>5, <3>1 DEF AnswerTells
    <3>2. CASE r.answer.status # 200
      BY <3>2 DEF AnswerTells
    <3> QED
      BY <3>1, <3>2
  <2>2. SendProgress(q, r)
    BY DEF HandlerInv
  <2> QED
    BY <1>5, <2>1, <2>2 DEF SendProgress
<1>7. FrameProgress(q, r)'
  <2>1. \A i : CopiesOf(q, r, i)' = CopiesOf(q, r, i)
               /\ (Settled(q, r, i) => Settled(q, r, i)')
    BY SettledKept
  <2>2. FrameProgress(q, r)
    BY DEF HandlerInv
  <2> QED
    BY <1>5, <2>1, <2>2 DEF FrameProgress, IsSequence
<1>8. ShownShape(r)' /\ ShownAsSent(r)'
  BY ShownKept DEF HandlerInv
<1>9. (\A i \in DOMAIN handed[q] : AsAsked(r, handed[q][i]))'
  <2>1. \A i \in DOMAIN handed[q] : AsAsked(r, handed[q][i])
    BY DEF HandlerInv
  <2> QED
    BY <2>1 DEF AsAsked
<1>10. \A x \in knownBefore'[q].acknowledged : x \in Handlers /\ Acknowledged(x)'
  BY <1>2, AcknowledgedKept
<1> QED
  BY <1>1, <1>3, <1>4, <1>6, <1>7, <1>8, <1>9, <1>10 DEF HandlerInv

\* A step of p keeps the invariant if it does so of p and of the tables.
LEMMA RequestStep ==
  ASSUME RequestInv, GateInv', NEW p \in Handlers, StepOf(p),
         HandlerInv(p, handler[p])', TablesInv'
  PROVE  RequestInv'
<1>1. ASSUME NEW q \in Handlers \ {p}
      PROVE  HandlerInv(q, handler[q])'
  <2>1. /\ handler'[q] = handler[q] /\ handed'[q] = handed[q]
        /\ knownBefore'[q] = knownBefore[q]
    BY DEF StepOf
  <2>2. HandlerInv(q, handler[q])
    BY DEF RequestInv
  <2>3. \A r : HandlerInv(q, r) => HandlerInv(q, r)'
    BY <2>1, HandlerInvKept
  <2> QED
    BY <2>1, <2>2, <2>3
<1>2. \A q \in Handlers : HandlerInv(q, handler[q])'
  BY <1>1
<1> QED
  BY <1>2 DEF RequestInv

\* The handler that was given a new record.
LEMMA BecameFacts ==
  ASSUME GateInv, NEW p \in Handlers, NEW c, Become(p, c)
  PROVE  handler'[p] = c /\ \A q \in Handlers \ {p} : handler'[q] = handler[q]
BY DEF GateInv, TypeOK, Become

\* Whose the handler is, and what it has shown.
Carried(p, c) == /\ DOMAIN c = DOMAIN Idle
                 /\ c.header = handler[p].header /\ c.request = handler[p].request
                 /\ c.pushed = handler[p].pushed

LEMMA SameAsker ==
  ASSUME NEW p, NEW r, NEW s, r.header = s.header, r.request = s.request
  PROVE  /\ \A body : TrueAnswer(p, r, body) => TrueAnswer(p, s, body)
         /\ \A copy : AsAsked(r, copy) => AsAsked(s, copy)
         /\ Question(r) = Question(s) /\ Asks(r) = Asks(s)
<1>1. \A u : Told(p, r, u) = Told(p, s, u)
  BY DEF Told
<1>2. \A body : TrueAnswer(p, r, body) <=> TrueAnswer(p, s, body)
  BY <1>1 DEF TrueAnswer
<1>3. Asks(r) = Asks(s)
  BY DEF Asks
<1>4. \A copy : AsAsked(r, copy) => AsAsked(s, copy)
  BY <1>3 DEF AsAsked
<1>5. Question(r) = Question(s)
  BY DEF Question
<1> QED
  BY <1>2, <1>3, <1>4, <1>5

\* What is shown is told by the pushed messages.
LEMMA ShownAlike ==
  ASSUME NEW r, NEW c, c.pushed = r.pushed
  PROVE  (ShownAsSent(r) => ShownAsSent(c)) /\ (ShownAsSent(r) => ShownAsSent(c))'
<1> DEFINE Shown(pushed) ==
             \A i \in DOMAIN pushed :
               LET k == pushed[i][1]
                   copy == handed[k[1]][k[2]]
                   msg == pushed[i][2] IN
                 msg.sender_id = ToInt32(copy.sender) /\ msg.content = copy.content
<1>1. ShownAsSent(r) => ShownAsSent(c)
  <2>1. ShownAsSent(r) => Shown(r.pushed)
    BY ONLY DEF ShownAsSent
  <2>2. Shown(c.pushed) => ShownAsSent(c)
    BY ONLY DEF ShownAsSent
  <2> HIDE DEF Shown
  <2> QED
    BY <2>1, <2>2
<1>2. (ShownAsSent(r) => ShownAsSent(c))'
  <2>1. ShownAsSent(r)' => Shown(r.pushed)'
    BY ONLY DEF ShownAsSent
  <2>2. Shown(c.pushed)' => ShownAsSent(c)'
    BY ONLY DEF ShownAsSent
  <2> HIDE DEF Shown
  <2> QED
    BY <2>1, <2>2
<1> QED
  BY <1>1, <1>2

LEMMA CarriedFacts ==
  ASSUME RequestInv, NEW p \in Handlers, NEW c, Carried(p, c),
         NothingYet(p, c), QuestionShape(p, c), LoopShape(c), SendProgress(p, c),
         FrameProgress(p, c)
  PROVE  HandlerInv(p, c)
<1>1. HandlerInv(p, handler[p])
  BY DEF RequestInv
<1>2. ShownShape(c) /\ ShownAsSent(c)
  <2>1. ShownShape(c)
    BY <1>1 DEF HandlerInv, ShownShape, Carried
  <2>2. ShownAsSent(handler[p]) /\ c.pushed = handler[p].pushed
    BY <1>1 DEF HandlerInv, Carried
  <2>3. ShownAsSent(c)
    BY ONLY <2>2, ShownAlike
  <2> QED
    BY <2>1, <2>3
<1>3. \A i \in DOMAIN handed[p] : AsAsked(c, handed[p][i])
  BY <1>1, SameAsker DEF HandlerInv, Carried
<1> QED
  BY <1>1, <1>2, <1>3 DEF HandlerInv

\* A step of one handler that changes no table and hands over nothing.
LEMMA QuietRequest ==
  ASSUME RequestInv, GateInv', NEW p \in Handlers, NEW c, Become(p, c),
         ~At(p, "answered"), c.header = handler[p].header, c.request = handler[p].request,
         HandlerInv(p, c),
         UNCHANGED <<authVars, profile, renames, chatVars, knownBefore>>
  PROVE  RequestInv'
<1>1. UNCHANGED <<otp, saved, issued, profile, renames, handed, messages, knownBefore>>
  BY DEF authVars, chatVars
<1>2. handler'[p] = c /\ \A q \in Handlers \ {p} : handler'[q] = handler[q]
  BY BecameFacts DEF RequestInv
<1>3. StepOf(p)
  BY <1>1, <1>2 DEF StepOf, Kept
<1>4. HandlerInv(p, c)'
  BY <1>1, <1>3, HandlerInvKept
<1>5. HandlerInv(p, handler[p])'
  BY <1>2, <1>4
<1>6. TablesInv'
  <2>1. \A x \in renames : x.by \in Handlers /\ RenamedAsAsked(x)
    BY DEF RequestInv, GateInv, TablesInv
  <2>2. \A q \in Handlers : /\ handler'[q].header = handler[q].header
                            /\ handler'[q].request = handler[q].request
    BY <1>2
  <2>3. \A x \in renames' : RenamedAsAsked(x)'
    BY <1>1, <2>1, <2>2 DEF RenamedAsAsked, Body
  <2> QED
    BY <1>1, <2>3 DEF RequestInv, TablesInv, IsSequence, NamesOf
<1> QED
  BY <1>3, <1>5, <1>6, RequestStep

-----------------------------------------------------------------------------
(* The steps of the gateway: to the handler and back.                      *)

LEMMA RequestFacts ==
  ASSUME RequestInv, NEW p \in Handlers
  PROVE  /\ GateInv /\ HandlerInv(p, handler[p]) /\ DOMAIN handler[p] = DOMAIN Idle
         /\ NothingYet(p, handler[p]) /\ QuestionShape(p, handler[p]) /\ LoopShape(handler[p])
         /\ SendProgress(p, handler[p]) /\ FrameProgress(p, handler[p])
         /\ (handler[p].rpc.at # "nowhere" <=>
               handler[p].pc \in {"authenticate", "call", "forward"})
BY DEF RequestInv, HandlerInv, GateInv, TypeOK, HandlerType

LEMMA FrameRange ==
  ASSUME RequestInv, NEW p \in Handlers, Route(p) = "ws", NEW i \in DOMAIN handed[p]
  PROVE  handed[p][i].frame \in 0 .. handler[p].frame
BY RequestFacts DEF FrameProgress, Route

\* The fields that an answer leaves alone, and those that a call does.
LEMMA AnswerFields ==
  ASSUME NEW r, DOMAIN r = DOMAIN Idle, NEW status, NEW body,
         NEW c, c = Answer(r, status, body)
  PROVE  /\ DOMAIN c = DOMAIN Idle /\ c.pc = "answered"
         /\ c.header = r.header /\ c.request = r.request /\ c.frame = r.frame
         /\ c.ids = r.ids /\ c.next = r.next /\ c.pushed = r.pushed
         /\ c.rpc.at = "nowhere" /\ c.answer.status = status /\ c.answer.body = body
BY DEF Answer, Idle, NoCall

LEMMA CallFields ==
  ASSUME NEW r, DOMAIN r = DOMAIN Idle, NEW label, NEW stub, NEW msg, NEW md,
         NEW c, c = Call(r, label, stub, msg, md)
  PROVE  /\ DOMAIN c = DOMAIN Idle /\ c.pc = label
         /\ c.header = r.header /\ c.request = r.request /\ c.frame = r.frame
         /\ c.ids = r.ids /\ c.next = r.next /\ c.content = r.content
         /\ c.named = r.named /\ c.pushed = r.pushed
         /\ c.rpc.at = "service" /\ c.rpc.path = stub.path /\ c.rpc.md = md
         /\ c.rpc.bytes = Gw!Encode(stub.in, msg)
BY DEF Call, Idle

\* The end of a handler.  What was sent is as before.
LEMMA AnswerSo ==
  ASSUME RequestInv, NEW p \in Handlers, NEW r, Carried(p, r), r.frame = handler[p].frame,
         NEW status, NEW body, status = 200 => TrueAnswer(p, handler[p], body),
         NEW c, c = Answer(r, status, body), Route(p) = "send" => AnswerTells(p, c)
  PROVE  HandlerInv(p, c) /\ c.header = handler[p].header /\ c.request = handler[p].request
<1>1. /\ DOMAIN c = DOMAIN Idle /\ c.pc = "answered"
      /\ c.header = handler[p].header /\ c.request = handler[p].request
      /\ c.frame = handler[p].frame /\ c.pushed = handler[p].pushed
      /\ c.answer.status = status /\ c.answer.body = body
  BY AnswerFields DEF Carried
<1>2. QuestionShape(p, c)
  BY <1>1, SameAsker DEF QuestionShape
<1>3. NothingYet(p, c) /\ LoopShape(c)
  BY <1>1 DEF NothingYet, LoopShape
<1>4. SendProgress(p, c)
  BY <1>1 DEF SendProgress, Route
<1>5. FrameProgress(p, c)
  BY <1>1, FrameRange DEF FrameProgress, Route
<1> QED
  BY <1>1, <1>2, <1>3, <1>4, <1>5, CarriedFacts DEF Carried

\* Before anything is sent.
LEMMA EarlySo ==
  ASSUME RequestInv, NEW p \in Handlers, handler[p].pc \in {"authenticate", "handle"},
         NEW c, Carried(p, c), c.pc \in {"handle", "call"}, c.ids = handler[p].ids,
         c.frame = handler[p].frame, QuestionShape(p, c)
  PROVE  HandlerInv(p, c)
<1>1. handed[p] = <<>> /\ handler[p].ids = <<>> /\ handler[p].frame = 0 /\ handler[p].pushed = <<>>
  BY RequestFacts DEF NothingYet
<1>2. NothingYet(p, c)
  BY <1>1 DEF NothingYet, Carried
<1>3. LoopShape(c) /\ SendProgress(p, c)
  BY DEF LoopShape, SendProgress
<1>4. FrameProgress(p, c)
  BY <1>1 DEF FrameProgress
<1> QED
  BY <1>2, <1>3, <1>4, CarriedFacts

LEMMA NothingTold ==
  ASSUME RequestInv, NEW p \in Handlers, handler[p].pc \in {"authenticate", "handle"},
         NEW c, c.ids = handler[p].ids, c.answer.status # 200
  PROVE  AnswerTells(p, c)
<1>1. handed[p] = <<>> /\ handler[p].ids = <<>>
  BY RequestFacts DEF NothingYet
<1>2. [i \in DOMAIN handed[p] |-> handed[p][i].receiver] = <<>>
  BY <1>1
<1> QED
  BY <1>1, <1>2 DEF AnswerTells

LEMMA RefusedEarly ==
  ASSUME RequestInv, GateInv', NEW p \in Handlers, handler[p].pc \in {"authenticate", "handle"},
         NEW status, status # 200, NEW c, c = Answer(handler[p], status, Empty), Become(p, c),
         UNCHANGED <<authVars, profile, renames, chatVars, knownBefore>>
  PROVE  RequestInv'
<1>1. ~At(p, "answered") /\ Carried(p, handler[p]) /\ DOMAIN handler[p] = DOMAIN Idle
  BY RequestFacts DEF At, Carried
<1>2. c.ids = handler[p].ids /\ c.answer.status = status
  BY <1>1, AnswerFields
<1>3. AnswerTells(p, c)
  BY <1>2, NothingTold
<1>4. HandlerInv(p, c) /\ c.header = handler[p].header /\ c.request = handler[p].request
  BY <1>1, <1>3, AnswerSo
<1> QED
  BY <1>1, <1>4, QuietRequest

LEMMA AuthenticationRequest ==
  ASSUME RequestInv, GateInv', NEW p \in Handlers, Authentication(p)
  PROVE  RequestInv'
<1>1. /\ At(p, "authenticate") /\ ~At(p, "answered") /\ Carried(p, handler[p])
      /\ DOMAIN handler[p] = DOMAIN Idle
  BY RequestFacts DEF Authentication, At, Carried
<1>2. UNCHANGED <<authVars, profile, renames, chatVars, knownBefore>>
  BY DEF Authentication, userVars
<1>3. CASE Succeeded(p)
  <2> DEFINE c == [handler[p] EXCEPT !.pc = "handle", !.rpc = NoCall]
  <2>1. Become(p, c)
    BY <1>3 DEF Authentication
  <2>2. /\ Carried(p, c) /\ c.pc = "handle" /\ c.ids = handler[p].ids
        /\ c.frame = handler[p].frame
    BY <1>1 DEF Carried, Idle
  <2> HIDE DEF c
  <2>3. HandlerInv(p, c)
    BY <1>1, <2>2, EarlySo DEF QuestionShape, At
  <2> QED
    BY <1>1, <1>2, <2>1, <2>2, <2>3, QuietRequest DEF Carried
<1>4. CASE ~Succeeded(p)
  BY <1>1, <1>2, <1>4, RefusedEarly DEF Authentication, At
<1> QED
  BY <1>3, <1>4

LEMMA CallsEarly ==
  ASSUME RequestInv, NEW p \in Handlers, At(p, "handle"),
         NEW stub, NEW msg, NEW md, NEW c, c = Call(handler[p], "call", stub, msg, md)
  PROVE  /\ Carried(p, c) /\ c.pc = "call" /\ c.ids = handler[p].ids
         /\ c.frame = handler[p].frame
         /\ c.rpc.at = "service" /\ c.rpc.path = stub.path /\ c.rpc.md = md
         /\ c.rpc.bytes = Gw!Encode(stub.in, msg)
<1>1. DOMAIN handler[p] = DOMAIN Idle
  BY RequestFacts
<1> QED
  BY <1>1, CallFields DEF Carried

LEMMA CallsRequest ==
  ASSUME RequestInv, GateInv', NEW p \in Handlers, At(p, "handle"), Route(p) \in OneCall,
         NEW stub, stub = Stub(Route(p)), NEW msg, msg = Question(handler[p]),
         NEW md, Route(p) \in {"update", "list", "by sender"} => md = <<handler[p].header>>,
         Calls(p, stub, msg, md)
  PROVE  RequestInv'
<1>1. UNCHANGED <<authVars, profile, renames, chatVars, knownBefore>>
  BY DEF Calls, userVars
<1>2. handler[p].pc \in {"authenticate", "handle"} /\ ~At(p, "answered")
  BY DEF At
<1>3. CASE Body(p) = Bad
  <2>1. \E status : status = 400 /\ Become(p, Answer(handler[p], status, Empty))
    BY <1>3 DEF Calls
  <2>2. PICK status : status # 200 /\ Become(p, Answer(handler[p], status, Empty))
    BY ONLY <2>1
  <2> QED
    BY <1>1, <1>2, <2>2, RefusedEarly, ZenonT(30)
<1>4. CASE Body(p) # Bad
  <2>1. PICK c : Become(p, c) /\ c = Call(handler[p], "call", stub, msg, md)
    BY <1>4 DEF Calls
  <2>2. /\ Carried(p, c) /\ c.pc = "call" /\ c.ids = handler[p].ids
        /\ c.frame = handler[p].frame
        /\ c.rpc.at = "service" /\ c.rpc.path = stub.path /\ c.rpc.md = md
        /\ c.rpc.bytes = Gw!Encode(stub.in, msg)
    BY ONLY RequestInv, p \in Handlers, At(p, "handle"), <2>1, CallsEarly
  <2>3. QuestionShape(p, c)
    <3>1. Question(c) = msg /\ c.request.route = Route(p) /\ c.header = handler[p].header
      BY <2>2, SameAsker DEF Carried, Route
    <3> QED
      BY <2>2, <3>1 DEF QuestionShape
  <2>4. HandlerInv(p, c)
    BY <1>2, <2>2, <2>3, EarlySo, ZenonT(30)
  <2>5. c.header = handler[p].header /\ c.request = handler[p].request
    BY <2>2 DEF Carried
  <2> QED
    BY <1>1, <1>2, <2>1, <2>4, <2>5, QuietRequest, ZenonT(30)
<1> QED
  BY <1>3, <1>4

LEMMA OneCallRequest ==
  ASSUME RequestInv, GateInv', NEW p \in Handlers,
         \/ loginHandler(p) \/ verifyOTPHandler(p) \/ verifyTokenHandler(p)
         \/ getAllUsersHandler(p) \/ updateUserHandler(p) \/ listMessageHandler(p)
         \/ listMessagesBySenderHandler(p)
  PROVE  RequestInv'
<1>1. CASE loginHandler(p)
  BY <1>1, CallsRequest DEF loginHandler, Handles, OneCall, Stub, Question, Route, Body
<1>2. CASE verifyOTPHandler(p)
  BY <1>2, CallsRequest DEF verifyOTPHandler, Handles, OneCall, Stub, Question, Route, Body
<1>3. CASE verifyTokenHandler(p)
  BY <1>3, CallsRequest DEF verifyTokenHandler, Handles, OneCall, Stub, Question, Route, Body
<1>4. CASE getAllUsersHandler(p)
  BY <1>4, CallsRequest DEF getAllUsersHandler, Handles, OneCall, Stub, Question, Route, Body
<1>5. CASE updateUserHandler(p)
  BY <1>5, CallsRequest DEF updateUserHandler, Handles, OneCall, Stub, Question, Route, Body
<1>6. CASE listMessageHandler(p)
  BY <1>6, CallsRequest DEF listMessageHandler, Handles, OneCall, Stub, Question, Route, Body
<1>7. CASE listMessagesBySenderHandler(p)
  BY <1>7, CallsRequest
  DEF listMessagesBySenderHandler, Handles, OneCall, Stub, Question, Route, Body
<1> QED
  BY <1>1, <1>2, <1>3, <1>4, <1>5, <1>6, <1>7

\* The answer that came is the one that is given.
LEMMA RespondRequest ==
  ASSUME RequestInv, GateInv', NEW p \in Handlers, Respond(p)
  PROVE  RequestInv'
<1>1. /\ At(p, "call") /\ Returned(p) /\ Route(p) \notin {"send", "ws"} /\ ~At(p, "answered")
      /\ Carried(p, handler[p])
  BY RequestFacts DEF Respond, At, Carried
<1>2. UNCHANGED <<authVars, profile, renames, chatVars, knownBefore>>
  BY DEF Respond, userVars
<1>3. PICK status, body :
        /\ Become(p, Answer(handler[p], status, body))
        /\ status = 200 => /\ Succeeded(p)
                           /\ body = Gw!Decode(Stub(Route(p)).out, handler[p].rpc.bytes)
  BY DEF Respond
<1> DEFINE c == Answer(handler[p], status, body)
<1>4. ASSUME status = 200 PROVE TrueAnswer(p, handler[p], body)
  BY <1>1, <1>3, <1>4, RequestFacts DEF QuestionShape, Returned, Succeeded, Route, At
<1>5. HandlerInv(p, c) /\ c.header = handler[p].header /\ c.request = handler[p].request
  BY <1>1, <1>4, AnswerSo
<1> QED
  BY <1>1, <1>2, <1>3, <1>5, QuietRequest

LEMMA SentIdsAreIds ==
  ASSUME RequestInv, NEW p \in Handlers, ~At(p, "idle"), Route(p) \in {"send", "ws"},
         Route(p) = "send" => Body(p) # Bad,
         NEW f \in Asks(handler[p]), NEW list \in ReceiverIds(f.receiver_id)
  PROVE  list \in Seq(Int32)
<1>1. handler[p].request \in Requests[p]
  BY DEF RequestInv, GateInv, TypeOK, HandlerType, At
<1>2. f.receiver_id.kind = "list" => IsSequence(f.receiver_id.value)
  <2> DEFINE asked == {x \in UNION {Requests[q] : q \in Handlers} :
                         x.route = "send" /\ x.body # Bad}
             sent == {q.body : q \in asked}
  <2>1. \A g \in Frames \cup sent :
          g.receiver_id.kind = "list" => IsSequence(g.receiver_id.value)
    BY JsonAssumption
  <2>2. CASE Route(p) = "send"
    <3>1. handler[p].request \in asked
      BY <1>1, <2>2 DEF Route, Body
    <3>2. f = handler[p].request.body
      BY <2>2 DEF Asks, Route
    <3>3. f \in sent
      BY <3>1, <3>2
    <3> QED
      BY <2>1, <3>3
  <2>3. CASE Route(p) = "ws"
    BY <2>1, <2>3 DEF Asks, Route
  <2> QED
    BY <2>2, <2>3
<1> QED
  BY <1>2, ReceiverIdsAreIds

\* The first call of a loop, over one of the lists that the JSON stands for.
LEMMA LoopFields ==
  ASSUME NEW r, DOMAIN r = DOMAIN Idle, NEW list, NEW content, NEW c, c = Loop(r, list, content)
  PROVE  /\ DOMAIN c = DOMAIN Idle /\ c.pc = "forward"
         /\ c.header = r.header /\ c.request = r.request /\ c.frame = r.frame
         /\ c.ids = list /\ c.next = 1 /\ c.content = content
         /\ c.named = r.named /\ c.pushed = r.pushed
         /\ c.rpc.at = "service" /\ c.rpc.path = Gw!SendMessage.path
<1> DEFINE s == [r EXCEPT !.ids = list, !.next = 1, !.content = content]
<1>1. /\ DOMAIN s = DOMAIN Idle /\ s.ids = list /\ s.next = 1 /\ s.content = content
      /\ s.header = r.header /\ s.request = r.request /\ s.frame = r.frame
      /\ s.named = r.named /\ s.pushed = r.pushed
  BY DEF Idle
<1>2. c = ForwardToGrpc(s)
  BY DEF Loop
<1> HIDE DEF s
<1> QED
  BY <1>1, <1>2, CallFields DEF ForwardToGrpc

LEMMA LoopBegins ==
  ASSUME RequestInv, NEW p \in Handlers, NEW f \in Asks(handler[p]),
         NEW list \in ReceiverIds(f.receiver_id), list \in Seq(Int32), list # <<>>,
         NEW c, Carried(p, c), c.pc = "forward", c.request.route \in {"send", "ws"},
         c.ids = list, c.next = 1, c.content = f.content, c.rpc.at = "service",
         c.rpc.path = Gw!SendMessage.path
  PROVE  NothingYet(p, c) /\ QuestionShape(p, c) /\ LoopShape(c)
<1>1. NothingYet(p, c) /\ QuestionShape(p, c)
  BY DEF NothingYet, QuestionShape
<1>2. Asks(c) = Asks(handler[p])
  BY DEF Asks, Carried
<1>3. 1 \in DOMAIN list
  OBVIOUS
<1>4. LoopShape(c)
  BY <1>2, <1>3 DEF LoopShape
<1> QED
  BY <1>1, <1>4

LEMMA SendRequest ==
  ASSUME RequestInv, GateInv', NEW p \in Handlers, sendMessageHandler(p)
  PROVE  RequestInv'
<1>1. UNCHANGED <<authVars, profile, renames, chatVars, knownBefore>>
  BY DEF sendMessageHandler, userVars
<1>2. /\ handler[p].pc \in {"authenticate", "handle"} /\ ~At(p, "answered") /\ ~At(p, "idle")
      /\ Route(p) = "send"
  BY DEF sendMessageHandler, Handles, At
<1>3. \/ \E status : status = 400 /\ Become(p, Answer(handler[p], status, Empty))
      \/ /\ Body(p) # Bad
         /\ \E list \in ReceiverIds(Body(p).receiver_id) :
              list # <<>> /\ Become(p, Loop(handler[p], list, Body(p).content))
  BY DEF sendMessageHandler
<1>4. CASE \E status : status = 400 /\ Become(p, Answer(handler[p], status, Empty))
  <2>1. PICK status : status # 200 /\ Become(p, Answer(handler[p], status, Empty))
    BY ONLY <1>4
  <2> QED
    BY <1>1, <1>2, <2>1, RefusedEarly, ZenonT(30)
<1>5. ASSUME Body(p) # Bad, NEW list \in ReceiverIds(Body(p).receiver_id), list # <<>>,
             Become(p, Loop(handler[p], list, Body(p).content))
      PROVE  RequestInv'
  <2>1. PICK c : Become(p, c) /\ c = Loop(handler[p], list, Body(p).content)
    BY <1>5
  <2>2. PICK f : f \in Asks(handler[p]) /\ f = Body(p)
    BY <1>2 DEF Asks, Body, Route
  <2>3. list \in ReceiverIds(f.receiver_id)
    BY <1>5, <2>2
  <2>4. list \in Seq(Int32)
    BY <1>2, <1>5, <2>2, <2>3, SentIdsAreIds
  <2>5. /\ Carried(p, c) /\ c.pc = "forward" /\ c.frame = handler[p].frame
        /\ c.ids = list /\ c.next = 1 /\ c.content = f.content
        /\ c.rpc.at = "service" /\ c.rpc.path = Gw!SendMessage.path
    BY <2>1, <2>2, RequestFacts, LoopFields DEF Carried
  <2>6. c.header = handler[p].header /\ c.request = handler[p].request
        /\ c.request.route = "send"
    BY <1>2, <2>5 DEF Carried, Route
  <2>7. NothingYet(p, c) /\ QuestionShape(p, c) /\ LoopShape(c)
    BY <1>5, <2>2, <2>3, <2>4, <2>5, <2>6, LoopBegins
  <2>8. handed[p] = <<>>
    BY <1>2, RequestFacts DEF NothingYet
  <2>9. SendProgress(p, c) /\ FrameProgress(p, c)
    BY <2>5, <2>6, <2>8 DEF SendProgress, FrameProgress, Returns, Succeeds
  <2>10. HandlerInv(p, c)
    BY <2>5, <2>7, <2>9, CarriedFacts, ZenonT(30)
  <2> QED
    BY <1>1, <1>2, <2>1, <2>6, <2>10, QuietRequest, ZenonT(30)
<1> QED
  BY <1>3, <1>4, <1>5

\* The next call of a loop.
LEMMA NextFields ==
  ASSUME NEW r, DOMAIN r = DOMAIN Idle,
         NEW c, c = ForwardToGrpc([r EXCEPT !.next = @ + 1])
  PROVE  /\ DOMAIN c = DOMAIN Idle /\ c.pc = "forward"
         /\ c.header = r.header /\ c.request = r.request /\ c.frame = r.frame
         /\ c.ids = r.ids /\ c.next = r.next + 1 /\ c.content = r.content
         /\ c.named = r.named /\ c.pushed = r.pushed
         /\ c.rpc.at = "service" /\ c.rpc.path = Gw!SendMessage.path
<1> DEFINE s == [r EXCEPT !.next = @ + 1]
<1>1. /\ DOMAIN s = DOMAIN Idle /\ s.ids = r.ids /\ s.next = r.next + 1
      /\ s.content = r.content
      /\ s.header = r.header /\ s.request = r.request /\ s.frame = r.frame
      /\ s.named = r.named /\ s.pushed = r.pushed
  BY DEF Idle
<1> HIDE DEF s
<1>2. c = ForwardToGrpc(s)
  BY DEF s
<1> QED
  BY <1>1, <1>2, CallFields DEF ForwardToGrpc

LEMMA LoopGoesOn ==
  ASSUME RequestInv, NEW p \in Handlers, At(p, "forward"), NEW r, Carried(p, r),
         r.ids = handler[p].ids, r.next = handler[p].next, r.content = handler[p].content,
         r.next < Len(r.ids), NEW c, c = ForwardToGrpc([r EXCEPT !.next = @ + 1])
  PROVE  NothingYet(p, c) /\ QuestionShape(p, c) /\ LoopShape(c)
<1>1. /\ Carried(p, c) /\ c.pc = "forward" /\ c.ids = handler[p].ids
      /\ c.next = handler[p].next + 1 /\ c.content = handler[p].content
      /\ c.rpc.path = Gw!SendMessage.path
  BY NextFields DEF Carried
<1>2. NothingYet(p, c) /\ QuestionShape(p, c)
  BY <1>1 DEF NothingYet, QuestionShape
<1>3. Asks(c) = Asks(handler[p]) /\ c.request.route = handler[p].request.route
  BY <1>1 DEF Asks, Carried
<1>4. LoopShape(handler[p]) /\ handler[p].pc = "forward"
  BY RequestFacts DEF At
<1>5. /\ c.request.route \in {"send", "ws"}
      /\ \E f \in Asks(c) : c.ids \in ReceiverIds(f.receiver_id) /\ c.content = f.content
      /\ c.ids \in Seq(Int32)
  BY <1>1, <1>3, <1>4 DEF LoopShape
<1>6. c.next \in DOMAIN c.ids
  <2>1. handler[p].next \in DOMAIN handler[p].ids /\ handler[p].ids \in Seq(Int32)
    BY <1>4 DEF LoopShape
  <2>2. \A q \in Seq(Int32) : \A n \in DOMAIN q : n < Len(q) => n + 1 \in DOMAIN q
    BY ONLY TRUE
  <2> QED
    BY <1>1, <2>1, <2>2
<1> QED
  BY <1>1, <1>2, <1>5, <1>6 DEF LoopShape

LEMMA Firsts ==
  ASSUME NEW S, NEW ids \in Seq(S), NEW k \in 0 .. Len(ids), NEW q, DOMAIN q = 1 .. k,
         q = [i \in DOMAIN q |-> q[i]], \A i \in 1 .. k : q[i] = ids[i]
  PROVE  q = SubSeq(ids, 1, k) /\ (k = Len(ids) => q = ids)
<1>1. /\ SubSeq(ids, 1, k) \in Seq(S) /\ Len(SubSeq(ids, 1, k)) = k
      /\ \A i \in 1 .. k : SubSeq(ids, 1, k)[i] = ids[i]
  BY SubSeqProperties
<1>2. SubSeq(ids, 1, k) = [i \in 1 .. k |-> ids[i]]
  BY <1>1
<1>3. ids = [i \in 1 .. Len(ids) |-> ids[i]]
  OBVIOUS
<1> QED
  BY <1>2, <1>3

\* How far a send request has come when a call returns.
LEMMA HowFar ==
  ASSUME RequestInv, NEW p \in Handlers, At(p, "forward"), Returned(p), Route(p) = "send",
         NEW r, r = handler[p], NEW n, n = r.next
  PROVE  /\ r.ids \in Seq(Int32) /\ n \in 1 .. Len(r.ids) /\ Len(r.ids) \in Nat
         /\ DOMAIN handed[p] = 1 .. Len(handed[p]) /\ Len(handed[p]) \in {n - 1, n}
         /\ Succeeds(r) => Len(handed[p]) = n
         /\ \A i \in DOMAIN handed[p] : /\ handed[p][i].receiver = r.ids[i]
                                        /\ i < n \/ Succeeds(r) => Stored(p, handed[p][i])
<1>1. LoopShape(r) /\ SendProgress(p, r) /\ r.pc = "forward" /\ r.request.route = "send"
      /\ Returns(r)
  BY RequestFacts DEF At, Route, Returned, Returns
<1>2. r.ids \in Seq(Int32) /\ n \in DOMAIN r.ids
  BY <1>1 DEF LoopShape
<1>3. n \in 1 .. Len(r.ids) /\ Len(r.ids) \in Nat
  BY <1>2
<1>4. IsSequence(handed[p])
  BY DEF RequestInv, GateInv, TypeOK
<1> QED
  BY <1>1, <1>2, <1>3, <1>4, SequenceFacts DEF SendProgress

LEMMA ServedSoFar ==
  ASSUME RequestInv, NEW p \in Handlers, At(p, "forward"), Returned(p), Route(p) = "send",
         NEW r, r = handler[p],
         NEW c, c.ids = r.ids, c.next = r.next,
         c.answer.status = 200 => Succeeds(r) /\ r.next = Len(r.ids)
  PROVE  AnswerTells(p, c)
<1> DEFINE served == [i \in DOMAIN handed[p] |-> handed[p][i].receiver]
           k == Len(handed[p])
           n == r.next
<1>1. /\ r.ids \in Seq(Int32) /\ n \in 1 .. Len(r.ids) /\ Len(r.ids) \in Nat
      /\ DOMAIN handed[p] = 1 .. k /\ k \in {n - 1, n}
      /\ Succeeds(r) => k = n
      /\ \A i \in DOMAIN handed[p] : /\ handed[p][i].receiver = r.ids[i]
                                     /\ i < n \/ Succeeds(r) => Stored(p, handed[p][i])
  BY HowFar
<1>2. DOMAIN served = 1 .. k /\ served = [i \in DOMAIN served |-> served[i]]
      /\ (\A i \in 1 .. k : served[i] = r.ids[i]) /\ k \in 0 .. Len(r.ids)
  BY ONLY <1>1, SMTT(30)
<1>3. served = SubSeq(r.ids, 1, k) /\ (k = Len(r.ids) => served = r.ids)
  <2> HIDE DEF served, k
  <2> QED
    BY ONLY <1>1, <1>2, Firsts
<1>4. CASE c.answer.status = 200
  <2>1. served = c.ids /\ \A i \in DOMAIN handed[p] : Stored(p, handed[p][i])
    BY <1>1, <1>3, <1>4
  <2> QED
    BY <1>4, <2>1 DEF AnswerTells
<1>5. CASE c.answer.status # 200
  <2>1. served \in {SubSeq(c.ids, 1, c.next - 1), SubSeq(c.ids, 1, c.next)}
    <3> HIDE DEF served
    <3> QED
      BY <1>1, <1>3
  <2> QED
    BY <1>5, <2>1 DEF AnswerTells
<1> QED
  BY <1>4, <1>5

LEMMA ForwardedRequest ==
  ASSUME RequestInv, GateInv', NEW p \in Handlers, Forwarded(p)
  PROVE  RequestInv'
<1>1. UNCHANGED <<authVars, profile, renames, chatVars, knownBefore>>
  BY DEF Forwarded, userVars
<1>2. /\ At(p, "forward") /\ Returned(p) /\ Route(p) = "send" /\ ~At(p, "answered")
      /\ Carried(p, handler[p]) /\ DOMAIN handler[p] = DOMAIN Idle
  BY RequestFacts DEF Forwarded, At, Carried
<1>3. \/ \E status : /\ status = 400 \/ (status = 200 /\ Succeeded(p)
                                         /\ ~(handler[p].next < Len(handler[p].ids)))
                     /\ Become(p, Answer(handler[p], status, Empty))
      \/ /\ Succeeded(p) /\ handler[p].next < Len(handler[p].ids)
         /\ Become(p, ForwardToGrpc([handler[p] EXCEPT !.next = @ + 1]))
  BY DEF Forwarded, ForwardNextOrStop
<1>4. PICK r : r = handler[p]
  OBVIOUS
<1>5. Succeeded(p) => Succeeds(r)
  BY <1>2, <1>4 DEF Succeeds, Succeeded, Returned
<1>6. ASSUME NEW status, status = 400 \/ (status = 200 /\ Succeeded(p)
                                          /\ ~(handler[p].next < Len(handler[p].ids))),
             Become(p, Answer(handler[p], status, Empty))
      PROVE  RequestInv'
  <2>1. PICK c : Become(p, c) /\ c = Answer(r, status, Empty)
    BY <1>4, <1>6
  <2>2. c.ids = r.ids /\ c.next = r.next /\ c.answer.status = status
    BY <1>2, <1>4, <2>1, AnswerFields
  <2>3. c.answer.status = 200 => Succeeds(r) /\ r.next = Len(r.ids)
    <3>1. r.next \in 1 .. Len(r.ids) /\ Len(r.ids) \in Nat
      BY <1>2, <1>4, HowFar
    <3>2. status = 200 => Succeeded(p) /\ ~(r.next < Len(r.ids))
      BY ONLY <1>4, <1>6
    <3> QED
      BY <1>5, <2>2, <3>1, <3>2
  <2>4. AnswerTells(p, c)
    BY ONLY RequestInv, p \in Handlers, <1>2, <1>4, <2>2, <2>3, ServedSoFar
  <2>5. TrueAnswer(p, handler[p], Empty)
    BY <1>2 DEF TrueAnswer, Route
  <2>6. Carried(p, r) /\ r.frame = handler[p].frame
    BY <1>2, <1>4
  <2>7. HandlerInv(p, c) /\ c.header = handler[p].header /\ c.request = handler[p].request
    BY ONLY RequestInv, p \in Handlers, <2>1, <2>4, <2>5, <2>6, AnswerSo
  <2> QED
    BY <1>1, <1>2, <2>1, <2>7, QuietRequest, ZenonT(30)
<1>7. ASSUME Succeeded(p), handler[p].next < Len(handler[p].ids),
             Become(p, ForwardToGrpc([handler[p] EXCEPT !.next = @ + 1]))
      PROVE  RequestInv'
  <2>1. PICK c : Become(p, c) /\ c = ForwardToGrpc([r EXCEPT !.next = @ + 1])
    BY <1>4, <1>7
  <2>2. Carried(p, r) /\ r.ids = handler[p].ids /\ r.next = handler[p].next
        /\ r.content = handler[p].content /\ r.next < Len(r.ids) /\ DOMAIN r = DOMAIN Idle
    BY <1>2, <1>4, <1>7
  <2>3. NothingYet(p, c) /\ QuestionShape(p, c) /\ LoopShape(c)
    BY <1>2, <2>1, <2>2, LoopGoesOn, ZenonT(30)
  <2>4. /\ DOMAIN c = DOMAIN Idle /\ c.pc = "forward" /\ c.header = r.header
        /\ c.request = r.request /\ c.pushed = r.pushed
        /\ c.ids = r.ids /\ c.next = r.next + 1 /\ c.rpc.at = "service"
    BY ONLY <2>1, <2>2, NextFields
  <2>5. Carried(p, c) /\ c.request.route = "send" /\ c.header = handler[p].header
        /\ c.request = handler[p].request
    BY <1>2, <1>4, <2>4 DEF Carried, Route
  <2>6. SendProgress(p, c) /\ FrameProgress(p, c)
    <3>1. PICK n : n = r.next /\ n \in 1 .. Len(r.ids) /\ Len(handed[p]) = n
            /\ DOMAIN handed[p] = 1 .. n
            /\ \A i \in DOMAIN handed[p] :
                 handed[p][i].receiver = r.ids[i] /\ Stored(p, handed[p][i])
      BY <1>2, <1>4, <1>5, <1>7, HowFar
    <3>2. c.next = n + 1 /\ n \in Int /\ ~Succeeds(c)
      BY <2>4, <3>1 DEF Succeeds
    <3> QED
      BY <2>4, <2>5, <3>1, <3>2 DEF SendProgress, FrameProgress
  <2>7. HandlerInv(p, c)
    BY <2>3, <2>5, <2>6, CarriedFacts, ZenonT(30)
  <2> QED
    BY <1>1, <1>2, <2>1, <2>5, <2>7, QuietRequest, ZenonT(30)
<1> QED
  BY <1>3, <1>6, <1>7, ZenonT(30)

-----------------------------------------------------------------------------
(* The steps of a websocket.                                               *)

LEMMA SocketEnds ==
  ASSUME RequestInv, GateInv', NEW p \in Handlers, Route(p) = "ws", ~At(p, "answered"),
         NEW r, Carried(p, r), r.frame = handler[p].frame,
         NEW status, status # 200, NEW c, c = Answer(r, status, Empty), Become(p, c),
         UNCHANGED <<authVars, profile, renames, chatVars, knownBefore>>
  PROVE  RequestInv'
<1>1. Route(p) # "send"
  BY ONLY Route(p) = "ws"
<1>2. HandlerInv(p, c) /\ c.header = handler[p].header /\ c.request = handler[p].request
  BY ONLY RequestInv, p \in Handlers, Carried(p, r), r.frame = handler[p].frame,
          status # 200, c = Answer(r, status, Empty), <1>1, AnswerSo
<1> QED
  BY <1>2, QuietRequest, ZenonT(30)

LEMMA WsRequest ==
  ASSUME RequestInv, GateInv', NEW p \in Handlers, WsHandler(p)
  PROVE  RequestInv'
<1>1. UNCHANGED <<authVars, profile, renames, chatVars, knownBefore>>
  BY DEF WsHandler
<1>2. /\ handler[p].pc = "handle" /\ Route(p) = "ws" /\ ~At(p, "answered")
      /\ Carried(p, handler[p]) /\ DOMAIN handler[p] = DOMAIN Idle
  BY RequestFacts DEF WsHandler, Handles, At, Carried
<1>3. \/ \E status : status = 0 /\ Become(p, Answer(handler[p], status, Empty))
      \/ Become(p, [handler[p] EXCEPT !.pc = "open"])
  BY DEF WsHandler
<1>4. CASE \E status : status = 0 /\ Become(p, Answer(handler[p], status, Empty))
  <2>1. PICK status : status # 200 /\ Become(p, Answer(handler[p], status, Empty))
    BY ONLY <1>4
  <2> QED
    BY <1>1, <1>2, <2>1, SocketEnds, ZenonT(30)
<1>5. CASE Become(p, [handler[p] EXCEPT !.pc = "open"])
  <2>1. PICK c : Become(p, c) /\ c = [handler[p] EXCEPT !.pc = "open"]
    BY <1>5
  <2>2. Carried(p, c) /\ c.pc = "open" /\ c.ids = handler[p].ids /\ c.request.route = "ws"
        /\ c.header = handler[p].header /\ c.request = handler[p].request
    BY <1>2, <2>1 DEF Carried, Idle, Route
  <2>3. handed[p] = <<>> /\ c.ids = <<>>
    BY <1>2, <2>2, RequestFacts DEF NothingYet
  <2>4. NothingYet(p, c) /\ QuestionShape(p, c) /\ LoopShape(c)
    BY ONLY <2>2 DEF NothingYet, QuestionShape, LoopShape
  <2>5. SendProgress(p, c) /\ FrameProgress(p, c)
    BY ONLY <2>2, <2>3 DEF SendProgress, FrameProgress
  <2>6. HandlerInv(p, c)
    BY <2>2, <2>4, <2>5, CarriedFacts, ZenonT(30)
  <2> QED
    BY <1>1, <1>2, <2>1, <2>2, <2>6, QuietRequest, ZenonT(30)
<1> QED
  BY <1>3, <1>4, <1>5

LEMMA CloseSocketRequest ==
  ASSUME RequestInv, GateInv', NEW p \in Handlers, CloseSocket(p)
  PROVE  RequestInv'
<1>1. UNCHANGED <<authVars, profile, renames, chatVars, knownBefore>>
  BY DEF CloseSocket
<1>2. /\ handler[p].pc = "open" /\ Route(p) = "ws" /\ ~At(p, "answered")
      /\ DOMAIN handler[p] = DOMAIN Idle
  BY RequestFacts DEF CloseSocket, At, LoopShape, Route
<1>3. PICK r : r = [handler[p] EXCEPT !.stream = FALSE]
  OBVIOUS
<1>4. Carried(p, r) /\ r.frame = handler[p].frame
  BY <1>2, <1>3 DEF Carried, Idle
<1>5. \E status : status = 0 /\ Become(p, Answer(r, status, Empty))
  BY <1>3 DEF CloseSocket
<1>6. PICK status : status # 200 /\ Become(p, Answer(r, status, Empty))
  BY ONLY <1>5
<1> QED
  BY <1>1, <1>2, <1>4, <1>6, SocketEnds, ZenonT(30)

LEMMA ReadFrameRequest ==
  ASSUME RequestInv, GateInv', NEW p \in Handlers, ReadFrame(p)
  PROVE  RequestInv'
<1>1. UNCHANGED <<authVars, profile, renames, chatVars, knownBefore>>
  BY DEF ReadFrame, userVars
<1>2. /\ handler[p].pc = "open" /\ Route(p) = "ws" /\ ~At(p, "answered") /\ ~At(p, "idle")
      /\ DOMAIN handler[p] = DOMAIN Idle
  BY RequestFacts DEF ReadFrame, At, LoopShape, Route
<1>3. PICK n : n = handler[p].frame /\ n \in Nat
  BY DEF RequestInv, GateInv, TypeOK, HandlerType
<1>4. PICK r : r = [handler[p] EXCEPT !.frame = @ + 1, !.named = <<>>]
  OBVIOUS
<1>5. /\ Carried(p, r) /\ r.frame = n + 1 /\ r.named = <<>> /\ r.pc = "open"
      /\ r.header = handler[p].header /\ r.request = handler[p].request
  BY <1>2, <1>3, <1>4 DEF Carried, Idle
<1>6. PICK f \in Frames : \E list \in ReceiverIds(f.receiver_id) :
        Become(p, IF list = <<>> THEN [r EXCEPT !.ids = <<>>] ELSE Loop(r, list, f.content))
  BY <1>4 DEF ReadFrame
<1>7. PICK list \in ReceiverIds(f.receiver_id) :
        Become(p, IF list = <<>> THEN [r EXCEPT !.ids = <<>>] ELSE Loop(r, list, f.content))
  BY <1>6
<1>8. f \in Asks(handler[p])
  BY <1>2 DEF Asks, Route
<1>9. \A i \in DOMAIN handed[p] : handed[p][i].frame \in 0 .. n
  BY <1>2, <1>3, FrameRange
<1>10. PICK c : Become(p, c) /\ c = IF list = <<>> THEN [r EXCEPT !.ids = <<>>]
                                   ELSE Loop(r, list, f.content)
  BY <1>7
<1>11. /\ Carried(p, c) /\ c.frame = n + 1 /\ c.named = <<>> /\ c.request.route = "ws"
       /\ c.header = handler[p].header /\ c.request = handler[p].request
       /\ \/ c.pc = "open" /\ c.ids = <<>>
          \/ /\ list # <<>> /\ c.pc = "forward" /\ c.ids = list /\ c.next = 1
             /\ c.content = f.content
             /\ c.rpc.at = "service" /\ c.rpc.path = Gw!SendMessage.path
  <2>1. DOMAIN r = DOMAIN Idle
    BY <1>5 DEF Carried
  <2>2. CASE list = <<>>
    <3>1. c = [r EXCEPT !.ids = <<>>]
      BY <1>10, <2>2
    <3> QED
      BY ONLY <1>2, <1>5, <2>1, <3>1 DEF Carried, Idle, Route
  <2>3. CASE list # <<>>
    <3>1. c = Loop(r, list, f.content)
      BY <1>10, <2>3
    <3>2. /\ DOMAIN c = DOMAIN Idle /\ c.pc = "forward"
          /\ c.header = r.header /\ c.request = r.request /\ c.frame = r.frame
          /\ c.ids = list /\ c.next = 1 /\ c.content = f.content
          /\ c.named = r.named /\ c.pushed = r.pushed
          /\ c.rpc.at = "service" /\ c.rpc.path = Gw!SendMessage.path
      BY ONLY <2>1, <3>1, LoopFields
    <3> QED
      BY ONLY <1>2, <1>5, <2>3, <3>2 DEF Carried, Route
  <2> QED
    BY ONLY <2>2, <2>3
<1>12. NothingYet(p, c) /\ QuestionShape(p, c) /\ LoopShape(c)
  <2>1. CASE c.pc = "open"
    BY ONLY <1>11, <2>1 DEF NothingYet, QuestionShape, LoopShape
  <2>2. CASE c.pc # "open"
    <3>1. list \in Seq(Int32)
      BY ONLY RequestInv, p \in Handlers, <1>2, <1>7, <1>8, SentIdsAreIds
    <3> QED
      BY ONLY RequestInv, p \in Handlers, <1>7, <1>8, <1>11, <2>2, <3>1, LoopBegins
  <2> QED
    BY <2>1, <2>2
<1>13. SendProgress(p, c)
  BY ONLY <1>11 DEF SendProgress
<1>14. FrameProgress(p, c)
  <2>1. /\ \A i \in DOMAIN handed[p] : /\ handed[p][i].frame \in 0 .. c.frame
                                       /\ handed[p][i].frame # c.frame
    BY ONLY <1>3, <1>9, <1>11
  <2>2. \A i : CopiesOf(p, c, i) = {}
    BY ONLY <2>1 DEF CopiesOf
  <2>3. ~Returns(c) \/ c.pc = "open"
    BY ONLY <1>11 DEF Returns
  <2>4. ~Succeeds(c) \/ c.pc = "open"
    BY ONLY <1>11 DEF Succeeds
  <2>5. CASE c.pc = "open"
    <3>1. c.pc # "forward" /\ DOMAIN c.ids = {}
      BY ONLY <1>11, <2>5
    <3> QED
      BY ONLY <2>1, <2>5, <3>1 DEF FrameProgress
  <2>6. CASE c.pc # "open"
    <3>1. list \in Seq(Int32)
      BY ONLY RequestInv, p \in Handlers, <1>2, <1>7, <1>8, SentIdsAreIds
    <3>2. IsSequence(c.named) /\ \A i \in DOMAIN c.ids : ~(i < c.next)
      BY ONLY <1>11, <2>6, <3>1 DEF IsSequence
    <3> QED
      BY ONLY <2>1, <2>2, <2>3, <2>4, <2>6, <3>2 DEF FrameProgress
  <2> QED
    BY <2>5, <2>6
<1>15. HandlerInv(p, c)
  BY <1>11, <1>12, <1>13, <1>14, CarriedFacts, ZenonT(30)
<1> QED
  BY <1>1, <1>2, <1>10, <1>11, <1>15, QuietRequest, ZenonT(30)

LEMMA SettledSame ==
  ASSUME NEW p, NEW r, NEW s, r.frame = s.frame, r.ids = s.ids, NEW i,
         \A j \in DOMAIN r.named : j \in DOMAIN s.named /\ s.named[j] = r.named[j]
  PROVE  /\ CopiesOf(p, s, i) = CopiesOf(p, r, i)
         /\ Settled(p, r, i) => Settled(p, s, i)
<1>1. CopiesOf(p, s, i) = CopiesOf(p, r, i)
  BY DEF CopiesOf
<1> QED
  BY <1>1 DEF Settled

\* When a call returns, the receivers so far are settled: the last of them has the
\* message, or is named now.
LEMMA SettledSoFar ==
  ASSUME RequestInv, NEW p \in Handlers, At(p, "forward"), Returned(p), Route(p) = "ws",
         NEW s, s.frame = handler[p].frame, s.ids = handler[p].ids, s.next = handler[p].next,
         s.named = IF Succeeded(p) THEN handler[p].named
                   ELSE Append(handler[p].named, handler[p].ids[handler[p].next])
  PROVE  /\ s.ids \in Seq(Int32) /\ s.next \in 1 .. Len(s.ids) /\ Len(s.ids) \in Nat
         /\ IsSequence(s.named)
         /\ \A i \in 1 .. s.next : Settled(p, s, i)
         /\ \A i \in DOMAIN s.ids : i > s.next => CopiesOf(p, s, i) = {}
<1>1. PICK r : r = handler[p]
  OBVIOUS
<1>2. FrameProgress(p, r) /\ LoopShape(r) /\ r.pc = "forward" /\ r.request.route = "ws"
  BY <1>1, RequestFacts DEF At, Route
<1>3. Returned(p) /\ (Succeeded(p) => Succeeds(r))
  BY <1>1 DEF Returned, Succeeded, Succeeds
<1>4. s.frame = r.frame /\ s.ids = r.ids /\ s.next = r.next
      /\ s.named = IF Succeeded(p) THEN r.named ELSE Append(r.named, r.ids[r.next])
  BY <1>1
<1>5. r.ids \in Seq(Int32) /\ r.next \in DOMAIN r.ids
  BY ONLY <1>2 DEF LoopShape
<1>6. r.next \in 1 .. Len(r.ids) /\ Len(r.ids) \in Nat /\ DOMAIN r.ids = 1 .. Len(r.ids)
  BY ONLY <1>5
<1>7. /\ IsSequence(r.named)
      /\ \A i \in DOMAIN r.ids :
           /\ i < r.next => Settled(p, r, i)
           /\ i > r.next => CopiesOf(p, r, i) = {}
           /\ i = r.next =>
                /\ \A j, k \in CopiesOf(p, r, i) : j = k
                /\ Succeeds(r) => \E j \in CopiesOf(p, r, i) : Stored(p, handed[p][j])
  BY ONLY <1>2 DEF FrameProgress
<1>8. /\ IsSequence(s.named)
      /\ \A j \in DOMAIN r.named : j \in DOMAIN s.named /\ s.named[j] = r.named[j]
      /\ ~Succeeded(p) => \E j \in DOMAIN s.named : s.named[j] = r.ids[r.next]
  <2>1. CASE Succeeded(p)
    BY ONLY <1>4, <1>7, <2>1
  <2>2. CASE ~Succeeded(p)
    <3>1. s.named = Append(r.named, r.ids[r.next])
      BY ONLY <1>4, <2>2
    <3>2. /\ IsSequence(s.named) /\ Len(r.named) \in Nat
          /\ DOMAIN r.named = 1 .. Len(r.named) /\ DOMAIN s.named = 1 .. Len(r.named) + 1
          /\ s.named[Len(r.named) + 1] = r.ids[r.next]
          /\ \A j \in DOMAIN r.named : s.named[j] = r.named[j]
      <4>1. PICK q, x, t : q = r.named /\ x = r.ids[r.next] /\ t = s.named
        OBVIOUS
      <4>2. t = Append(q, x) /\ IsSequence(q)
        BY ONLY <1>7, <3>1, <4>1
      <4>3. /\ IsSequence(t) /\ Len(q) \in Nat
            /\ DOMAIN q = 1 .. Len(q) /\ DOMAIN t = 1 .. Len(q) + 1
            /\ t[Len(q) + 1] = x /\ \A j \in DOMAIN q : t[j] = q[j]
        BY ONLY <4>2, AppendedOne
      <4> QED
        BY ONLY <4>1, <4>3
    <3>3. Len(r.named) + 1 \in DOMAIN s.named
      BY ONLY <3>2
    <3> QED
      BY ONLY <3>2, <3>3
  <2> QED
    BY ONLY <2>1, <2>2
<1>9. \A i : CopiesOf(p, s, i) = CopiesOf(p, r, i) /\ (Settled(p, r, i) => Settled(p, s, i))
  BY ONLY <1>4, <1>8, SettledSame
<1>10. Settled(p, s, s.next)
  <2>1. /\ \A j, k \in CopiesOf(p, s, s.next) : j = k
        /\ Succeeds(r) => \E j \in CopiesOf(p, s, s.next) : Stored(p, handed[p][j])
    BY ONLY <1>4, <1>5, <1>7, <1>9
  <2>2. \/ \E j \in CopiesOf(p, s, s.next) : Stored(p, handed[p][j])
        \/ \E j \in DOMAIN s.named : s.named[j] = s.ids[s.next]
    BY ONLY <1>3, <1>4, <1>8, <2>1
  <2> QED
    BY ONLY <2>1, <2>2 DEF Settled
<1>11. \A i \in 1 .. s.next : Settled(p, s, i)
  <2>1. \A i \in 1 .. s.next : i = s.next \/ (i < r.next /\ i \in DOMAIN r.ids)
    BY ONLY <1>4, <1>6
  <2> QED
    BY ONLY <1>7, <1>9, <1>10, <2>1
<1>12. \A i \in DOMAIN s.ids : i > s.next => CopiesOf(p, s, i) = {}
  BY ONLY <1>4, <1>7, <1>9
<1> QED
  BY ONLY <1>4, <1>5, <1>6, <1>8, <1>11, <1>12

LEMMA FrameForwardedRequest ==
  ASSUME RequestInv, GateInv', NEW p \in Handlers, FrameForwarded(p)
  PROVE  RequestInv'
<1>1. UNCHANGED <<authVars, profile, renames, chatVars, knownBefore>>
  BY DEF FrameForwarded, userVars
<1>2. /\ At(p, "forward") /\ Returned(p) /\ Route(p) = "ws" /\ ~At(p, "answered")
      /\ DOMAIN handler[p] = DOMAIN Idle
  BY RequestFacts DEF FrameForwarded, At
<1>3. PICK s : s = IF Succeeded(p) THEN handler[p]
                   ELSE [handler[p] EXCEPT !.named =
                           Append(@, handler[p].ids[handler[p].next])]
  OBVIOUS
<1>4. PICK c : Become(p, c) /\ c = AfterFrame(s)
  BY <1>3 DEF FrameForwarded, FrameContinued
<1>5. /\ Carried(p, s) /\ s.frame = handler[p].frame /\ s.ids = handler[p].ids
      /\ s.next = handler[p].next /\ s.content = handler[p].content
      /\ s.header = handler[p].header /\ s.request = handler[p].request
      /\ s.named = IF Succeeded(p) THEN handler[p].named
                   ELSE Append(handler[p].named, handler[p].ids[handler[p].next])
  BY ONLY <1>2, <1>3 DEF Carried, Idle
<1>6. /\ s.ids \in Seq(Int32) /\ s.next \in 1 .. Len(s.ids) /\ Len(s.ids) \in Nat
      /\ IsSequence(s.named)
      /\ \A i \in 1 .. s.next : Settled(p, s, i)
      /\ \A i \in DOMAIN s.ids : i > s.next => CopiesOf(p, s, i) = {}
  BY ONLY RequestInv, p \in Handlers, <1>2, <1>5, SettledSoFar
<1>7. \A i \in DOMAIN handed[p] : handed[p][i].frame \in 0 .. s.frame
  BY ONLY RequestInv, p \in Handlers, <1>2, <1>5, FrameRange
<1>8. DOMAIN s = DOMAIN Idle /\ s.request.route = "ws"
  BY ONLY <1>2, <1>5 DEF Carried, Route
<1>9. CASE s.next < Len(s.ids)
  <2>1. c = ForwardToGrpc([s EXCEPT !.next = @ + 1])
    BY ONLY <1>4, <1>9 DEF AfterFrame
  <2>2. NothingYet(p, c) /\ QuestionShape(p, c) /\ LoopShape(c)
    BY ONLY RequestInv, p \in Handlers, <1>2, <1>5, <1>9, <2>1, LoopGoesOn
  <2>3. /\ DOMAIN c = DOMAIN Idle /\ c.pc = "forward"
        /\ c.header = s.header /\ c.request = s.request /\ c.frame = s.frame
        /\ c.ids = s.ids /\ c.next = s.next + 1
        /\ c.named = s.named /\ c.pushed = s.pushed /\ c.rpc.at = "service"
    BY ONLY <1>8, <2>1, NextFields
  <2>4. /\ Carried(p, c) /\ c.request.route = "ws"
        /\ c.header = handler[p].header /\ c.request = handler[p].request
    BY ONLY <1>5, <1>8, <2>3 DEF Carried
  <2>5. SendProgress(p, c)
    BY ONLY <2>4 DEF SendProgress
  <2>6. \A i : CopiesOf(p, c, i) = CopiesOf(p, s, i) /\ (Settled(p, s, i) => Settled(p, c, i))
    BY ONLY <2>3, SettledSame
  <2>7. FrameProgress(p, c)
    <3>1. ~Succeeds(c) /\ ~Returns(c)
      BY ONLY <2>3 DEF Succeeds, Returns
    <3>2. \A i \in DOMAIN c.ids : /\ i < c.next => i \in 1 .. s.next
                                  /\ i >= c.next => i > s.next
      BY ONLY <1>6, <2>3
    <3>3. ASSUME NEW i \in DOMAIN c.ids
          PROVE  /\ i < c.next => Settled(p, c, i)
                 /\ i > c.next => CopiesOf(p, c, i) = {}
                 /\ i = c.next => CopiesOf(p, c, i) = {}
      <4>1. i \in Int /\ c.next \in Int /\ i \in DOMAIN s.ids
        BY ONLY <1>6, <2>3, <3>3
      <4>2. i < c.next => Settled(p, c, i)
        BY ONLY <1>6, <2>6, <3>2, <3>3
      <4>3. i >= c.next => CopiesOf(p, c, i) = {}
        BY ONLY <1>6, <2>6, <3>2, <3>3, <4>1
      <4>4. i > c.next \/ i = c.next => i >= c.next
        BY ONLY <4>1
      <4> QED
        BY ONLY <4>2, <4>3, <4>4
    <3> QED
      BY ONLY <1>6, <1>7, <2>3, <3>1, <3>3 DEF FrameProgress
  <2>8. HandlerInv(p, c)
    BY <2>2, <2>4, <2>5, <2>7, CarriedFacts, ZenonT(30)
  <2> QED
    BY <1>1, <1>2, <1>4, <2>4, <2>8, QuietRequest, ZenonT(30)
<1>10. CASE ~(s.next < Len(s.ids))
  <2>1. c = [s EXCEPT !.pc = "open", !.rpc = NoCall]
    BY ONLY <1>4, <1>10 DEF AfterFrame
  <2>2. /\ DOMAIN c = DOMAIN Idle /\ c.pc = "open"
        /\ c.header = s.header /\ c.request = s.request /\ c.frame = s.frame
        /\ c.ids = s.ids /\ c.named = s.named /\ c.pushed = s.pushed
    BY ONLY <1>8, <2>1 DEF Idle
  <2>3. /\ Carried(p, c) /\ c.request.route = "ws"
        /\ c.header = handler[p].header /\ c.request = handler[p].request
    BY ONLY <1>5, <1>8, <2>2 DEF Carried
  <2>4. NothingYet(p, c) /\ QuestionShape(p, c) /\ LoopShape(c) /\ SendProgress(p, c)
    BY ONLY <2>2, <2>3 DEF NothingYet, QuestionShape, LoopShape, SendProgress
  <2>5. \A i : Settled(p, s, i) => Settled(p, c, i)
    BY ONLY <2>2, SettledSame
  <2>6. \A i \in DOMAIN c.ids : i \in 1 .. s.next
    BY ONLY <1>6, <1>10, <2>2
  <2>7. FrameProgress(p, c)
    BY ONLY <1>6, <1>7, <2>2, <2>5, <2>6 DEF FrameProgress
  <2>8. HandlerInv(p, c)
    BY <2>3, <2>4, <2>7, CarriedFacts, ZenonT(30)
  <2> QED
    BY <1>1, <1>2, <1>4, <2>3, <2>8, QuietRequest, ZenonT(30)
<1> QED
  BY ONLY <1>9, <1>10

\* One more copy is shown, which was not before, as it is.
LEMMA ShownNext ==
  ASSUME NEW r, ShownShape(r), ShownAsSent(r), NEW k \in Handed,
         \A i \in DOMAIN r.pushed : r.pushed[i][1] # k,
         NEW copy, copy = handed[k[1]][k[2]],
         NEW msg, msg.sender_id = ToInt32(copy.sender), msg.content = copy.content,
         NEW c, c.pushed = Append(r.pushed, <<k, msg>>)
  PROVE  ShownShape(c) /\ ShownAsSent(c)
<1>1. PICK q, x, t : q = r.pushed /\ x = <<k, msg>> /\ t = c.pushed
  OBVIOUS
<1>2. /\ IsSequence(q) /\ t = Append(q, x) /\ x[1] = k /\ x[2] = msg
      /\ \A i \in DOMAIN q : q[i][1] \in Handed /\ q[i][1] # k
  BY <1>1 DEF ShownShape
<1>3. /\ IsSequence(t) /\ Len(q) \in Nat
      /\ DOMAIN q = 1 .. Len(q) /\ DOMAIN t = 1 .. Len(q) + 1
      /\ t[Len(q) + 1] = x /\ \A j \in DOMAIN q : t[j] = q[j]
  BY ONLY <1>2, AppendedOne
<1>4. \A i \in DOMAIN t : i \in DOMAIN q \/ i = Len(q) + 1
  BY ONLY <1>3
<1>5. ShownShape(c)
  <2>1. \A i \in DOMAIN t : t[i][1] \in Handed
    BY ONLY <1>2, <1>3, <1>4, k \in Handed
  <2> QED
    BY ONLY <1>1, <1>3, <2>1 DEF ShownShape
<1>6. ShownAsSent(c)
  <2>1. ASSUME NEW i \in DOMAIN t
        PROVE  /\ t[i][2].sender_id = ToInt32(handed[t[i][1][1]][t[i][1][2]].sender)
               /\ t[i][2].content = handed[t[i][1][1]][t[i][1][2]].content
    <3>1. CASE i \in DOMAIN q
      <4>1. /\ q[i][2].sender_id = ToInt32(handed[q[i][1][1]][q[i][1][2]].sender)
            /\ q[i][2].content = handed[q[i][1][1]][q[i][1][2]].content
        BY ONLY <1>1, <3>1, ShownAsSent(r) DEF ShownAsSent
      <4> QED
        BY ONLY <1>3, <3>1, <4>1
    <3>2. CASE i = Len(q) + 1
      <4>1. t[i][1] = k /\ t[i][2] = msg
        BY ONLY <1>2, <1>3, <3>2
      <4> QED
        BY ONLY <4>1, copy = handed[k[1]][k[2]],
                msg.sender_id = ToInt32(copy.sender), msg.content = copy.content
    <3> QED
      BY ONLY <1>4, <2>1, <3>1, <3>2
  <2> QED
    BY ONLY <1>1, <2>1 DEF ShownAsSent
<1> QED
  BY <1>5, <1>6

LEMMA OpenStreamRequest ==
  ASSUME RequestInv, GateInv', NEW p \in Handlers, OpenStream(p)
  PROVE  RequestInv'
<1>1. UNCHANGED <<authVars, profile, renames, chatVars, knownBefore>>
  BY DEF OpenStream, userVars
<1>2. PICK r : r = handler[p]
  OBVIOUS
<1>3. /\ HandlerInv(p, r) /\ DOMAIN r = DOMAIN Idle /\ r.pc \in {"open", "forward"}
      /\ r.request.route = "ws" /\ ~At(p, "answered")
  BY <1>2, RequestFacts DEF OpenStream, Open, At, Route
<1>4. PICK c : Become(p, c) /\ c = [r EXCEPT !.stream = TRUE]
  BY <1>2 DEF OpenStream
<1>5. /\ c.header = r.header /\ c.request = r.request /\ c.pc = r.pc /\ c.ids = r.ids
      /\ c.frame = r.frame /\ c.named = r.named /\ c.next = r.next /\ c.rpc = r.rpc
      /\ c.content = r.content /\ c.pushed = r.pushed /\ DOMAIN c = DOMAIN Idle
  BY ONLY <1>3, <1>4 DEF Idle
<1>6. NothingYet(p, c) /\ QuestionShape(p, c) /\ SendProgress(p, c)
  BY ONLY <1>3, <1>5 DEF NothingYet, QuestionShape, SendProgress
<1>7. LoopShape(c)
  BY ONLY <1>3, <1>5 DEF HandlerInv, LoopShape, Asks
<1>8. FrameProgress(p, c)
  <2>1. Returns(c) = Returns(r) /\ Succeeds(c) = Succeeds(r)
    BY ONLY <1>5 DEF Returns, Succeeds
  <2>2. \A i : CopiesOf(p, c, i) = CopiesOf(p, r, i) /\ (Settled(p, r, i) => Settled(p, c, i))
    BY ONLY <1>5, SettledSame
  <2>3. FrameProgress(p, r)
    BY ONLY <1>3 DEF HandlerInv
  <2> QED
    BY ONLY <1>5, <2>1, <2>2, <2>3 DEF FrameProgress
<1>9. Carried(p, c)
  BY ONLY <1>2, <1>5 DEF Carried
<1>10. HandlerInv(p, c)
  BY <1>6, <1>7, <1>8, <1>9, CarriedFacts, ZenonT(30)
<1>11. c.header = handler[p].header /\ c.request = handler[p].request
  BY ONLY <1>2, <1>5
<1> QED
  BY <1>1, <1>3, <1>4, <1>10, <1>11, QuietRequest, ZenonT(30)

LEMMA StreamDeliversRequest ==
  ASSUME RequestInv, GateInv', NEW p \in Handlers, StreamDelivers(p)
  PROVE  RequestInv'
<1>1. UNCHANGED <<authVars, profile, renames, chatVars, knownBefore>>
  BY DEF StreamDelivers, userVars
<1>2. PICK r : r = handler[p]
  OBVIOUS
<1>3. /\ HandlerInv(p, r) /\ DOMAIN r = DOMAIN Idle /\ r.pc \in {"open", "forward"}
      /\ r.request.route = "ws" /\ ~At(p, "answered")
  BY <1>2, RequestFacts DEF StreamDelivers, Open, At, Route
<1>4. PICK k \in Handed :
        /\ \A i \in DOMAIN r.pushed : r.pushed[i][1] # k
        /\ handed[k[1]][k[2]].receiver = r.header.jwt.id
        /\ LET bytes == Svc!Encode(Svc!StreamMessagesHandler.out,
                          [sender_id |-> ToInt32(handed[k[1]][k[2]].sender),
                           content |-> handed[k[1]][k[2]].content, timestamp |-> Empty]) IN
             Become(p, [r EXCEPT !.pushed =
                          Append(@, <<k, Gw!Decode(Gw!StreamMessages.out, bytes)>>)])
  BY <1>2 DEF StreamDelivers
<1>5. PICK copy, msg, c :
        /\ copy = handed[k[1]][k[2]] /\ Become(p, c)
        /\ c = [r EXCEPT !.pushed = Append(@, <<k, msg>>)]
        /\ msg = Gw!Decode(Gw!StreamMessages.out,
                   Svc!Encode(Svc!StreamMessagesHandler.out,
                     [sender_id |-> ToInt32(copy.sender), content |-> copy.content,
                      timestamp |-> Empty]))
  BY <1>4
<1>6. msg.sender_id = ToInt32(copy.sender) /\ msg.content = copy.content
  <2>1. Gw!StreamMessages.out = Gw!StreamMessagesResponse
        /\ Svc!StreamMessagesHandler.out = Svc!StreamMessagesResponse
    BY ONLY TRUE DEF Gw!StreamMessages, Gw!Method, Svc!StreamMessagesHandler, Svc!Handler
  <2>2. PICK x, y, z : /\ x = ToInt32(copy.sender) /\ y = copy.content /\ z = Empty
                       /\ msg = Gw!Decode(Gw!StreamMessagesResponse,
                                  Svc!Encode(Svc!StreamMessagesResponse,
                                    [sender_id |-> x, content |-> y, timestamp |-> z]))
    BY ONLY <1>5, <2>1
  <2>3. msg.sender_id = x /\ msg.content = y
    BY ONLY <2>2, StreamTrip
  <2> QED
    BY ONLY <2>2, <2>3
<1>7. /\ c.header = r.header /\ c.request = r.request /\ c.pc = r.pc /\ c.ids = r.ids
      /\ c.frame = r.frame /\ c.named = r.named /\ c.next = r.next /\ c.rpc = r.rpc
      /\ c.content = r.content /\ c.pushed = Append(r.pushed, <<k, msg>>)
  BY ONLY <1>3, <1>5 DEF Idle
<1>8. NothingYet(p, c) /\ QuestionShape(p, c) /\ SendProgress(p, c)
  BY ONLY <1>3, <1>7 DEF NothingYet, QuestionShape, SendProgress
<1>9. LoopShape(c)
  BY ONLY <1>3, <1>7 DEF HandlerInv, LoopShape, Asks
<1>10. FrameProgress(p, c)
  <2>1. Returns(c) = Returns(r) /\ Succeeds(c) = Succeeds(r)
    BY ONLY <1>7 DEF Returns, Succeeds
  <2>2. \A i : CopiesOf(p, c, i) = CopiesOf(p, r, i) /\ (Settled(p, r, i) => Settled(p, c, i))
    BY ONLY <1>7, SettledSame
  <2>3. FrameProgress(p, r)
    BY ONLY <1>3 DEF HandlerInv
  <2> QED
    BY ONLY <1>7, <2>1, <2>2, <2>3 DEF FrameProgress
<1>11. ShownShape(c) /\ ShownAsSent(c)
  <2>1. ShownShape(r) /\ ShownAsSent(r)
    BY ONLY <1>3 DEF HandlerInv
  <2>2. \A i \in DOMAIN r.pushed : r.pushed[i][1] # k
    BY ONLY <1>4
  <2>3. k \in Handed /\ copy = handed[k[1]][k[2]]
    BY ONLY <1>4, <1>5
  <2> QED
    BY ONLY <1>6, <1>7, <2>1, <2>2, <2>3, ShownNext
<1>12. /\ \A i \in DOMAIN handed[p] : AsAsked(c, handed[p][i])
       /\ \A q \in knownBefore[p].acknowledged : q \in Handlers /\ Acknowledged(q)
  <2>1. \A x : AsAsked(r, x) => AsAsked(c, x)
    BY ONLY <1>7, SameAsker
  <2> QED
    BY ONLY <1>3, <2>1 DEF HandlerInv
<1>13. HandlerInv(p, c)
  BY ONLY <1>8, <1>9, <1>10, <1>11, <1>12 DEF HandlerInv
<1>14. c.header = handler[p].header /\ c.request = handler[p].request
  BY ONLY <1>2, <1>7
<1> QED
  BY <1>1, <1>3, <1>5, <1>13, <1>14, QuietRequest, ZenonT(30)

-----------------------------------------------------------------------------
(* A request comes in.                                                     *)

LEMMA FreshFields ==
  ASSUME NEW r, DOMAIN r = DOMAIN Idle, r.pushed = <<>>, r.ids = <<>>, r.frame = 0,
         NEW msg, NEW c, \/ c = [r EXCEPT !.pc = "handle"]
                         \/ c = Answer(r, 401, Empty)
                         \/ c = Call(r, "authenticate", Gw!VerifyToken, msg, <<>>)
  PROVE  /\ c.pushed = <<>> /\ c.ids = <<>> /\ c.frame = 0
         /\ c.pc \in {"handle", "authenticate", "answered"}
         /\ c.pc = "answered" => c.answer.status # 200
<1>1. DOMAIN r = DOMAIN Idle /\ r.pushed = <<>> /\ r.ids = <<>> /\ r.frame = 0
  OBVIOUS
<1>2. CASE c = [r EXCEPT !.pc = "handle"]
  BY ONLY <1>1, <1>2 DEF Idle
<1>3. CASE c = Answer(r, 401, Empty)
  <2>1. PICK status : c = Answer(r, status, Empty) /\ status # 200
    BY ONLY <1>3
  <2>2. c.pushed = r.pushed /\ c.ids = r.ids /\ c.frame = r.frame /\ c.pc = "answered"
        /\ c.answer.status = status
    BY ONLY <1>1, <2>1, AnswerFields
  <2> QED
    BY ONLY <1>1, <2>1, <2>2
<1>4. CASE c = Call(r, "authenticate", Gw!VerifyToken, msg, <<>>)
  <2>1. c.pushed = r.pushed /\ c.ids = r.ids /\ c.frame = r.frame /\ c.pc = "authenticate"
    BY ONLY <1>1, <1>4, CallFields
  <2> QED
    BY ONLY <1>1, <2>1
<1> QED
  BY <1>2, <1>3, <1>4

\* A handler that has done nothing yet, after a step.
LEMMA FreshSo ==
  ASSUME NEW p \in Handlers, handed'[p] = <<>>, NEW c, c.pushed = <<>>, c.ids = <<>>,
         c.frame = 0, c.pc \in {"handle", "authenticate", "call", "answered"},
         c.pc = "answered" => c.answer.status # 200, QuestionShape(p, c)',
         \A x \in knownBefore'[p].acknowledged : x \in Handlers /\ Acknowledged(x)'
  PROVE  HandlerInv(p, c)'
<1>1. NothingYet(p, c)' /\ LoopShape(c)'
  BY DEF NothingYet, LoopShape
<1>2. SendProgress(p, c)'
  <2>1. c.pc = "answered" => AnswerTells(p, c)'
    <3>1. [i \in DOMAIN handed'[p] |-> handed'[p][i].receiver] = <<>>
      OBVIOUS
    <3> QED
      BY ONLY <3>1, c.ids = <<>>, c.pc = "answered" => c.answer.status # 200 DEF AnswerTells
  <2> QED
    BY ONLY <2>1, c.pc \in {"handle", "authenticate", "call", "answered"} DEF SendProgress
<1>3. FrameProgress(p, c)'
  BY ONLY handed'[p] = <<>>, c.ids = <<>>, c.pc \in {"handle", "authenticate", "call", "answered"}
  DEF FrameProgress
<1>4. ShownShape(c)' /\ ShownAsSent(c)'
  <2>1. DOMAIN c.pushed = {} /\ IsSequence(c.pushed)
    BY ONLY c.pushed = <<>> DEF IsSequence
  <2> QED
    BY ONLY <2>1 DEF ShownShape, ShownAsSent, IsSequence
<1>5. \A i \in DOMAIN handed'[p] : AsAsked(c, handed[p][i])'
  BY ONLY handed'[p] = <<>>
<1> QED
  BY ONLY <1>1, <1>2, <1>3, <1>4, <1>5, QuestionShape(p, c)',
          \A x \in knownBefore'[p].acknowledged : x \in Handlers /\ Acknowledged(x)'
  DEF HandlerInv

LEMMA ReceiveRequest ==
  ASSUME RequestInv, GateInv', NEW p \in Handlers, Receive(p)
  PROVE  RequestInv'
<1>1. UNCHANGED <<otp, saved, issued, profile, renames, handed, messages>>
  BY DEF Receive, authVars, userVars, chatVars
<1>2. At(p, "idle") /\ ~At(p, "answered") /\ NothingYet(p, handler[p]) /\ NothingBefore(p)
      /\ GateInv
  BY RequestFacts DEF Receive, At, GateInv
<1>3. PICK q, h, r :
        /\ r = [Idle EXCEPT !.request = q, !.header = h]
        /\ Become(p, IF q.route \notin Protected THEN [r EXCEPT !.pc = "handle"]
                     ELSE IF h = Empty THEN Answer(r, 401, Empty)
                     ELSE Call(r, "authenticate", Gw!VerifyToken, [token |-> h], <<>>))
  BY DEF Receive
<1>4. PICK msg, c : /\ Become(p, c)
                    /\ \/ c = [r EXCEPT !.pc = "handle"]
                       \/ c = Answer(r, 401, Empty)
                       \/ c = Call(r, "authenticate", Gw!VerifyToken, msg, <<>>)
  <2>1. PICK msg : msg = [token |-> h]
    OBVIOUS
  <2>2. CASE Become(p, [r EXCEPT !.pc = "handle"])
    BY ONLY <2>2
  <2>3. CASE Become(p, Answer(r, 401, Empty))
    BY ONLY <2>3
  <2>4. CASE Become(p, Call(r, "authenticate", Gw!VerifyToken, msg, <<>>))
    BY ONLY <2>4
  <2> QED
    BY ONLY <1>3, <2>1, <2>2, <2>3, <2>4
<1>5. handler'[p] = c /\ \A x \in Handlers \ {p} : handler'[x] = handler[x]
  BY ONLY p \in Handlers, <1>2, <1>4, BecameFacts
<1>6. /\ \A x \in Handlers \ {p} : knownBefore'[x] = knownBefore[x]
      /\ knownBefore'[p].acknowledged = {x \in Handlers : Acknowledged(x)}
  <2>1. knownBefore = [x \in Handlers |-> knownBefore[x]]
    BY <1>2 DEF GateInv, TypeOK
  <2> QED
    BY <2>1 DEF Receive
<1>7. StepOf(p)
  BY <1>1, <1>2, <1>5, <1>6 DEF StepOf, Kept
<1>8. \A x \in knownBefore'[p].acknowledged : x \in Handlers /\ Acknowledged(x)'
  BY <1>6, <1>7, AcknowledgedKept
<1>9. handed[p] = <<>> /\ handed'[p] = <<>>
  BY <1>1, <1>2 DEF NothingYet, At
<1>10. HandlerInv(p, c)'
  <2>1. /\ c.pushed = <<>> /\ c.ids = <<>> /\ c.frame = 0
        /\ c.pc \in {"handle", "authenticate", "answered"}
        /\ c.pc = "answered" => c.answer.status # 200
    <3>1. DOMAIN r = DOMAIN Idle /\ r.pushed = <<>> /\ r.ids = <<>> /\ r.frame = 0
      BY ONLY <1>3 DEF Idle
    <3> QED
      BY ONLY <1>4, <3>1, FreshFields
  <2>2. QuestionShape(p, c)'
    BY ONLY <2>1 DEF QuestionShape
  <2> QED
    BY ONLY p \in Handlers, <1>8, <1>9, <2>1, <2>2, FreshSo
<1>11. HandlerInv(p, handler[p])'
  BY ONLY <1>5, <1>10
<1>12. TablesInv'
  <2>1. ASSUME NEW x \in renames
        PROVE  RenamedAsAsked(x)'
    <3>1. x.by \in Handlers \ {p} /\ RenamedAsAsked(x)
      BY <1>2 DEF RequestInv, TablesInv, GateInv, NothingBefore
    <3>2. handler'[x.by] = handler[x.by]
      BY <1>5, <3>1
    <3> QED
      BY <3>1, <3>2 DEF RenamedAsAsked, Body
  <2> QED
    BY <1>1, <2>1 DEF RequestInv, TablesInv, IsSequence, NamesOf
<1> QED
  BY <1>7, <1>11, <1>12, RequestStep

LEMMA TickRequest ==
  ASSUME RequestInv, GateInv', UNCHANGED <<handler, authVars, userVars, chatVars, knownBefore>>
  PROVE  RequestInv'
<1>1. /\ handler' = handler /\ issued' = issued /\ profile' = profile /\ renames' = renames
      /\ handed' = handed /\ messages' = messages /\ knownBefore' = knownBefore
  BY DEF authVars, userVars, chatVars
<1>2. /\ \A p, c : Stored(p, c)' = Stored(p, c)
      /\ \A p, r, i : CopiesOf(p, r, i)' = CopiesOf(p, r, i)
      /\ \A p, r, s : Told(p, r, s)' = Told(p, r, s)
      /\ \A u, row : NamesOf(u, row)' = NamesOf(u, row)
      /\ \A r, c : AsAsked(r, c)' = AsAsked(r, c)
      /\ \A p : Acknowledged(p)' = Acknowledged(p)
      /\ Handed' = Handed
  <2>1. \A p, c : Stored(p, c)' = Stored(p, c)
    BY ONLY <1>1 DEF Stored
  <2>2. \A p, r, i : CopiesOf(p, r, i)' = CopiesOf(p, r, i)
    BY ONLY <1>1 DEF CopiesOf
  <2>3. \A p, r, s : Told(p, r, s)' = Told(p, r, s)
    BY ONLY <1>1 DEF Told
  <2>4. \A u, row : NamesOf(u, row)' = NamesOf(u, row)
    BY ONLY <1>1 DEF NamesOf
  <2>5. \A r, c : AsAsked(r, c)' = AsAsked(r, c)
    BY ONLY <1>1 DEF AsAsked
  <2>6. \A p : Acknowledged(p)' = Acknowledged(p)
    BY ONLY <1>1 DEF Acknowledged, At, Route
  <2>7. Handed' = Handed
    BY ONLY <1>1 DEF Handed
  <2> QED
    BY <2>1, <2>2, <2>3, <2>4, <2>5, <2>6, <2>7
<1>3. /\ \A p, r : NothingYet(p, r)' = NothingYet(p, r)
      /\ \A r : LoopShape(r)' = LoopShape(r)
      /\ \A r : ShownShape(r)' = ShownShape(r)
      /\ \A r : ShownAsSent(r)' = ShownAsSent(r)
  <2>1. \A p, r : NothingYet(p, r)' = NothingYet(p, r)
    BY ONLY <1>1 DEF NothingYet
  <2>2. \A r : ShownShape(r)' = ShownShape(r)
    BY ONLY <1>1, <1>2 DEF ShownShape
  <2>3. \A r : ShownAsSent(r)' = ShownAsSent(r)
    BY ONLY <1>1 DEF ShownAsSent
  <2> QED
    BY <2>1, <2>2, <2>3
<1>4. \A p, r, body : TrueAnswer(p, r, body)' = TrueAnswer(p, r, body)
  BY ONLY <1>1, <1>2 DEF TrueAnswer
<1>5. \A p, r : QuestionShape(p, r) => QuestionShape(p, r)'
  BY ONLY <1>4, ZenonT(60) DEF QuestionShape
<1>6. \A p, r : SendProgress(p, r) => SendProgress(p, r)'
  <2>1. \A p, r : AnswerTells(p, r) => AnswerTells(p, r)'
    <3> SUFFICES ASSUME NEW p, NEW r, AnswerTells(p, r)
                 PROVE  AnswerTells(p, r)'
      OBVIOUS
    <3> DEFINE served == [i \in DOMAIN handed[p] |-> handed[p][i].receiver]
    <3>1. served' = served
      BY ONLY <1>1
    <3>2. DOMAIN handed'[p] = DOMAIN handed[p] /\ handed'[p] = handed[p]
      BY ONLY <1>1
    <3>3. AnswerTells(p, r)' =
            IF r.answer.status = 200
            THEN served' = r.ids /\ (\A i \in DOMAIN handed[p] : Stored(p, handed[p][i]))'
            ELSE \/ r.ids = <<>> /\ served' = <<>>
                 \/ served' \in {SubSeq(r.ids, 1, r.next - 1), SubSeq(r.ids, 1, r.next)}
      BY ONLY DEF AnswerTells
    <3>4. AnswerTells(p, r) =
            IF r.answer.status = 200
            THEN served = r.ids /\ \A i \in DOMAIN handed[p] : Stored(p, handed[p][i])
            ELSE \/ r.ids = <<>> /\ served = <<>>
                 \/ served \in {SubSeq(r.ids, 1, r.next - 1), SubSeq(r.ids, 1, r.next)}
      BY ONLY DEF AnswerTells
    <3> HIDE DEF served
    <3> QED
      BY <1>2, <3>1, <3>2, <3>3, <3>4
  <2> QED
    BY ONLY <1>1, <1>2, <2>1 DEF SendProgress
<1>7. \A p, r : FrameProgress(p, r) => FrameProgress(p, r)'
  <2>1. \A p, r, i : Settled(p, r, i)' = Settled(p, r, i)
    BY ONLY <1>1, <1>2 DEF Settled
  <2> QED
    BY ONLY <1>1, <1>2, <2>1 DEF FrameProgress
<1>8. \A p, r : HandlerInv(p, r) => HandlerInv(p, r)'
  BY ONLY <1>1, <1>2, <1>3, <1>5, <1>6, <1>7 DEF HandlerInv
<1>9. TablesInv'
  BY <1>1, <1>2 DEF RequestInv, TablesInv, RenamedAsAsked, Body
<1> QED
  BY <1>1, <1>8, <1>9 DEF RequestInv

-----------------------------------------------------------------------------
(* The steps of the services.                                              *)

\* Who is waiting for a service, and for which.
LEMMA Waiting ==
  ASSUME RequestInv, NEW p \in Handlers, NEW r, r = handler[p], r.rpc.at = "service"
  PROVE  \/ /\ r.pc = "authenticate" /\ r.rpc.path = Gw!VerifyToken.path
         \/ /\ r.pc = "call" /\ r.request.route \in OneCall
            /\ r.rpc.path = Stub(r.request.route).path
            /\ r.rpc.bytes = Gw!Encode(Stub(r.request.route).in, Question(r))
            /\ r.request.route \in {"update", "list", "by sender"} => r.rpc.md = <<r.header>>
         \/ r.pc = "forward" /\ r.rpc.path = Gw!SendMessage.path
<1>1. QuestionShape(p, r) /\ LoopShape(r) /\ r.pc \in {"authenticate", "call", "forward"}
  BY RequestFacts
<1>2. r.pc = "authenticate" => r.rpc.path = Gw!VerifyToken.path
  BY DEF RequestInv, GateInv, CallShape
<1> QED
  BY <1>1, <1>2 DEF QuestionShape, LoopShape

\* The tables are as they were, and whom they concern too.
LEMMA TablesKept ==
  ASSUME RequestInv, NEW p \in Handlers, NEW c, Become(p, c),
         c.header = handler[p].header, c.request = handler[p].request,
         UNCHANGED <<messages, profile, renames>>
  PROVE  TablesInv'
<1>1. handler'[p] = c /\ \A q \in Handlers \ {p} : handler'[q] = handler[q]
  BY BecameFacts DEF RequestInv
<1>2. \A x \in renames : x.by \in Handlers /\ RenamedAsAsked(x)
  BY DEF RequestInv, GateInv, TablesInv
<1>3. \A q \in Handlers : /\ handler'[q].header = handler[q].header
                          /\ handler'[q].request = handler[q].request
  BY <1>1
<1>4. \A x \in renames' : RenamedAsAsked(x)'
  BY <1>2, <1>3 DEF RenamedAsAsked, Body
<1> QED
  BY <1>4 DEF RequestInv, TablesInv, IsSequence, NamesOf

\* What the call of a handler has brought.
Came(r, x) == [r EXCEPT !.rpc = x]

\* An answer of a service to the middleware or to a handler of one call.
LEMMA ReplySo ==
  ASSUME RequestInv, GateInv', NEW p \in Handlers, NEW r, r = handler[p],
         r.rpc.at = "service", r.pc \in {"authenticate", "call"},
         NEW x, x.at = "gateway", NEW c, c = Came(r, x), Become(p, c),
         x.ok /\ r.pc = "call" =>
           TrueAnswer(p, c, Gw!Decode(Stub(r.request.route).out, x.bytes))',
         UNCHANGED <<handed, messages, knownBefore>>,
         issued \subseteq issued', renames \subseteq renames', TablesInv'
  PROVE  RequestInv'
<1>1. /\ c.header = r.header /\ c.request = r.request /\ c.pc = r.pc /\ c.ids = r.ids
      /\ c.frame = r.frame /\ c.pushed = r.pushed /\ c.rpc = x
  BY RequestFacts DEF Idle, Came
<1>2. handler'[p] = c /\ \A q \in Handlers \ {p} : handler'[q] = handler[q]
  BY BecameFacts DEF RequestInv
<1>3. NothingYet(p, r) /\ QuestionShape(p, r)
      /\ \A q \in knownBefore[p].acknowledged : q \in Handlers /\ Acknowledged(q)
  BY RequestFacts DEF HandlerInv
<1>4. handed[p] = <<>> /\ c.ids = <<>> /\ c.frame = 0 /\ c.pushed = <<>>
  BY <1>1, <1>3 DEF NothingYet
<1>5. StepOf(p)
  BY <1>2 DEF StepOf, Kept, At
<1>6. \A q \in knownBefore'[p].acknowledged : q \in Handlers /\ Acknowledged(q)'
  BY <1>3, <1>5, AcknowledgedKept
<1>7. QuestionShape(p, c)'
  BY <1>1, <1>3 DEF QuestionShape
<1>8. HandlerInv(p, c)'
  BY <1>1, <1>4, <1>6, <1>7, FreshSo
<1>9. HandlerInv(p, handler[p])'
  BY <1>2, <1>8
<1> QED
  BY <1>5, <1>9, RequestStep

\* The method that was reached tells which route asks, and what.
RouteOf(name) == CASE name = "Login" -> "login"
                   [] name = "VerifyOTP" -> "verify otp"
                   [] name = "VerifyToken" -> "verify token"
                   [] name = "GetAllUsers" -> "users"
                   [] name = "UpdateUser" -> "update"
                   [] name = "ListMessage" -> "list"
                   [] name = "ListMessageBySender" -> "by sender"

AsksFor(r, name) ==
  /\ r.rpc.at = "service"
  /\ \/ r.pc = "authenticate" /\ name = "VerifyToken"
     \/ /\ r.pc = "call" /\ r.request.route = RouteOf(name)
        /\ r.request.route \in OneCall /\ name # "SendMessage"
        /\ r.rpc.bytes = Gw!Encode(Stub(r.request.route).in, Question(r))
        /\ r.request.route \in {"update", "list", "by sender"} => r.rpc.md = <<r.header>>
     \/ r.pc = "forward" /\ name = "SendMessage"

LEMMA Asker ==
  ASSUME RequestInv, NEW p \in Handlers, NEW r, r = handler[p], NEW desc, NEW h,
         Reached(p, desc, h)
  PROVE  AsksFor(r, h.name)
<1>1. r.rpc.at = "service" /\ r.rpc.path[2] = h.name
  BY DEF Reached, Svc!Leads
<1>2. Gw!SendMessage.path[2] = "SendMessage"
  BY ONLY TRUE DEF Gw!SendMessage, Gw!Method
<1>3. \A route \in OneCall : /\ RouteOf(Stub(route).path[2]) = route
                             /\ Stub(route).path[2] # "SendMessage"
  <2>1. /\ Stub("login").path[2] = "Login" /\ Stub("verify otp").path[2] = "VerifyOTP"
        /\ Stub("verify token").path[2] = "VerifyToken"
        /\ Stub("users").path[2] = "GetAllUsers" /\ Stub("update").path[2] = "UpdateUser"
        /\ Stub("list").path[2] = "ListMessage"
        /\ Stub("by sender").path[2] = "ListMessageBySender"
    BY ONLY StubNames DEF Stub
  <2> QED
    BY ONLY <2>1 DEF OneCall, RouteOf
<1> QED
  BY ONLY RequestInv, p \in Handlers, r = handler[p], <1>1, <1>2, <1>3, StubNames, Waiting,
          ZenonT(60)
  DEF AsksFor

LEMMA CallFailsRequest ==
  ASSUME RequestInv, GateInv', NEW p \in Handlers, CallFails(p)
  PROVE  RequestInv'
<1>1. /\ UNCHANGED <<authVars, profile, renames, chatVars, knownBefore>>
      /\ UNCHANGED <<issued, profile, renames, handed, messages, knownBefore>>
  BY DEF CallFails, authVars, userVars, chatVars
<1>2. PICK r, x, c : /\ r = handler[p] /\ x = [at |-> "gateway", ok |-> FALSE]
                     /\ c = Came(r, x) /\ Become(p, c)
  BY DEF CallFails, Refuse, Came
<1>3. /\ r.rpc.at = "service" /\ DOMAIN r = DOMAIN Idle /\ x.at = "gateway" /\ ~x.ok
      /\ ~At(p, "answered") /\ r.pc \in {"authenticate", "call", "forward"}
  BY <1>2, RequestFacts DEF CallFails, At
<1>4. /\ c.header = r.header /\ c.request = r.request /\ c.pc = r.pc /\ c.ids = r.ids
      /\ c.frame = r.frame /\ c.pushed = r.pushed /\ c.rpc = x /\ c.next = r.next
      /\ c.content = r.content /\ c.named = r.named /\ DOMAIN c = DOMAIN Idle
  BY ONLY <1>2, <1>3 DEF Idle, Came
<1>5. TablesInv'
  BY <1>1, <1>2, <1>4, TablesKept
<1>6. CASE r.pc \in {"authenticate", "call"}
  BY <1>1, <1>2, <1>3, <1>5, <1>6, ReplySo
<1>7. CASE r.pc = "forward"
  <2>1. LoopShape(r) /\ SendProgress(p, r) /\ FrameProgress(p, r)
    BY <1>2, RequestFacts
  <2>2. ~Returns(r) /\ ~Succeeds(r) /\ Returns(c) /\ ~Succeeds(c)
    BY ONLY <1>3, <1>4 DEF Returns, Succeeds
  <2>3. NothingYet(p, c) /\ QuestionShape(p, c)
    BY ONLY <1>4, <1>7 DEF NothingYet, QuestionShape
  <2>4. LoopShape(c)
    BY ONLY <1>3, <1>4, <2>1 DEF LoopShape, Asks
  <2>5. SendProgress(p, c)
    BY ONLY <1>4, <1>7, <2>1, <2>2 DEF SendProgress
  <2>6. FrameProgress(p, c)
    <3>1. \A i : CopiesOf(p, c, i) = CopiesOf(p, r, i) /\ (Settled(p, r, i) => Settled(p, c, i))
      BY ONLY <1>4, SettledSame
    <3> QED
      BY ONLY <1>4, <1>7, <2>1, <2>2, <3>1 DEF FrameProgress
  <2>7. Carried(p, c) /\ c.header = handler[p].header /\ c.request = handler[p].request
    BY ONLY <1>2, <1>4 DEF Carried
  <2>8. HandlerInv(p, c)
    BY <2>3, <2>4, <2>5, <2>6, <2>7, CarriedFacts, ZenonT(30)
  <2> QED
    BY <1>1, <1>2, <1>3, <2>7, <2>8, QuietRequest, ZenonT(30)
<1> QED
  BY <1>3, <1>6, <1>7

\* What comes back from a service.
LEMMA ReplyRecord ==
  ASSUME NEW p, NEW r, r = handler[p], NEW h, NEW msg, Reply(p, h, msg)
  PROVE  \E x, c : /\ x.at = "gateway" /\ x.bytes = Svc!Encode(h.out, msg)
                   /\ c = Came(r, x) /\ Become(p, c)
<1>1. PICK x : /\ x = [at |-> "gateway", ok |-> TRUE, bytes |-> Svc!Encode(h.out, msg)]
               /\ Become(p, Came(r, x))
  BY DEF Reply, Came
<1>2. x.at = "gateway" /\ x.bytes = Svc!Encode(h.out, msg)
  BY ONLY <1>1
<1> QED
  BY ONLY <1>1, <1>2

LEMMA RefuseRecord ==
  ASSUME NEW p, NEW r, r = handler[p], Refuse(p)
  PROVE  \E x, c : /\ x.at = "gateway" /\ ~x.ok
                   /\ c = Came(r, x) /\ Become(p, c)
<1>1. PICK x : x = [at |-> "gateway", ok |-> FALSE] /\ Become(p, Came(r, x))
  BY DEF Refuse, Came
<1>2. x.at = "gateway" /\ ~x.ok
  BY ONLY <1>1
<1> QED
  BY ONLY <1>1, <1>2

LEMMA AuthLoginRequest ==
  ASSUME RequestInv, GateInv', NEW p \in Handlers, AuthLogin(p)
  PROVE  RequestInv'
<1>1. UNCHANGED <<issued, profile, renames, handed, messages, knownBefore>>
  BY DEF AuthLogin, userVars, chatVars
<1>2. PICK r : r = handler[p]
  OBVIOUS
<1>3. r.rpc.at = "service" /\ r.pc = "call" /\ r.request.route = "login"
  <2>1. PICK desc, h : Reached(p, desc, h) /\ h.name = "Login"
    BY HandlerNames DEF AuthLogin
  <2>2. AsksFor(r, "Login")
    BY <1>2, <2>1, Asker, ZenonT(30)
  <2> QED
    BY ONLY <2>2 DEF AsksFor, RouteOf
<1>4. PICK x, c : x.at = "gateway" /\ c = Came(r, x) /\ Become(p, c)
  BY <1>2, ReplyRecord, RefuseRecord DEF AuthLogin
<1>5. c.header = r.header /\ c.request = r.request
  BY <1>2, <1>4, RequestFacts DEF Idle, Came
<1>6. TrueAnswer(p, c, Gw!Decode(Stub(r.request.route).out, x.bytes))'
  BY ONLY <1>3, <1>5 DEF TrueAnswer
<1>7. TablesInv'
  BY <1>1, <1>2, <1>4, <1>5, TablesKept
<1> QED
  BY <1>1, <1>2, <1>3, <1>4, <1>6, <1>7, ReplySo

\* The messages that the stubs and the handlers take and give.
LEMMA Signatures ==
  /\ Stub("verify otp").in = Gw!OTPRequest /\ Stub("verify otp").out = Gw!AuthResponse
  /\ Svc!VerifyOTPHandler.in = Svc!OTPRequest /\ Svc!VerifyOTPHandler.out = Svc!AuthResponse
  /\ Stub("verify token").in = Gw!TokenRequest /\ Stub("verify token").out = Gw!TokenResponse
  /\ Svc!VerifyTokenHandler.in = Svc!TokenRequest
  /\ Svc!VerifyTokenHandler.out = Svc!TokenResponse
  /\ Stub("users").out = Gw!UsersList /\ Svc!GetAllUsersHandler.out = Svc!UsersList
  /\ Stub("update").in = Gw!UpdateUserRequest /\ Svc!UpdateUserHandler.in = Svc!UpdateUserRequest
  /\ Stub("list").out = Gw!ListMessageResponse
  /\ Svc!ListMessageHandler.out = Svc!ListMessageResponse
  /\ Stub("by sender").in = Gw!ListMessageBySenderRequest
  /\ Svc!ListMessageBySenderHandler.in = Svc!ListMessageBySenderRequest
  /\ Stub("by sender").out = Gw!ListMessageBySenderResponse
  /\ Svc!ListMessageBySenderHandler.out = Svc!ListMessageBySenderResponse
<1>1. /\ Stub("verify otp") = Gw!VerifyOTP /\ Stub("verify token") = Gw!VerifyToken
      /\ Stub("users") = Gw!GetAllUsers /\ Stub("update") = Gw!UpdateUser
      /\ Stub("list") = Gw!ListMessage /\ Stub("by sender") = Gw!ListMessageBySender
  BY DEF Stub
<1>2. /\ Gw!VerifyOTP.in = Gw!OTPRequest /\ Gw!VerifyOTP.out = Gw!AuthResponse
      /\ Gw!VerifyToken.in = Gw!TokenRequest /\ Gw!VerifyToken.out = Gw!TokenResponse
      /\ Gw!GetAllUsers.out = Gw!UsersList /\ Gw!UpdateUser.in = Gw!UpdateUserRequest
      /\ Gw!ListMessage.out = Gw!ListMessageResponse
      /\ Gw!ListMessageBySender.in = Gw!ListMessageBySenderRequest
      /\ Gw!ListMessageBySender.out = Gw!ListMessageBySenderResponse
  BY DEF Gw!VerifyOTP, Gw!VerifyToken, Gw!GetAllUsers, Gw!UpdateUser, Gw!ListMessage,
         Gw!ListMessageBySender, Gw!Method
<1>3. /\ Svc!VerifyOTPHandler.in = Svc!OTPRequest /\ Svc!VerifyOTPHandler.out = Svc!AuthResponse
      /\ Svc!VerifyTokenHandler.in = Svc!TokenRequest
      /\ Svc!VerifyTokenHandler.out = Svc!TokenResponse
      /\ Svc!GetAllUsersHandler.out = Svc!UsersList
      /\ Svc!UpdateUserHandler.in = Svc!UpdateUserRequest
      /\ Svc!ListMessageHandler.out = Svc!ListMessageResponse
      /\ Svc!ListMessageBySenderHandler.in = Svc!ListMessageBySenderRequest
      /\ Svc!ListMessageBySenderHandler.out = Svc!ListMessageBySenderResponse
  BY DEF Svc!VerifyOTPHandler, Svc!VerifyTokenHandler, Svc!GetAllUsersHandler,
         Svc!UpdateUserHandler, Svc!ListMessageHandler, Svc!ListMessageBySenderHandler,
         Svc!Handler
<1> QED
  BY ONLY <1>1, <1>2, <1>3

LEMMA AuthVerifyOTPRequest ==
  ASSUME RequestInv, GateInv', NEW p \in Handlers, AuthVerifyOTP(p)
  PROVE  RequestInv'
<1>1. UNCHANGED <<profile, renames, handed, messages, knownBefore>>
  BY DEF AuthVerifyOTP, userVars, chatVars
<1>2. PICK r : r = handler[p]
  OBVIOUS
<1>3. /\ r.rpc.at = "service" /\ r.pc = "call" /\ r.request.route = "verify otp"
      /\ r.rpc.bytes = Gw!Encode(Stub("verify otp").in, Question(r))
  <2>1. PICK desc, h : Reached(p, desc, h) /\ h.name = "VerifyOTP"
    BY HandlerNames DEF AuthVerifyOTP
  <2>2. AsksFor(r, "VerifyOTP")
    BY <1>2, <2>1, Asker, ZenonT(30)
  <2> QED
    BY ONLY <2>2 DEF AsksFor, RouteOf
<1>4. PICK req, jwt, u :
        /\ req = Svc!Decode(Svc!VerifyOTPHandler.in, r.rpc.bytes)
        /\ jwt = CreateToken(u, Mail(u), now) /\ req.email = Mail(u)
        /\ \/ /\ issued' = issued \cup {jwt}
              /\ Reply(p, Svc!VerifyOTPHandler,
                       [message |-> "verified", user |-> <<>>, token |-> jwt])
           \/ issued' = issued /\ Refuse(p)
  BY <1>2 DEF AuthVerifyOTP, Request
<1>5. jwt.email = r.request.body.email
  <2>1. PICK x, y : x = r.request.body.email /\ y = r.request.body.code
    OBVIOUS
  <2>2. Question(r) = [email |-> x, code |-> y]
    BY ONLY <1>3, <2>1 DEF Question
  <2>3. req = Svc!Decode(Svc!OTPRequest, Gw!Encode(Gw!OTPRequest, [email |-> x, code |-> y]))
    BY ONLY <1>3, <1>4, <2>2, Signatures
  <2>4. req.email = x
    BY ONLY <2>3, OTPTrip
  <2>5. jwt.email = Mail(u)
    BY ONLY <1>4 DEF CreateToken
  <2> QED
    BY ONLY <1>4, <2>1, <2>4, <2>5
<1>6. PICK x, c : /\ x.at = "gateway" /\ c = Came(r, x) /\ Become(p, c)
                  /\ x.ok => /\ issued' = issued \cup {jwt}
                             /\ x.bytes = Svc!Encode(Svc!VerifyOTPHandler.out,
                                  [message |-> "verified", user |-> <<>>, token |-> jwt])
  <2>1. PICK m : m = [message |-> "verified", user |-> <<>>, token |-> jwt]
    OBVIOUS
  <2>2. CASE issued' = issued \cup {jwt} /\ Reply(p, Svc!VerifyOTPHandler, m)
    <3>1. \E x, c : /\ x.at = "gateway" /\ x.bytes = Svc!Encode(Svc!VerifyOTPHandler.out, m)
                    /\ c = Came(r, x) /\ Become(p, c)
      BY ONLY <1>2, <2>2, ReplyRecord
    <3> QED
      BY ONLY <2>1, <2>2, <3>1
  <2>3. CASE Refuse(p)
    <3>1. \E x, c : x.at = "gateway" /\ ~x.ok /\ c = Came(r, x) /\ Become(p, c)
      BY <1>2, <2>3, RefuseRecord
    <3> QED
      BY ONLY <3>1
  <2> QED
    BY ONLY <1>4, <2>1, <2>2, <2>3
<1>7. c.header = r.header /\ c.request = r.request
  BY <1>2, <1>6, RequestFacts DEF Idle, Came
<1>8. x.ok => TrueAnswer(p, c, Gw!Decode(Stub(r.request.route).out, x.bytes))'
  <2> SUFFICES ASSUME x.ok
               PROVE  TrueAnswer(p, c, Gw!Decode(Stub(r.request.route).out, x.bytes))'
    OBVIOUS
  <2>1. PICK body : body = Gw!Decode(Stub(r.request.route).out, x.bytes)
    OBVIOUS
  <2>2. PICK a, b : a = "verified" /\ b = <<>>
    OBVIOUS
  <2>3. body = Gw!Decode(Gw!AuthResponse,
                 Svc!Encode(Svc!AuthResponse, [message |-> a, user |-> b, token |-> jwt]))
    BY ONLY x.ok, <1>3, <1>6, <2>1, <2>2, Signatures
  <2>4. body.token = jwt
    BY ONLY <2>3, AuthTrip
  <2>5. TrueAnswer(p, c, body)'
    BY ONLY x.ok, <1>3, <1>5, <1>6, <1>7, <2>4 DEF TrueAnswer
  <2> QED
    BY ONLY <2>1, <2>5
<1>9. TablesInv'
  BY <1>1, <1>2, <1>6, <1>7, TablesKept
<1>10. issued \subseteq issued' /\ renames \subseteq renames'
  BY <1>1, <1>4
<1> QED
  BY <1>1, <1>2, <1>3, <1>6, <1>8, <1>9, <1>10, ReplySo

LEMMA AuthVerifyTokenRequest ==
  ASSUME RequestInv, GateInv', NEW p \in Handlers, AuthVerifyToken(p)
  PROVE  RequestInv'
<1>1. UNCHANGED <<issued, profile, renames, handed, messages, knownBefore>>
  BY DEF AuthVerifyToken, authVars, userVars, chatVars
<1>2. PICK r : r = handler[p]
  OBVIOUS
<1>3. /\ r.rpc.at = "service" /\ r.pc \in {"authenticate", "call"}
      /\ r.pc = "call" => /\ r.request.route = "verify token"
                          /\ r.rpc.bytes = Gw!Encode(Stub("verify token").in, Question(r))
  <2>1. PICK desc, h : Reached(p, desc, h) /\ h.name = "VerifyToken"
    BY DEF AuthVerifyToken, Svc!VerifyTokenHandler, Svc!Handler
  <2>2. AsksFor(r, "VerifyToken")
    BY <1>2, <2>1, Asker, ZenonT(30)
  <2> QED
    BY ONLY <2>2 DEF AsksFor, RouteOf
<1>4. PICK t, m : /\ t = Svc!Decode(Svc!VerifyTokenHandler.in, r.rpc.bytes).token
                  /\ m = [user_email |-> t.jwt.email] /\ Reply(p, Svc!VerifyTokenHandler, m)
  BY <1>2 DEF AuthVerifyToken, Request
<1>5. r.pc = "call" => t = r.header
  <2> SUFFICES ASSUME r.pc = "call" PROVE t = r.header
    OBVIOUS
  <2>1. PICK y : y = r.header
    OBVIOUS
  <2>2. Question(r) = [token |-> y]
    BY ONLY r.pc = "call", <1>3, <2>1 DEF Question
  <2>3. t = Svc!Decode(Svc!TokenRequest, Gw!Encode(Gw!TokenRequest, [token |-> y])).token
    BY ONLY r.pc = "call", <1>3, <1>4, <2>2, Signatures
  <2>4. t = y
    BY ONLY <2>3, TokenDecoded
  <2> QED
    BY ONLY <2>1, <2>4
<1>6. PICK x, c : /\ x.at = "gateway" /\ x.bytes = Svc!Encode(Svc!VerifyTokenHandler.out, m)
                  /\ c = Came(r, x) /\ Become(p, c)
  BY ONLY <1>2, <1>4, ReplyRecord
<1>7. c.header = r.header /\ c.request = r.request
  BY <1>2, <1>6, RequestFacts DEF Idle, Came
<1>8. r.pc = "call" => TrueAnswer(p, c, Gw!Decode(Stub(r.request.route).out, x.bytes))'
  <2> SUFFICES ASSUME r.pc = "call"
               PROVE  TrueAnswer(p, c, Gw!Decode(Stub(r.request.route).out, x.bytes))'
    OBVIOUS
  <2>1. PICK body, y : /\ body = Gw!Decode(Stub(r.request.route).out, x.bytes)
                       /\ y = t.jwt.email
    OBVIOUS
  <2>2. body = Gw!Decode(Gw!TokenResponse, Svc!Encode(Svc!TokenResponse, [user_email |-> y]))
    BY ONLY r.pc = "call", <1>3, <1>4, <1>6, <2>1, Signatures
  <2>3. body.user_email = y
    BY ONLY <2>2, AddressTrip
  <2>4. TrueAnswer(p, c, body)'
    BY ONLY r.pc = "call", <1>3, <1>5, <1>7, <2>1, <2>3 DEF TrueAnswer
  <2> QED
    BY ONLY <2>1, <2>4
<1>9. TablesInv'
  BY <1>1, <1>2, <1>6, <1>7, TablesKept
<1> QED
  BY <1>1, <1>2, <1>3, <1>6, <1>8, <1>9, ReplySo

\* A service that only reads.
LEMMA ReadingSo ==
  ASSUME RequestInv, GateInv', NEW p \in Handlers, NEW r, r = handler[p],
         r.rpc.at = "service", r.pc = "call", NEW h, NEW msg, Reply(p, h, msg),
         TrueAnswer(p, r, Gw!Decode(Stub(r.request.route).out, Svc!Encode(h.out, msg))),
         UNCHANGED <<issued, profile, renames, handed, messages, knownBefore>>
  PROVE  RequestInv'
<1>1. PICK x, c : /\ x.at = "gateway" /\ x.bytes = Svc!Encode(h.out, msg)
                  /\ c = Came(r, x) /\ Become(p, c)
  BY ONLY r = handler[p], Reply(p, h, msg), ReplyRecord
<1>2. c.header = r.header /\ c.request = r.request
  BY <1>1, RequestFacts DEF Idle, Came
<1>3. PICK body : body = Gw!Decode(Stub(r.request.route).out, x.bytes)
  OBVIOUS
<1>4. TrueAnswer(p, c, body)
  <2>1. TrueAnswer(p, r, body)
    BY ONLY <1>1, <1>3,
            TrueAnswer(p, r, Gw!Decode(Stub(r.request.route).out, Svc!Encode(h.out, msg)))
  <2> QED
    BY ONLY <1>2, <2>1, SameAsker
<1>5. StepOf(p)
  <2>1. handler'[p] = c /\ \A q \in Handlers \ {p} : handler'[q] = handler[q]
    BY <1>1, BecameFacts DEF RequestInv
  <2> QED
    BY <2>1 DEF StepOf, Kept, At
<1>6. TrueAnswer(p, c, body)'
  <2>1. \A q \in knownBefore[p].acknowledged : q \in Handlers /\ Acknowledged(q)
    BY RequestFacts DEF HandlerInv
  <2> QED
    BY <1>4, <1>5, <2>1, AnswerKept
<1>7. TablesInv'
  BY <1>1, <1>2, TablesKept
<1>8. TrueAnswer(p, c, Gw!Decode(Stub(r.request.route).out, x.bytes))'
  BY ONLY <1>3, <1>6
<1> QED
  BY <1>1, <1>7, <1>8, ReplySo

LEMMA UserGetAllUsersRequest ==
  ASSUME RequestInv, GateInv', NEW p \in Handlers, UserGetAllUsers(p)
  PROVE  RequestInv'
<1>1. UNCHANGED <<issued, profile, renames, handed, messages, knownBefore>>
  BY DEF UserGetAllUsers, authVars, userVars, chatVars
<1>2. PICK r : r = handler[p]
  OBVIOUS
<1>3. r.rpc.at = "service" /\ r.pc = "call" /\ r.request.route = "users"
  <2>1. PICK desc, h : Reached(p, desc, h) /\ h.name = "GetAllUsers"
    BY HandlerNames DEF UserGetAllUsers
  <2>2. AsksFor(r, "GetAllUsers")
    BY <1>2, <2>1, Asker, ZenonT(30)
  <2> QED
    BY ONLY <2>2 DEF AsksFor, RouteOf
<1>4. PICK name : \E q \in Orders(Matching(name)) :
        Reply(p, Svc!GetAllUsersHandler, [users |-> [i \in DOMAIN q |-> Row(q[i])]])
  BY DEF UserGetAllUsers
<1>5. PICK q \in Orders(Matching(name)) :
        Reply(p, Svc!GetAllUsersHandler, [users |-> [i \in DOMAIN q |-> Row(q[i])]])
  BY <1>4
<1>6. PICK rows, msg, h : /\ rows = [i \in DOMAIN q |-> Row(q[i])] /\ msg = [users |-> rows]
                          /\ h = Svc!GetAllUsersHandler /\ Reply(p, h, msg)
  BY <1>5
<1>7. PICK body : body = Gw!Decode(Stub(r.request.route).out, Svc!Encode(h.out, msg))
  OBVIOUS
<1>8. /\ DOMAIN body.users = DOMAIN rows
      /\ \A i \in DOMAIN rows :
           /\ body.users[i].id = rows[i].id /\ body.users[i].email = rows[i].email
           /\ body.users[i].first_name = rows[i].first_name
           /\ body.users[i].last_name = rows[i].last_name
  <2>1. body = Gw!Decode(Gw!UsersList, Svc!Encode(Svc!UsersList, [users |-> rows]))
    BY ONLY <1>3, <1>6, <1>7, Signatures
  <2> QED
    BY ONLY <2>1, UsersTrip
<1>9. ASSUME NEW i \in DOMAIN body.users
      PROVE  \E u \in Users : /\ body.users[i].id = ToInt32(u)
                              /\ body.users[i].email = Mail(u) /\ NamesOf(u, body.users[i])
  <2>1. PICK u : u = q[i] /\ u \in Users /\ rows[i] = Row(u)
    BY <1>6, <1>8 DEF Orders, Matching
  <2>2. /\ body.users[i].id = ToInt32(u) /\ body.users[i].email = Mail(u)
        /\ body.users[i].first_name = profile[u].first
        /\ body.users[i].last_name = profile[u].last
    BY ONLY <1>8, <1>9, <2>1 DEF Row
  <2>3. NamesOf(u, [first_name |-> profile[u].first, last_name |-> profile[u].last])
    BY <2>1 DEF RequestInv, TablesInv
  <2>4. NamesOf(u, body.users[i])
    BY ONLY <2>2, <2>3 DEF NamesOf
  <2> QED
    BY ONLY <2>1, <2>2, <2>4
<1>10. TrueAnswer(p, r, body)
  BY ONLY <1>3, <1>9 DEF TrueAnswer
<1> QED
  BY <1>1, <1>2, <1>3, <1>6, <1>7, <1>10, ReadingSo

\* What had been acknowledged is in the table.
LEMMA ToldIsStored ==
  ASSUME RequestInv, NEW p \in Handlers, NEW r, r = handler[p], NEW s, NEW m \in Told(p, r, s)
  PROVE  \E i \in RowsTo(r.header.jwt.id) :
           messages[i].copy.sender = s /\ messages[i].copy.content = m
<1>1. PICK x \in knownBefore[p].acknowledged : \E j \in DOMAIN handed[x] :
        /\ handed[x][j].receiver = r.header.jwt.id /\ handed[x][j].sender = s
        /\ handed[x][j].content = m
  BY DEF Told
<1>2. x \in Handlers /\ Acknowledged(x)
  BY RequestFacts DEF HandlerInv
<1>3. PICK y : y = handler[x] /\ y.request.route = "send" /\ y.pc = "answered"
               /\ y.answer.status = 200 /\ SendProgress(x, y)
  BY <1>2, RequestFacts DEF Acknowledged, At, Route
<1>4. AnswerTells(x, y)
  BY ONLY <1>3 DEF SendProgress
<1>5. \A j \in DOMAIN handed[x] : Stored(x, handed[x][j])
  BY ONLY <1>3, <1>4 DEF AnswerTells
<1>6. PICK i \in DOMAIN messages : /\ messages[i].copy.receiver = r.header.jwt.id
                                   /\ messages[i].copy.sender = s /\ messages[i].copy.content = m
  <2>1. PICK copy : /\ Stored(x, copy) /\ copy.receiver = r.header.jwt.id
                    /\ copy.sender = s /\ copy.content = m
    BY ONLY <1>1, <1>5
  <2> QED
    BY ONLY <2>1 DEF Stored
<1> QED
  BY ONLY <1>6 DEF RowsTo

LEMMA ChatListMessageRequest ==
  ASSUME RequestInv, GateInv', NEW p \in Handlers, ChatListMessage(p)
  PROVE  RequestInv'
<1>1. UNCHANGED <<issued, profile, renames, handed, messages, knownBefore>>
  BY DEF ChatListMessage, authVars, userVars, chatVars
<1>2. PICK r : r = handler[p]
  OBVIOUS
<1>3. /\ r.rpc.at = "service" /\ r.pc = "call" /\ r.request.route = "list"
      /\ r.rpc.md = <<r.header>>
  <2>1. PICK desc, h : Reached(p, desc, h) /\ h.name = "ListMessage"
    BY HandlerNames DEF ChatListMessage
  <2>2. AsksFor(r, "ListMessage")
    BY <1>2, <2>1, Asker, ZenonT(30)
  <2> QED
    BY ONLY <2>2 DEF AsksFor, RouteOf
<1>4. PICK u : /\ u = ChatParsingJWT(<<r.header>>, now) /\ u # None
               /\ \E q \in Ascending(Senders(u)) :
                    Reply(p, Svc!ListMessageHandler,
                          [messages |-> [i \in DOMAIN q |-> Latest(u, q[i])]])
  BY <1>2, <1>3 DEF ChatListMessage, Metadata
<1>5. u = r.header.jwt.id
  BY ONLY <1>4 DEF ChatParsingJWT, ChatGetIdFromJWT1
<1>6. PICK q \in Ascending(Senders(u)) :
        Reply(p, Svc!ListMessageHandler, [messages |-> [i \in DOMAIN q |-> Latest(u, q[i])]])
  BY ONLY <1>4
<1>7. PICK rows, msg, h :
        /\ rows = [i \in DOMAIN q |-> Latest(u, q[i])] /\ msg = [messages |-> rows]
        /\ h = Svc!ListMessageHandler /\ Reply(p, h, msg)
  BY <1>6
<1>8. PICK body : body = Gw!Decode(Stub(r.request.route).out, Svc!Encode(h.out, msg))
  OBVIOUS
<1>9. body.messages = [i \in DOMAIN rows |-> body.messages[i]]
  <2>1. body = Gw!Decode(Gw!ListMessageResponse,
                 Svc!Encode(Svc!ListMessageResponse, [messages |-> rows]))
    BY ONLY <1>3, <1>7, <1>8, Signatures
  <2> QED
    BY ONLY <2>1, OverviewTrip
<1> DEFINE S == Senders(u)
           T == {s \in Users : Told(p, r, s) # {}}
<1>10. IsFiniteSet(S)
  BY GatewayAssumption, FS_Subset DEF Senders
<1>11. T \subseteq S
  <2> SUFFICES ASSUME NEW s \in Users, NEW m \in Told(p, r, s) PROVE s \in S
    OBVIOUS
  <2>1. PICK i \in RowsTo(u) : messages[i].copy.sender = s
    BY <1>2, <1>5, ToldIsStored
  <2> QED
    BY ONLY <2>1, s \in Users DEF Senders
<1>12. Len(body.messages) = Cardinality(S) /\ Cardinality(S) \in Nat
  <2>1. Cardinality(S) \in Nat
    BY <1>10, FS_CardinalityType
  <2>2. DOMAIN rows = 1 .. Cardinality(S)
    BY <1>6, <1>7 DEF Ascending, Orders
  <2> HIDE DEF S
  <2> QED
    BY ONLY <1>9, <2>1, <2>2
<1>13. Cardinality(T) <= Cardinality(S)
  <2> HIDE DEF S, T
  <2> QED
    BY ONLY <1>10, <1>11, FS_Subset
<1>14. TrueAnswer(p, r, body)
  BY ONLY <1>3, <1>12, <1>13 DEF TrueAnswer
<1> QED
  BY <1>1, <1>2, <1>3, <1>7, <1>8, <1>14, ReadingSo

LEMMA ChatListMessageBySenderRequest ==
  ASSUME RequestInv, GateInv', NEW p \in Handlers, ChatListMessageBySender(p)
  PROVE  RequestInv'
<1>1. UNCHANGED <<issued, profile, renames, handed, messages, knownBefore>>
  BY DEF ChatListMessageBySender, authVars, userVars, chatVars
<1>2. PICK r : r = handler[p]
  OBVIOUS
<1>3. /\ r.rpc.at = "service" /\ r.pc = "call" /\ r.request.route = "by sender"
      /\ r.rpc.md = <<r.header>>
      /\ r.rpc.bytes = Gw!Encode(Stub("by sender").in, Question(r))
  <2>1. PICK desc, h : Reached(p, desc, h) /\ h.name = "ListMessageBySender"
    BY HandlerNames DEF ChatListMessageBySender
  <2>2. AsksFor(r, "ListMessageBySender")
    BY <1>2, <2>1, Asker, ZenonT(30)
  <2> QED
    BY ONLY <2>2 DEF AsksFor, RouteOf
<1>4. PICK u, s : /\ u = ChatParsingJWT(<<r.header>>, now)
                  /\ s = Svc!Decode(Svc!ListMessageBySenderHandler.in, r.rpc.bytes).sender_id
  OBVIOUS
<1>5. PICK name : name = IF s \in Users THEN profile[s].first ELSE Empty
  OBVIOUS
<1>6. /\ u # None
       /\ \E q \in Ascending({i \in RowsTo(u) : messages[i].copy.sender = s}) :
            Reply(p, Svc!ListMessageBySenderHandler,
                  [sender_name |-> name,
                   messages |-> [i \in DOMAIN q |-> [message |-> messages[q[i]].copy.content]]])
  BY <1>2, <1>3, <1>4, <1>5 DEF ChatListMessageBySender, Metadata, Request
<1>7. u = r.header.jwt.id
  BY ONLY <1>4, <1>6 DEF ChatParsingJWT, ChatGetIdFromJWT1
<1>8. s = ToInt32(r.request.body.id)
  <2>1. PICK y : y = ToInt32(r.request.body.id)
    OBVIOUS
  <2>2. Question(r) = [sender_id |-> y]
    BY ONLY <1>3, <2>1 DEF Question
  <2>3. PICK got : got = Svc!Decode(Svc!ListMessageBySenderRequest,
                           Gw!Encode(Gw!ListMessageBySenderRequest, [sender_id |-> y]))
    OBVIOUS
  <2>4. got.sender_id = y
    BY ONLY <2>3, SenderTrip
  <2> QED
    BY ONLY <1>3, <1>4, <2>1, <2>2, <2>3, <2>4, Signatures
<1>9. PICK q \in Ascending({i \in RowsTo(u) : messages[i].copy.sender = s}) :
        Reply(p, Svc!ListMessageBySenderHandler,
              [sender_name |-> name,
               messages |-> [i \in DOMAIN q |-> [message |-> messages[q[i]].copy.content]]])
  BY ONLY <1>6
<1>10. PICK rows, msg, h :
        /\ rows = [i \in DOMAIN q |-> [message |-> messages[q[i]].copy.content]]
        /\ msg = [sender_name |-> name, messages |-> rows]
        /\ h = Svc!ListMessageBySenderHandler /\ Reply(p, h, msg)
  BY ONLY <1>9
<1>11. PICK body : body = Gw!Decode(Stub(r.request.route).out, Svc!Encode(h.out, msg))
  OBVIOUS
<1>12. /\ DOMAIN body.messages = DOMAIN rows
       /\ \A i \in DOMAIN rows : body.messages[i].message = rows[i].message
  <2>1. body = Gw!Decode(Gw!ListMessageBySenderResponse,
                 Svc!Encode(Svc!ListMessageBySenderResponse,
                            [sender_name |-> name, messages |-> rows]))
    BY ONLY <1>3, <1>10, <1>11, Signatures
  <2> QED
    BY ONLY <2>1, ListingTrip
<1>13. ASSUME NEW m \in Told(p, r, s)
       PROVE  \E k \in DOMAIN body.messages : body.messages[k].message = m
  <2>1. PICK i \in RowsTo(u) : messages[i].copy.sender = s /\ messages[i].copy.content = m
    BY <1>2, <1>7, <1>13, ToldIsStored
  <2>2. PICK k \in DOMAIN q : q[k] = i
    BY <1>9, <2>1 DEF Ascending, Orders
  <2>3. rows[k].message = m /\ k \in DOMAIN rows
    BY ONLY <1>10, <2>1, <2>2
  <2> QED
    BY ONLY <1>12, <2>3
<1>14. TrueAnswer(p, r, body)
  BY ONLY <1>3, <1>8, <1>13 DEF TrueAnswer
<1> QED
  BY <1>1, <1>2, <1>3, <1>10, <1>11, <1>14, ReadingSo

LEMMA UserUpdateUserRequest ==
  ASSUME RequestInv, GateInv', NEW p \in Handlers, UserUpdateUser(p)
  PROVE  RequestInv'
<1>1. UNCHANGED <<issued, handed, messages, knownBefore>>
  BY DEF UserUpdateUser, authVars, chatVars
<1>2. PICK r : r = handler[p]
  OBVIOUS
<1>3. /\ r.rpc.at = "service" /\ r.pc = "call" /\ r.request.route = "update"
      /\ r.rpc.md = <<r.header>>
      /\ r.rpc.bytes = Gw!Encode(Stub("update").in, Question(r))
  <2>1. PICK desc, h : Reached(p, desc, h) /\ h.name = "UpdateUser"
    BY HandlerNames DEF UserUpdateUser
  <2>2. AsksFor(r, "UpdateUser")
    BY <1>2, <2>1, Asker, ZenonT(30)
  <2> QED
    BY ONLY <2>2 DEF AsksFor, RouteOf
<1>4. PICK req, u :
        /\ req = Svc!Decode(Svc!UpdateUserHandler.in, r.rpc.bytes)
        /\ u = UserParsingJWT(<<r.header>>, now) /\ u \in Users /\ req.id = ToInt32(u)
        /\ profile' = [profile EXCEPT ![u] = [first |-> req.first_name, last |-> req.last_name]]
        /\ renames' = renames \cup {[by |-> p, user |-> u, first |-> req.first_name,
                                     last |-> req.last_name, at |-> now]}
  BY <1>2, <1>3 DEF UserUpdateUser, Request, Metadata
<1>5. u = r.header.jwt.id
  <2>1. u # None
    BY <1>4, GatewayAssumption
  <2> QED
    BY ONLY <1>4, <2>1 DEF UserParsingJWT, UserGetIdFromJWT1
<1>6. LET b == r.request.body IN
        req.id = ToInt32(b.id) /\ req.first_name = b.first /\ req.last_name = b.last
  <2>1. PICK x, y, z : /\ x = ToInt32(r.request.body.id) /\ y = r.request.body.first
                       /\ z = r.request.body.last
    OBVIOUS
  <2>2. Question(r) = [id |-> x, first_name |-> y, last_name |-> z]
    BY ONLY <1>3, <2>1 DEF Question
  <2>3. req = Svc!Decode(Svc!UpdateUserRequest,
                Gw!Encode(Gw!UpdateUserRequest, [id |-> x, first_name |-> y, last_name |-> z]))
    BY ONLY <1>3, <1>4, <2>2, Signatures
  <2>4. req.id = x /\ req.first_name = y /\ req.last_name = z
    BY ONLY <2>3, UpdateTrip
  <2> QED
    BY ONLY <2>1, <2>4
<1>7. PICK x, c : x.at = "gateway" /\ c = Came(r, x) /\ Become(p, c)
  BY <1>2, ReplyRecord, RefuseRecord DEF UserUpdateUser
<1>8. c.header = r.header /\ c.request = r.request
  BY <1>2, <1>7, RequestFacts DEF Idle, Came
<1>9. TrueAnswer(p, c, Gw!Decode(Stub(r.request.route).out, x.bytes))'
  BY ONLY <1>3, <1>8 DEF TrueAnswer
<1>10. PICK new : /\ new.by = p /\ new.user = u /\ new.first = req.first_name
                  /\ new.last = req.last_name /\ renames' = renames \cup {new}
  BY ONLY <1>4
<1>11. ASSUME NEW y \in renames'
       PROVE  RenamedAsAsked(y)'
  <2>1. handler'[p] = c /\ \A q \in Handlers \ {p} : handler'[q] = handler[q]
    BY <1>7, BecameFacts DEF RequestInv
  <2>2. \A q \in Handlers : /\ handler'[q].header = handler[q].header
                            /\ handler'[q].request = handler[q].request
    BY ONLY <1>2, <1>8, <2>1
  <2>3. CASE y \in renames
    <3>1. y.by \in Handlers /\ RenamedAsAsked(y)
      BY <2>3 DEF RequestInv, GateInv, TablesInv
    <3> QED
      BY ONLY <2>2, <3>1 DEF RenamedAsAsked, Body
  <2>4. CASE y = new
    BY ONLY <1>2, <1>4, <1>5, <1>6, <1>10, <2>2, <2>4, p \in Handlers DEF RenamedAsAsked, Body
  <2> QED
    BY ONLY <1>10, <1>11, <2>3, <2>4
<1>12. ASSUME NEW v \in Users
       PROVE  NamesOf(v, [first_name |-> profile[v].first, last_name |-> profile[v].last])'
  <2>1. DOMAIN profile = Users
    BY DEF RequestInv, GateInv, TypeOK
  <2>2. PICK name : name = [first_name |-> profile'[v].first, last_name |-> profile'[v].last]
    OBVIOUS
  <2>3. CASE v = u
    <3>1. name.first_name = req.first_name /\ name.last_name = req.last_name
      BY ONLY <1>4, <1>12, <2>1, <2>2, <2>3
    <3>2. NamesOf(v, name)'
      BY ONLY <1>10, <2>3, <3>1 DEF NamesOf
    <3> QED
      BY ONLY <2>2, <3>2
  <2>4. CASE v # u
    <3>1. profile'[v] = profile[v]
      BY ONLY <1>4, <1>12, <2>1, <2>4
    <3>2. NamesOf(v, [first_name |-> profile[v].first, last_name |-> profile[v].last])
      BY <1>12 DEF RequestInv, TablesInv
    <3>3. NamesOf(v, name)'
      BY ONLY <1>10, <2>2, <3>1, <3>2 DEF NamesOf
    <3> QED
      BY ONLY <2>2, <3>3
  <2> QED
    BY ONLY <2>3, <2>4
<1>13. TablesInv'
  BY <1>1, <1>11, <1>12 DEF RequestInv, TablesInv, IsSequence
<1>14. issued \subseteq issued' /\ renames \subseteq renames'
  BY ONLY <1>1, <1>10
<1> QED
  BY <1>1, <1>2, <1>3, <1>7, <1>9, <1>13, <1>14, ReplySo

\* A SendMessage of the gateway makes one copy and at most one row.
LEMMA OneCopy ==
  ASSUME RequestInv, NEW p \in Handlers, ChatSendMessage(p), NEW r, r = handler[p]
  PROVE  \E copy :
           /\ copy.frame = r.frame /\ copy.n = r.next /\ copy.sender = r.header.jwt.id
           /\ copy.receiver = r.ids[r.next] /\ copy.content = r.content
           /\ handed' = [handed EXCEPT ![p] = @ \o <<copy>>]
           /\ \/ /\ messages' = messages \o <<[by |-> p, copy |-> copy]>>
                 /\ Reply(p, Svc!SendMessageHandler, [status |-> "sent"])
              \/ /\ messages' \in {messages, messages \o <<[by |-> p, copy |-> copy]>>}
                 /\ Refuse(p)
<1>1. r.rpc.at = "service" /\ r.rpc.path[2] = "SendMessage"
  BY HandlerNames DEF ChatSendMessage, Reached, Svc!Leads
<1>2. PICK y, z : y = <<ToInt32(r.ids[r.next])>> /\ z = r.content
  OBVIOUS
<1>3. /\ r.pc = "forward" /\ r.rpc.md = <<r.header>>
      /\ r.rpc.bytes = Gw!Encode(Gw!SendMessageRequest,
           [sender_id |-> 0, receiver_id |-> y, content |-> z])
  BY <1>1, <1>2 DEF RequestInv, GateInv, CallShape
<1>4. PICK req, u : /\ req = Svc!Decode(Svc!SendMessageHandler.in, r.rpc.bytes)
                    /\ u = ChatParsingJWT(<<r.header>>, now)
  OBVIOUS
<1>5. req.receiver_id = y /\ req.content = z
  <2>1. Svc!SendMessageHandler.in = Svc!SendMessageRequest
    BY HandlerNames
  <2>2. req = Svc!Decode(Svc!SendMessageRequest,
                Gw!Encode(Gw!SendMessageRequest,
                          [sender_id |-> 0, receiver_id |-> y, content |-> z]))
    BY ONLY <1>3, <1>4, <2>1
  <2>3. PICK none : none = 0
    OBVIOUS
  <2> QED
    BY ONLY <2>2, <2>3, SendTrip
<1>6. r.ids[r.next] \in Int32
  <2>1. r.ids \in Seq(Int32) /\ r.next \in DOMAIN r.ids
    BY <1>3, RequestFacts DEF LoopShape
  <2> QED
    BY ONLY <2>1
<1>7. y = <<r.ids[r.next]>>
  BY ONLY <1>2, <1>6, ToInt32Kept
<1> DEFINE of(i) == [frame |-> r.frame, n |-> r.next, sender |-> u,
                     receiver |-> req.receiver_id[i], content |-> req.content, at |-> now]
<1>8. /\ u # None
      /\ LET copies == [i \in DOMAIN req.receiver_id |-> of(i)]
             rows == [i \in DOMAIN copies |-> [by |-> p, copy |-> copies[i]]] IN
           /\ handed' = [handed EXCEPT ![p] = @ \o copies]
           /\ \/ messages' = messages \o rows /\ Reply(p, Svc!SendMessageHandler, [status |-> "sent"])
              \/ messages' \in {messages, messages \o rows} /\ Refuse(p)
  BY <1>3, <1>4 DEF ChatSendMessage, Request, Metadata
<1>9. PICK copy : copy = of(1)
  OBVIOUS
<1>10. /\ copy.frame = r.frame /\ copy.n = r.next /\ copy.sender = u
       /\ copy.receiver = r.ids[r.next] /\ copy.content = r.content
  BY ONLY <1>2, <1>5, <1>7, <1>9
<1>11. u = r.header.jwt.id
  BY ONLY <1>4, <1>8 DEF ChatParsingJWT, ChatGetIdFromJWT1
<1>12. [i \in DOMAIN req.receiver_id |-> of(i)] = <<copy>>
  <2>1. DOMAIN req.receiver_id = {1}
    BY ONLY <1>5, <1>7
  <2> HIDE DEF of
  <2> QED
    BY ONLY <1>9, <2>1
<1>13. [i \in DOMAIN <<copy>> |-> [by |-> p, copy |-> <<copy>>[i]]] = <<[by |-> p, copy |-> copy]>>
  OBVIOUS
<1> HIDE DEF of
<1> QED
  BY ONLY <1>8, <1>10, <1>11, <1>12, <1>13

LEMMA LongerKept ==
  ASSUME NEW q, IsSequence(q), NEW x, NEW r, r = q \o <<x>>
  PROVE  Kept(q, r) /\ IsSequence(r) /\ \E i \in DOMAIN r : r[i] = x
<1>1. /\ Len(q) \in Nat /\ DOMAIN q = 1 .. Len(q)
      /\ DOMAIN (q \o <<x>>) = 1 .. Len(q) + 1
      /\ (q \o <<x>>)[Len(q) + 1] = x /\ \A i \in DOMAIN q : (q \o <<x>>)[i] = q[i]
  BY ONLY IsSequence(q), Appended
<1>2. IsSequence(q \o <<x>>)
  BY ONLY IsSequence(q), Appended
<1> QED
  BY ONLY r = q \o <<x>>, <1>1, <1>2 DEF Kept

LEMMA ChatSendMessageRequest ==
  ASSUME RequestInv, GateInv', NEW p \in Handlers, ChatSendMessage(p)
  PROVE  RequestInv'
<1>1. UNCHANGED <<issued, profile, renames, knownBefore>>
  BY DEF ChatSendMessage, authVars, userVars
<1>2. PICK r, q : r = handler[p] /\ q = handed[p] /\ r.rpc.at = "service"
  BY DEF ChatSendMessage, Reached
<1>3. PICK copy :
        /\ copy.frame = r.frame /\ copy.n = r.next /\ copy.sender = r.header.jwt.id
        /\ copy.receiver = r.ids[r.next] /\ copy.content = r.content
        /\ handed' = [handed EXCEPT ![p] = @ \o <<copy>>]
        /\ \/ /\ messages' = messages \o <<[by |-> p, copy |-> copy]>>
              /\ Reply(p, Svc!SendMessageHandler, [status |-> "sent"])
           \/ /\ messages' \in {messages, messages \o <<[by |-> p, copy |-> copy]>>}
              /\ Refuse(p)
  BY <1>2, OneCopy
<1>4. PICK row : row = [by |-> p, copy |-> copy]
  OBVIOUS
<1>5. PICK x, c : /\ x.at = "gateway" /\ c = Came(r, x) /\ Become(p, c)
                  /\ x.ok => messages' = messages \o <<row>>
  <2>1. CASE messages' = messages \o <<row>> /\ Reply(p, Svc!SendMessageHandler, [status |-> "sent"])
    BY <1>2, <2>1, ReplyRecord
  <2>2. CASE Refuse(p)
    <3>1. \E x, c : x.at = "gateway" /\ ~x.ok /\ c = Came(r, x) /\ Become(p, c)
      BY ONLY <1>2, <2>2, RefuseRecord
    <3> QED
      BY ONLY <3>1
  <2> QED
    BY ONLY <1>3, <1>4, <2>1, <2>2
<1>6. /\ c.header = r.header /\ c.request = r.request /\ c.pc = r.pc /\ c.ids = r.ids
      /\ c.frame = r.frame /\ c.pushed = r.pushed /\ c.rpc = x /\ c.next = r.next
      /\ c.content = r.content /\ c.named = r.named
  BY <1>2, <1>5, RequestFacts DEF Idle, Came
<1>7. /\ r.pc = "forward" /\ r.frame \in Nat /\ LoopShape(r) /\ SendProgress(p, r)
      /\ FrameProgress(p, r) /\ ShownShape(r) /\ ShownAsSent(r)
      /\ \A i \in DOMAIN q : AsAsked(r, q[i])
      /\ \A z \in knownBefore[p].acknowledged : z \in Handlers /\ Acknowledged(z)
  <2>1. PICK desc, h : Reached(p, desc, h) /\ h.name = "SendMessage"
    BY HandlerNames DEF ChatSendMessage
  <2>2. AsksFor(r, "SendMessage")
    BY <1>2, <2>1, Asker, ZenonT(30)
  <2>3. r.pc = "forward"
    BY ONLY <2>2 DEF AsksFor
  <2>4. r.frame \in Nat
    BY <1>2, GatewayAssumption DEF RequestInv, GateInv, TypeOK, HandlerType
  <2> QED
    BY <1>2, <2>3, <2>4, RequestFacts DEF HandlerInv
<1>8. ~Returns(r) /\ ~Succeeds(r) /\ Returns(c) /\ (Succeeds(c) => x.ok)
  BY ONLY <1>2, <1>5, <1>6 DEF Returns, Succeeds
\* The copy behind the others.
<1>9. IsSequence(q) /\ IsSequence(messages)
  BY <1>2 DEF RequestInv, GateInv, TypeOK, TablesInv
<1>10. PICK h : /\ h = handed'[p] /\ h = q \o <<copy>>
                /\ \A z \in Handlers \ {p} : handed'[z] = handed[z]
  BY <1>2, <1>3 DEF RequestInv, GateInv, TypeOK
<1>11. PICK k : /\ k = Len(q) + 1 /\ Len(q) \in Nat /\ DOMAIN q = 1 .. Len(q)
                /\ Len(h) = k /\ DOMAIN h = 1 .. k
                /\ h[k] = copy /\ \A i \in DOMAIN q : h[i] = q[i]
  <2>1. /\ Len(q) \in Nat /\ DOMAIN q = 1 .. Len(q)
        /\ Len(q \o <<copy>>) = Len(q) + 1 /\ DOMAIN (q \o <<copy>>) = 1 .. Len(q) + 1
        /\ (q \o <<copy>>)[Len(q) + 1] = copy
        /\ \A i \in DOMAIN q : (q \o <<copy>>)[i] = q[i]
    BY ONLY <1>9, Appended
  <2> QED
    BY ONLY <1>10, <2>1
<1>12. /\ Kept(messages, messages') /\ IsSequence(messages)'
       /\ x.ok => Stored(p, copy)'
  <2>1. messages' \in {messages, messages \o <<row>>}
    BY ONLY <1>3, <1>4
  <2>2. CASE messages' = messages
    <3>1. ~x.ok \/ messages = messages \o <<row>>
      BY ONLY <1>5, <2>2
    <3>2. messages # messages \o <<row>>
      BY ONLY <1>9, Appended
    <3> QED
      BY ONLY <1>9, <2>2, <3>1, <3>2 DEF Kept, IsSequence
  <2>3. CASE messages' = messages \o <<row>>
    <3>1. /\ Kept(messages, messages') /\ IsSequence(messages')
          /\ \E i \in DOMAIN messages' : messages'[i] = row
      BY ONLY <1>9, <2>3, LongerKept
    <3> QED
      BY ONLY <1>4, <3>1 DEF IsSequence, Stored
  <2> QED
    BY ONLY <2>1, <2>2, <2>3
<1>13. handler'[p] = c /\ \A z \in Handlers \ {p} : handler'[z] = handler[z]
  BY <1>5, BecameFacts DEF RequestInv
<1>14. StepOf(p)
  <2>1. Kept(handed[p], handed'[p])
    BY ONLY <1>2, <1>10, <1>11 DEF Kept
  <2> QED
    BY ONLY <1>1, <1>2, <1>7, <1>10, <1>12, <1>13, <2>1 DEF StepOf, At
<1>15. \A y : Stored(p, y) => Stored(p, y)'
  BY <1>14, StoredKept
\* The parts of the invariant.
<1>16. NothingYet(p, c)' /\ QuestionShape(p, c)'
  BY ONLY <1>6, <1>7 DEF NothingYet, QuestionShape
<1>17. LoopShape(c)'
  BY ONLY <1>5, <1>6, <1>7 DEF LoopShape, Asks
<1>18. SendProgress(p, c)'
  <2>1. CASE r.request.route # "send"
    BY ONLY <1>6, <2>1 DEF SendProgress
  <2>2. CASE r.request.route = "send"
    <3>1. /\ Len(q) = r.next - 1
          /\ \A i \in DOMAIN q : q[i].receiver = r.ids[i] /\ (i < r.next => Stored(p, q[i]))
      BY ONLY <1>2, <1>7, <1>8, <2>2 DEF SendProgress
    <3>2. r.next \in Int
      BY ONLY <1>7 DEF LoopShape
    <3>3. k = r.next
      BY ONLY <1>11, <3>1, <3>2
    <3>4. ASSUME NEW i \in DOMAIN h
          PROVE  /\ h[i].receiver = c.ids[i]
                 /\ i < c.next \/ Succeeds(c) => Stored(p, h[i])'
      <4>1. CASE i = k
        BY ONLY <1>3, <1>6, <1>8, <1>11, <1>12, <3>2, <3>3, <4>1 DEF Stored
      <4>2. CASE i # k
        <5>1. i \in DOMAIN q /\ i < r.next
          BY ONLY <1>11, <3>2, <3>3, <3>4, <4>2
        <5> QED
          BY ONLY <1>6, <1>11, <1>12, <3>1, <5>1 DEF Stored, Kept
      <4> QED
        BY ONLY <4>1, <4>2
    <3>5. Len(h) = c.next /\ c.pc = "forward"
      BY ONLY <1>6, <1>7, <1>11, <3>3
    <3>6. \A i \in DOMAIN h : /\ h[i].receiver = c.ids[i]
                              /\ i < c.next \/ Succeeds(c) =>
                                   \E j \in DOMAIN messages' :
                                     messages'[j] = [by |-> p, copy |-> h[i]]
      BY ONLY <3>4 DEF Stored
    <3> QED
      BY ONLY <1>8, <1>10, <3>5, <3>6 DEF SendProgress, Succeeds, Returns, Stored
  <2> QED
    BY ONLY <2>1, <2>2
<1>19. FrameProgress(p, c)'
  <2>1. CASE r.request.route # "ws"
    BY ONLY <1>6, <2>1 DEF FrameProgress
  <2>2. CASE r.request.route = "ws"
    <3>1. /\ \A i \in DOMAIN q : q[i].frame \in 0 .. r.frame
          /\ IsSequence(r.named)
          /\ \A i \in DOMAIN r.ids :
               /\ i < r.next => Settled(p, r, i)
               /\ i > r.next \/ i = r.next => CopiesOf(p, r, i) = {}
      BY ONLY <2>2, <1>2, <1>7, <1>8 DEF FrameProgress
    <3>2. r.next \in Nat /\ r.ids \in Seq(Int32)
      BY ONLY <1>7 DEF LoopShape
    <3>3. \A i \in DOMAIN h : h[i].frame \in 0 .. c.frame
      <4>1. copy.frame \in 0 .. c.frame
        BY ONLY <1>3, <1>6, <1>7
      <4>2. \A i \in DOMAIN h : i = k \/ i \in DOMAIN q
        BY ONLY <1>11
      <4> QED
        BY ONLY <1>6, <1>11, <3>1, <4>1, <4>2
    <3>4. ASSUME NEW i, i # r.next
          PROVE  CopiesOf(p, c, i)' = CopiesOf(p, r, i)
      BY ONLY <1>2, <1>3, <1>6, <1>10, <1>11, <3>4 DEF CopiesOf
    <3>5. CopiesOf(p, r, r.next) = {} => CopiesOf(p, c, r.next)' = {k}
      BY ONLY <1>2, <1>3, <1>6, <1>10, <1>11 DEF CopiesOf
    <3>6. ASSUME NEW i, i # r.next, Settled(p, r, i)
          PROVE  Settled(p, c, i)'
      <4>1. \A j \in CopiesOf(p, r, i) : handed'[p][j] = handed[p][j]
        BY ONLY <1>2, <1>10, <1>11 DEF CopiesOf
      <4> QED
        BY ONLY <1>6, <1>15, <3>4, <3>6, <4>1 DEF Settled
    <3>7. ASSUME NEW i \in DOMAIN c.ids
          PROVE  /\ i < c.next => Settled(p, c, i)'
                 /\ i > c.next => CopiesOf(p, c, i)' = {}
                 /\ i = c.next =>
                      /\ \A j, l \in CopiesOf(p, c, i)' : j = l
                      /\ Succeeds(c) => \E j \in CopiesOf(p, c, i)' : Stored(p, h[j])'
      <4>1. i \in DOMAIN r.ids /\ i \in Nat /\ c.next = r.next
        BY ONLY <1>6, <3>2, <3>7
      <4>2. CASE i < r.next
        BY ONLY <3>1, <3>2, <3>6, <4>1, <4>2
      <4>3. CASE i > r.next
        BY ONLY <3>1, <3>2, <3>4, <4>1, <4>3
      <4>4. CASE i = r.next
        <5>1. CopiesOf(p, c, i)' = {k}
          BY ONLY <3>1, <3>5, <4>1, <4>4
        <5>2. Succeeds(c) => Stored(p, h[k])'
          BY ONLY <1>8, <1>11, <1>12 DEF Stored
        <5> QED
          BY ONLY <3>2, <4>1, <4>4, <5>1, <5>2
      <4> QED
        BY ONLY <3>2, <4>1, <4>2, <4>3, <4>4
    <3>8. /\ IsSequence(c.named) /\ c.pc = "forward"
          /\ \A i \in DOMAIN c.ids :
               /\ i < c.next => Settled(p, c, i)'
               /\ i > c.next => CopiesOf(p, c, i)' = {}
               /\ i = c.next =>
                    /\ \A j, l \in CopiesOf(p, c, i)' : j = l
                    /\ Succeeds(c) => \E j \in CopiesOf(p, c, i)' :
                         \E m \in DOMAIN messages' : messages'[m] = [by |-> p, copy |-> h[j]]
      BY ONLY <1>6, <1>7, <3>1, <3>7 DEF Stored
    <3>9. (\A i \in DOMAIN handed[p] : handed[p][i].frame \in 0 .. c.frame)'
      BY ONLY <1>10, <3>3
    <3>10. (c.pc = "forward")' /\ IsSequence(c.named)' /\ Returns(c)'
      BY ONLY <1>8, <3>8 DEF IsSequence, Returns
    <3>11. (\A i \in DOMAIN c.ids : i < c.next => Settled(p, c, i))'
      BY ONLY <3>8
    <3>12. (\A i \in DOMAIN c.ids : i > c.next => CopiesOf(p, c, i) = {})'
      BY ONLY <3>8
    <3>13. (\A i \in DOMAIN c.ids : i = c.next => \A j, l \in CopiesOf(p, c, i) : j = l)'
      BY ONLY <3>8
    <3>14. ASSUME NEW i \in DOMAIN c.ids, i = c.next, Succeeds(c)
           PROVE  (\E j \in CopiesOf(p, c, i) : Stored(p, handed[p][j]))'
      <4>1. PICK j \in CopiesOf(p, c, i)' :
              \E m \in DOMAIN messages' : messages'[m] = [by |-> p, copy |-> h[j]]
        BY ONLY <3>8, <3>14
      <4>2. Stored(p, handed[p][j])'
        BY ONLY <1>10, <4>1 DEF Stored
      <4> QED
        BY ONLY <4>1, <4>2
    <3> QED
      BY ONLY <3>9, <3>10, <3>11, <3>12, <3>13, <3>14 DEF FrameProgress, Succeeds
  <2> QED
    BY ONLY <2>1, <2>2
<1>20. ShownShape(c)' /\ ShownAsSent(c)'
  <2>1. ShownShape(r)' /\ ShownAsSent(r)'
    BY <1>7, <1>14, ShownKept
  <2>2. ShownShape(c)'
    BY ONLY <1>6, <2>1 DEF ShownShape, IsSequence
  <2>3. ShownAsSent(c)'
    BY ONLY <1>6, <2>1, ShownAlike
  <2> QED
    BY ONLY <2>2, <2>3
<1>21. ASSUME NEW i \in DOMAIN h
       PROVE  AsAsked(c, h[i])
  <2>1. CASE i = k
    <3>1. PICK f \in Asks(r) : r.ids \in ReceiverIds(f.receiver_id) /\ r.content = f.content
      BY ONLY <1>7 DEF LoopShape
    <3>2. r.next \in DOMAIN r.ids
      BY ONLY <1>7 DEF LoopShape
    <3>3. \E y \in Ascending(Numeric(f.receiver_id)) :
            r.next \in DOMAIN y /\ Meant(Entries(f.receiver_id)[y[r.next]], r.ids[r.next])
      BY ONLY <3>1, <3>2, AskedIsMeant
    <3>4. /\ copy.sender = c.header.jwt.id /\ copy.n = r.next
          /\ copy.receiver = r.ids[r.next] /\ copy.content = f.content
      BY ONLY <1>3, <1>6, <1>7, <3>1
    <3>5. f \in Asks(c)
      BY ONLY <1>6, <3>1 DEF Asks
    <3> QED
      BY ONLY <1>11, <2>1, <3>3, <3>4, <3>5 DEF AsAsked
  <2>2. CASE i # k
    <3>1. i \in DOMAIN q /\ h[i] = q[i]
      BY ONLY <1>11, <1>21, <2>2
    <3>2. AsAsked(r, q[i])
      BY ONLY <1>7, <3>1
    <3>3. AsAsked(c, q[i])
      BY ONLY <1>6, <3>2, SameAsker
    <3> QED
      BY ONLY <3>1, <3>3
  <2> QED
    BY ONLY <2>1, <2>2
<1>22. \A z \in knownBefore'[p].acknowledged : z \in Handlers /\ Acknowledged(z)'
  BY <1>1, <1>7, <1>14, AcknowledgedKept
<1>23. HandlerInv(p, c)'
  BY ONLY <1>10, <1>16, <1>17, <1>18, <1>19, <1>20, <1>21, <1>22 DEF HandlerInv
<1>24. HandlerInv(p, handler[p])'
  BY ONLY <1>13, <1>23
<1>25. TablesInv'
  <2>1. \A y \in renames : y.by \in Handlers /\ RenamedAsAsked(y)
    BY DEF RequestInv, GateInv, TablesInv
  <2>2. \A z \in Handlers : /\ handler'[z].header = handler[z].header
                            /\ handler'[z].request = handler[z].request
    BY ONLY <1>2, <1>6, <1>13
  <2>3. \A y \in renames' : RenamedAsAsked(y)'
    BY ONLY <1>1, <2>1, <2>2 DEF RenamedAsAsked, Body
  <2> QED
    BY <1>1, <1>12, <2>3 DEF RequestInv, TablesInv, NamesOf
<1> QED
  BY <1>14, <1>24, <1>25, RequestStep

-----------------------------------------------------------------------------
(* The theorems.                                                           *)

LEMMA InitRequest == Init => RequestInv
<1> SUFFICES ASSUME Init PROVE RequestInv
  OBVIOUS
<1>1. IsSequence(<<>>)
  BY DEF IsSequence
<1>2. TablesInv
  <2>1. \A u \in Users : NamesOf(u, [first_name |-> profile[u].first,
                                     last_name |-> profile[u].last])
    BY DEF Init, NamesOf
  <2> QED
    BY <1>1, <2>1 DEF Init, TablesInv
<1>3. ASSUME NEW p \in Handlers
      PROVE  HandlerInv(p, handler[p])
  <2>1. PICK r : r = handler[p] /\ handed[p] = <<>> /\ knownBefore[p].acknowledged = {}
    BY DEF Init
  <2>2. /\ r.pc = "idle" /\ r.request.route = "none" /\ r.ids = <<>> /\ r.frame = 0
        /\ r.pushed = <<>>
    BY <2>1 DEF Init, Idle, NoRequest
  <2>3. NothingYet(p, r) /\ QuestionShape(p, r) /\ LoopShape(r)
    BY ONLY <2>1, <2>2 DEF NothingYet, QuestionShape, LoopShape
  <2>4. SendProgress(p, r) /\ FrameProgress(p, r)
    BY ONLY <2>2 DEF SendProgress, FrameProgress
  <2>5. ShownShape(r) /\ ShownAsSent(r)
    BY ONLY <1>1, <2>2 DEF ShownShape, ShownAsSent
  <2>6. HandlerInv(p, r)
    BY ONLY <2>1, <2>3, <2>4, <2>5 DEF HandlerInv
  <2> QED
    BY ONLY <2>1, <2>6
<1> QED
  BY <1>2, <1>3, InitInv DEF RequestInv

LEMMA RequestInvStep == RequestInv /\ [Next]_vars => RequestInv'
<1> SUFFICES ASSUME RequestInv, [Next]_vars PROVE RequestInv'
  OBVIOUS
<1>1. GateInv'
  BY InvStep DEF RequestInv
<1>2. ASSUME NEW p \in Handlers, Receive(p) PROVE RequestInv'
  BY <1>1, <1>2, ReceiveRequest
<1>3. ASSUME NEW p \in Handlers, GatewayStep(p) PROVE RequestInv'
  BY <1>1, <1>3, AuthenticationRequest, OneCallRequest, RespondRequest, SendRequest,
     ForwardedRequest, WsRequest, FrameForwardedRequest DEF GatewayStep
<1>4. ASSUME NEW p \in Handlers, SocketStep(p) PROVE RequestInv'
  BY <1>1, <1>4, ReadFrameRequest, CloseSocketRequest, OpenStreamRequest, StreamDeliversRequest
  DEF SocketStep
<1>5. ASSUME NEW p \in Handlers, QuickCall(p) PROVE RequestInv'
  BY <1>1, <1>5, AuthLoginRequest, AuthVerifyOTPRequest, AuthVerifyTokenRequest,
     UserGetAllUsersRequest, UserUpdateUserRequest, ChatListMessageRequest,
     ChatListMessageBySenderRequest DEF QuickCall
<1>6. ASSUME NEW p \in Handlers, ChatSendMessage(p) \/ CallFails(p) PROVE RequestInv'
  BY <1>1, <1>6, ChatSendMessageRequest, CallFailsRequest
<1>7. ASSUME Tick \/ UNCHANGED vars PROVE RequestInv'
  <2>1. UNCHANGED <<handler, authVars, userVars, chatVars, knownBefore>>
    BY <1>7 DEF Tick, vars
  <2> QED
    BY <1>1, <2>1, TickRequest
<1> QED
  BY <1>2, <1>3, <1>4, <1>5, <1>6, <1>7 DEF Next

\* A request is followed from the client through the gateway's loops and both copies
\* of the generated code to the tables of the services, and what comes back to the
\* client: how far the handler is and what has been handed over, stored, shown and
\* answered so far agree, for any number of handlers, users, receivers and frames
\* and any interleaving, failure, new token and step of the clock.
THEOREM RequestsFollowed == Spec => []RequestInv
BY InitRequest, RequestInvStep, PTL DEF Spec

\* What the answer of POST /chat/send says of the receivers is so (sendMessageHandler):
\* after "successfully send message" each of them was handed one copy, in order, and
\* the copies are stored; after a failure the first of them were, up to the one that
\* failed or the one before, and nobody behind it.
THEOREM AnswersTell == Spec => []AnswerTellsWhoWasServed
<1>1. RequestInv => AnswerTellsWhoWasServed
  BY DEF RequestInv, HandlerInv, SendProgress, AnswerTellsWhoWasServed, At, Route
<1> QED
  BY <1>1, RequestsFollowed, PTL

\* Between two frames of a websocket (the loop of WsHandler) each receiver of the last
\* frame has its message stored or was named in an error, and none was served twice.
THEOREM FailuresNamed == Spec => []FailuresAreNamed
<1>1. RequestInv => FailuresAreNamed
  <2> SUFFICES ASSUME RequestInv, NEW p \in Handlers, At(p, "open"),
                      NEW i \in DOMAIN handler[p].ids
               PROVE  Settled(p, handler[p], i)
    BY DEF FailuresAreNamed
  <2>1. LoopShape(handler[p]) /\ FrameProgress(p, handler[p]) /\ handler[p].pc = "open"
    BY RequestFacts DEF At
  <2> QED
    BY <2>1 DEF LoopShape, FrameProgress
<1> QED
  BY <1>1, RequestsFollowed, PTL

\* Whatever is handed over is from the user of the token, with the content and to a
\* receiver that this user's request or frame named; whoever is renamed is the user of
\* the token, as the request said; and what a websocket shows is a message for its
\* user, from its sender and with its content, once: no handler's call, answer or
\* stream is taken for another's.
THEOREM EffectsAreOfTheCaller == Spec => []EffectsAreTheCallers
<1>1. RequestInv => EffectsAreTheCallers
  BY DEF RequestInv, TablesInv, HandlerInv, EffectsAreTheCallers
<1> QED
  BY <1>1, RequestsFollowed, PTL

\* What a handler answers with 200, decoded by the gateway's copy of the generated code
\* from what the services' copy encoded, is true of the tables: tokens, addresses, the
\* two listings of messages and the names of the users.
THEOREM AnswersTrue == Spec => []AnswersAreTrue
<1>1. RequestInv => AnswersAreTrue
  <2> SUFFICES ASSUME RequestInv, NEW p \in Handlers, At(p, "answered"),
                      handler[p].answer.status = 200
               PROVE  TrueAnswer(p, handler[p], handler[p].answer.body)
    BY DEF AnswersAreTrue
  <2>1. QuestionShape(p, handler[p]) /\ handler[p].pc = "answered"
    BY RequestFacts DEF At
  <2> QED
    BY <2>1 DEF QuestionShape
<1> QED
  BY <1>1, RequestsFollowed, PTL

=============================================================================
