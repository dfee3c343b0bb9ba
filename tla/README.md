# Chat application: TLA+ models

TLA+ modules for the chat application of this repository: four Go services
that share Postgres and Redis. TLC checks small instances; TLAPS proves most of
the safety properties for every value of the constants. This file says what the system consists
of, which module stands for which part of it, what the checks and the proofs
show, and what is left.

    tlc -workers 2 -config ChatMulti.cfg MCChatService     # a run
    tlapm ChatService_proofs.tla                           # a proof

## 1. The system

    client --HTTP/websocket--> api-gateway --gRPC--> auth_service, user_service, chat-service
                                   |                       |            |            |
                                   +------- Postgres (users, messages), Redis --------+

| Part | State it keeps | Operations |
|---|---|---|
| chat-service, delivery (`chat-service/app/service/chat_service.go`) | in memory: `Clients`, the map from user to the channel of a stream, under `ClientsMutex`; in Redis: `user:%d:offline_messages`; in Postgres: `messages` | `SendMessage` (unary), `StreamMessages` (server stream, with a goroutine that drains a Redis list) |
| chat-service, history (same file) | none of its own | `ListMessage`, `ListMessageBySender` |
| auth_service (`auth_service/service/auth_service.go`) | in Redis: the code of a login (`<email>_otp_data`, 5 min), the saved token (`<email>_token`, 24 h); in Postgres: `users` | `Login`, `VerifyOTP`, `VerifyToken` |
| user_service (`user_service/grpc/server.go`) | in Postgres: `users` | `UpdateUser`, `GetAllUsers` |
| api-gateway, websocket (`api-gateway/websocket/websocket.go`) | per connection: a handler and a goroutine; writes `users.is_online` and reads the Redis lists itself | `WsHandler` |
| api-gateway, HTTP (`api-gateway/main.go`, `middleware/`, `helper/message.go`) | none but the locals of its handlers | login, verification, users, updates, sending, histories; `Authentication` before all but the first three |
| token helpers (`auth_service/infra/jwt/jwt.go`, `helper/jwt.go` in three services) | none | `CreateToken`, `VerifyToken`; `GetIdFromJWT1`, `ParsingJWT` |
| generated code (`*.pb.go`, one copy in the gateway and one in each service) | none | messages, stubs, handlers, service descriptions |

They interact through calls and through three shared stores, and the stores are
where it gets interesting:

- A message for a connected user goes SendMessage -> channel -> `StreamMessages`
  -> gRPC stream -> the gateway's goroutine -> socket. For anybody else
  `SendMessage` appends it to a Redis list, which the *gateway* hands out and
  deletes when the user connects. The drain goroutine of the chat service reads
  a key with a trailing colon that nobody writes.
- `users` has three writers: auth_service inserts rows and marks them verified,
  user_service writes names, the gateway writes `is_online`. Two services
  migrate the table, with different indexes.
- The token is checked against the saved one by the middleware only. The chat
  and user services look at its signature and expiry, and not with the same
  library: the second in which a token expires still counts for the one and no
  longer for the other, and only the auth service takes the word Bearer away.
- The gateway compiles its own copy of the messages. Nothing but the numbers of
  the fields makes the copies agree.

### What is hard here

- *Concurrency.* A channel is looked up under the mutex and used after it; a
  stream's end deletes the map's entry by user and not by stream; the offline
  list is read and deleted by two calls; two connections of one user share one
  flag and one list; two writers use one socket; VerifyOTP and Login are read-
  then-write sequences over two stores.
- *Failure.* Every call to Redis, Postgres, the mailer or another service can
  fail, before or after it took effect. Some errors end the handler, some are
  only logged. Processes die; what is in memory is lost. A message to several
  receivers is one call per receiver, any of which may fail.
- *Blocking.* A channel holds ten messages, a sender has no deadline, and the
  reader of a channel notices that its client is gone only at the next message.
- *Order and time.* `created_at` is taken before a message is handed over, and
  its row inserted afterwards. Codes, token claims and saved tokens have three
  lifetimes.

### What makes each part correct

- Delivery: a copy of a message is in one place and goes to its receiver only;
  an acknowledgement means that it is stored, and queued, on its way or received,
  but for two failures that nobody is told of; the map leads to open streams;
  callers get an answer unless a dead client blocks them.
- Gateway connections: no queued message vanishes, except in the windows that
  the code leaves open; order and no repetition per connection; `is_online`
  settles; connections are cleaned up.
- Auth: a token is earned with a code of its address, names a verified row, is
  revoked by the next one, and an address has one id.
- Users: an update writes the row of its own user, and only what it changes.
- History: it shows sends in order, loses nothing, and its two views agree.
- Requests: nothing happens without a valid token or in another's name; an
  answer says what was done and what the services hold, and there is one.

`PROJECT.json` lists these under "hazards", each at its line, with the
properties that would notice it going wrong.

## 2. The modules

| Module | Models | Checked by | Proofs |
|---|---|---|---|
| `ChatService` | SendMessage, StreamMessages, restarts | `MCChatService`, 4 runs | `ChatService_proofs`, `ChatPromise_proofs` |
| `Delivery` | the abstract specification of these two | `chat_multi`, as a refinement | `ChatPromise_proofs` |
| `AuthService` | Login, VerifyOTP, VerifyToken, middleware | `MCAuthService`, 3 runs | `AuthService_proofs` |
| `WsGateway` | WsHandler and its goroutine | `MCWsGateway`, 2 runs | `WsGateway_proofs` |
| `Gateway` | the HTTP routes, the middleware, the frames of a websocket, and what they call | `MCGateway`, 1 run | `Gateway_proofs`, `GatewayRequests_proofs` |
| `Tokens` | making, checking and reading tokens | by `Gateway` | by the same |
| `Protobuf`, `GatewayPb`, `ServicePb` | the wire format; the two copies of the generated code | by `Gateway` | by the same |
| `UserTable` | UpdateUser, the writes of `is_online` | `MCUserTable`, 1 run | `UserTable_proofs` |
| `History` | ListMessage, ListMessageBySender | `MCHistory`, 1 run | `History_proofs` |
| `ProtobufInt` | the conversion of ids to int32 | by the two above and `Gateway` | |

There are two levels. `ChatService`, `AuthService`, `WsGateway`, `UserTable` and
`History` take one service apart, one access to a shared store per step.
`Gateway` composes all of them from the outside: clients, gateway, network and
services, where a service executes a call in one step.

Common conventions. An execution of a handler is a process with a program
counter (`callPc`, `verifyPc`, ...); each process runs once, and the sets of
processes (`Calls`, `Streams`, `Conns`, ...) bound an instance. A step is one
access to something shared. Variables have the names of the Go variables where
there is one. A call that can fail has an outcome in which it took effect and
reported an error, one in which it had none, and one in which it succeeded; an
effect is never later than the report. History variables (marked in each
module) only record; no guard reads them. An operator whose comment begins with
"mutant:" is a variant of the definition after it with a bug in it; the module
itself does not use it.

**ChatService.** `Clients` and `mutex` are the Go fields. A call goes `lock`,
`lookup` (both branches unlock), then `send` (blocks while the channel is full)
or `push`, for each receiver, and `create` at the end. A stream goes `register`,
`insert`, then `recv` and `send` until a send fails, then `unregister`,
`delete`. `wire` and `received` are the transport and the client; a send needs
room in the transport only. A message copy is the pair of its call and its
place in the receivers' list. `lost` has the copies that the service dropped,
`pushFailed` those of them whose RPush failed: the code logs that and goes on to
acknowledge the message.

**Delivery.** What a caller may rely on: every receiver of a call gets a copy
of its own, handed over once and in the order of the list; a copy is on its way
to the receiver, in the offline list, with the client, or dropped, and moves
only from the first of these to the last two; the answer comes after all of
them, "ok" only with the rows. `ChatService!Promise` is `INSTANCE Delivery WITH`
the mapping: `inFlight` are the copies in channels, in the hands of streams and
on the transport, `queued` those in any Redis list, `dropped` is `lost`. The
mutex, the registry, the goroutines and their program counters are gone.

**AuthService.** The users table is `rowEmail` and `verified` by id, with its
sequence `nextId`; an INSERT takes an id and the COMMIT makes the row visible.
`UniqueEmail` says whether the index on email exists: user_service declares it
and auth_service does not, and AutoMigrate of the service that was migrated last
decides. The clock `now` moves in units in which `OtpLife < JwtLife < TokenLife`
may be scaled; the one relation that the code fixes and the model assumes is
`JwtLife < TokenLife`. A token is its claims.

**WsGateway.** A connection is a handler (`pc`) and a goroutine (`goPc`). The
handler goes `set online`, `read list`, `write offline`, `delete list`,
`start`, `loop`, with `forward` and `reply` for a frame, and leaves through
`set offline` and `close`, the deferred calls in their order. The chat service
is reduced to two actions that queue a message or put it on a stream. Which
message it was does not matter, only the order, so messages are numbers.
`Colliding` is the moment at which gorilla/websocket forbids what the code
does: both goroutines write. Either may then panic: the handler's panic is
recovered by gin (`HandlerPanics`), the goroutine's ends the process (`Crash`).
A connection that is refused before it is `Started` (a failed upgrade, a bad
token) leaves no trace in any store, and is left out.

**UserTable.** `UpdateUser` reads the row of the token's user, compares ids as
int32, and writes the name, while the gateway writes `is_online`.

**History.** SendMessage is reduced to the times it stamps on rows (`Loop`) and
the one INSERT. The queries are translated as relations: `LatestOfSenders` for
DISTINCT ON with its JOIN and order, `Listings` for ORDER BY; rows of equal time
come in any order. `SenderName` is a step because it is a query of its own,
which may fail; the name it finds is left out.

**Gateway.** A handler is an HTTP request or a websocket. Its record `handler[p]`
holds what the Go handler has in locals: the header, the request, the list of
receivers and the place in it, the call it waits for, its answer. It goes
`authenticate` (protected routes), `handle`, then `call` (one call), or
`forward` (one call per receiver), then `answered`; a websocket goes between
`open` and `forward`. `Receive`, `Authentication`, one action per handler
function, `Respond` and `Forwarded` are the gateway's; `AuthLogin`,
`UserUpdateUser`, `ChatSendMessage` and so on are the services', which read the
request that arrived. `CallFails` is a call without effect; an action of a
service with `Refuse` is a call that took effect and reported an error. The
stores are the variables of the four services as far as the answers depend on
them. `renames` and `knownBefore` are history variables.

Where an id goes into a message or into a row that is shown, it goes through
`ToInt32`, as in the code: the ids of paths and of users listed, and the sender on
a stream. The receivers of a JSON list are a choice: `ReceiverIds` is the set of
lists that may come of it, since a number that no int32 holds becomes one of two
by processor; a number stands for its whole part. What ILIKE finds is the constant
`Contains`, pairs of a pattern and a name. Selections of rows are by sets of their indexes (`RowsTo`,
`Senders`, `Latest`), and an ORDER BY by `Ascending`.

The offline list and `is_online` in full, `Recv` that fails, and the panic of
two writers are `WsGateway`'s; here a websocket has its receiving loop and its
stream.

**Tokens.** A token is a record of its claims and the key pair that signed it. Two
tokens made for a user in one second are the same token, which matters for what
"revoked" can mean (see `NoEffectWithoutValidToken`). `Parses` is the
common part of the three copies of `GetIdFromJWT1`; `PublicKey` gives each
process the form and the pair of the key it was configured with.

**Protobuf, GatewayPb, ServicePb.** A message is a record, its schema a set of
fields with numbers, names and kinds, its encoding a function from the numbers
of the fields that do not hold the zero value. `GatewayPb` and `ServicePb` are
translations of the two copies, field by field from the struct tags. A stub is
the path and the two schemas that the client's code names; a handler is what the
server's code names, and a description leads a path to it. A call in `Gateway`
is encoded by one copy and decoded by the other.

## 3. The runs

All runs but the live ones check safety. `CHECK_DEADLOCK FALSE` is set
everywhere: a behaviour of an instance ends when its processes have run.

| Run | Question | Instance |
|---|---|---|
| `chat_delivery` | Is the registry sound, and do messages keep their order? | 2 users, 2 calls with one receiver, 2 streams |
| `chat_multi` | Is every copy in one place, also over a restart? Does "ok" mean stored and served? Does the service implement `Delivery`? | 2 users, 1 call with up to 2 receivers, 2 streams, 1 restart |
| `chat_live` | Do senders get an answer, copies arrive, and streams get the mutex? | 2 calls with two copies each for one user, 1 stream, fairness |
| `chat_finding` | Is the channel of a user's only open stream in `Clients`? (violated) | 1 call, 2 streams |
| `auth_session` | Are tokens made for a code that matched, on record, revoked? | 1 address, 2 codes, 1 login, 2 verifications, 1 check, 3 units of time |
| `auth_identity` | Does an address keep one id, and a token name its row? Was it earned with a code of its own address? | 2 addresses, 1 code, 2 logins, 2 verifications |
| `auth_finding` | Is a used code deleted? (violated) | 1 address, 1 login, 1 verification |
| `ws_delivery` | Are queued and live messages delivered, in order, once? Does presence settle? | 1 user, 2 connections, 2 messages, 1 crash |
| `ws_live` | Are connections cleaned up? | 1 connection, 2 messages, 1 crash, fairness |
| `users` | Does an update touch its own row and its own columns only? | ids 1 and 9, which are equal as 3-bit integers; 2 updates, 2 changes of presence |
| `history` | Do the two views respect order and agree over time? | 2 sends, 2 reads, 2 clock readings |
| `requests` | Does anything happen without a valid token, or in another's name? Do answers tell the truth, and come? | 2 handlers of any route, 2 users, ids of 3 bits, a websocket with 1 frame, 2 seconds, fairness |

The most telling properties:

- `CopyAccounting` counts the places of every copy: one for those the loop has
  passed, none for the others, through blocking, restarts and dead clients.
- `AckedMeansServed` names the two ways in which an acknowledged message may be
  missing: its RPush failed, which `SendMessage` logs and does not report, or a
  client of its receiver has gone. Any other loss breaks it, and `CopyInv`: a
  sender that skipped a full channel, say.
- `SoleStreamIsStored` is what remains true of the registry although streams
  delete each other's entries; `OnlyOpenStreamIsStored`, what the comment on
  the field says, is not.
- `RealTimeOrder` compares calls that did not overlap, on every stream and in
  every list; `HistoryInOrder` does the same for what users read.
- `ReturnedTokenIsOnRecord` and `NewTokenRevokesOld` relate a verification to
  those that ran before it, beside it and after it.
- `MessageAccounting` of the gateway says where a message is. Its exceptions
  (`atRisk`) are exactly the windows between LRANGE and DEL and the writes to
  sockets that are gone: these losses are the code's, and the property does not
  judge them, but any other would be noticed. `WrittenOnce` and `PresenceSettles`
  are of the same kind, with overlapping drains and failed DELs (`drainFault`) and
  updates that reported an error (`presenceFault`).
- `PresenceSettles` holds whatever the order in which connections come and go;
  while two connections overlap, the flag may well be wrong, and `SolePresence`
  is restricted accordingly.
- `KeepsItsPromise` is the refinement: every step of the chat service is a step
  of `Delivery` or none.
- `AnswerTellsWhoWasServed` says what a client may conclude from an answer of
  POST /chat/send: after 200, everybody was served once and stored; after
  400, the first few were, up to the receiver whose call failed, who may have
  been served too. A client that repeats the request serves those again.
- `FailuresAreNamed` is the counterpart for a frame, where the loop goes on.
- `NoEffectWithoutValidToken` relates an effect in one service to what another
  one knew when the request came in: no message and no renaming by a token that
  had expired by then, or was off the record when the request was received or
  the websocket opened. A token that is made again in the same second is the
  same token; so one counts as revoked if another is on record *and* it was
  made in an earlier second.
- `EffectsAreTheCallers` and `AnswersAreTrue` compare what was asked with what
  arrived and what was read back, through two encodings. The former says on its
  own what a JSON number may become: the id it is, or one of the extreme ids if
  it is none (`Meant`); a conversion that kept the low bits would send the message
  to somebody else.
- `TokenWasEarned` has a half on addresses, for which `auth_identity` has two and
  two logins, and one on codes, which `SessionInv` repeats (`VerifyShape`) for the
  two codes of `auth_session`.
- `NothingShownIsLost` allows a message to turn up *before* one that the user
  has read already, but only if it was being sent at that time.

Why the bounds are enough to be interesting. The capacity of a channel is 1
instead of 10, so that it is full in nearly every behaviour; the window of the
transport is 1 for the same reason. Two streams, connections, logins or
verifications are what the races in question need. One restart separates a
before from an after. In `users`, 3 bits make two ids collide. In
`auth_session` the clock runs past all three lifetimes. In `history` two clock
readings give rows that are equal, ordered, and inserted against their order.
In `chat_live` four copies go into a channel of one, which the stream abandons
when its client goes. In `requests` two handlers are enough for one to replace
the token of the other in between (POST /auth/verify-otp beside any protected route), or
to read what the other has sent; all tokens of second 0 expire with second 2,
which the clock reaches, so a check and the call after it can fall on both sides;
two receivers with something else between them make a list whose middle fails;
9 is a number of JSON that no 3-bit integer holds, and collides with user 1 as
the id of a path.
Every action fires in some passing run, and for each property there is a mutant
of the code (listed in `PROJECT.json`) that violates it on the same instance.

Symmetry is used for sets of processes, users and addresses where no formula
tells their members apart, and never in a run that checks liveness.

### Fairness

`ChatService.Fairness`: a goroutine that can take its next step takes it (Go's
scheduler, and calls to Redis and Postgres that return), and a connected client
keeps receiving. Weak fairness of the process is enough even for the mutex:
with finitely many calls nobody can be overtaken for ever; Go's starvation mode
gives the same for any number. Nothing is assumed of new calls, of failures, or
of clients leaving.

`WsGateway.Fairness`: the handler gets on by itself except where it waits for a
frame of a connected client or for the chat service's answer to SendMessage
(`forward`), which has no deadline: `SendReturns` says when that answer comes.
Recv fails once the context is cancelled.

`Gateway.Fairness`: a handler takes its next step, and a call is answered, by the
service or by an error; gRPC reports a connection that breaks. The exception is
SendMessage, whose receiver may keep it for ever (`ChatService`'s `SendReturns`
says when), so `RequestIsAnswered` excepts handlers that wait for it. That the
other calls return is assumed and not shown, for they have no deadline either; what
`RequestIsAnswered` checks is the handlers' own loops. Nothing is assumed of clients.

### Findings

1. `chat_service.go:139`. The comment on `Clients` (line 26) says that it stores
   the channel used for streaming. When a user opens a second stream and the
   first one returns afterwards, it deletes the *second* one's entry. The user
   is connected, is served by nobody, and messages for them are queued as
   offline until they connect again.
2. `auth_service.go:123`. The comment above it says that the OTP is deleted
   after verification. The key that is deleted is the address itself, not the
   one the code was stored under; a code can be used until it expires.

## 4. What is proved

| Theorems | Rest on | For every |
|---|---|---|
| `ChatService_proofs`: `TypeCorrect`, `MutualExclusion`, `RegistrySound`, `SoleStreamFound`, `AckSound`, `Addressing`, `HistoryBehindDelivery` | `ChatAssumption`, `IInv` | number of users, calls, streams, restarts; capacity; window |
| `ChatPromise_proofs`: `CopiesFollowed`, `ServedWhenAcked`, `EachCopyOnce`, `DeliveredInOrder`, `PromiseKept` | `ChatAssumption`, `CopyInv` | the same |
| `AuthService_proofs`: `TypeCorrect`, `SavedTokensSound`, `SavedTokensEarned`, `IdentitySound` | `AuthAssumption`, `IInv` | number of addresses, codes, handlers, ids; lifetimes |
| `AuthService_proofs`: `SessionsFollowed`, `TokenStaysOnRecord`, `LoginRevokes` | `AuthAssumption`, `NoneAssumption`, `SessionInv` | the same |
| `WsGateway_proofs`: `ConnectionsFollowed`, `NothingDisappears`, `ClientInOrder`, `HandedOutOnce`, `OfflineInTheEnd`, `OnlineWhileServed` | `GatewayAssumption`, `WsInv` | number of users, connections, messages, receivers, deaths of the gateway |
| `History_proofs`: `RowsFollowed`, `ListingsInOrder`, `NothingIsLost`, `NewestStays` | `HistoryAssumption`, `HistInv` | number of users, sends, reads; lists; width of ids; time |
| `Gateway_proofs`: `TokensFollowed`, `ValidTokensOnly` | `GatewayAssumption`, `GateInv` | number of handlers, requests, frames, users; keys; lifetimes; width of ids |
| `GatewayRequests_proofs`: `RequestsFollowed`, `AnswersTell`, `FailuresNamed`, `EffectsAreOfTheCaller`, `AnswersTrue` | `GatewayAssumption`, `JsonAssumption`, `WidthAssumption`, `RequestInv` | the same, and receivers, contents, names |
| `UserTable_proofs`: `TypeCorrect`, `PresenceKept`, `NamesOwned` | `UserAssumption`, `IInv` | table, number of updates, width of ids |

The assumptions say that bounds and times are numbers, ids are positive, and that
`None` is not one of the values it stands beside; only `JwtLife < TokenLife`
(one hour and one day in the code) says more. `GatewayAssumption` also has the
users finite, as rows of a table, and `JsonAssumption` that a JSON array is read
as a slice, a sequence from 1 on. `WidthAssumption` repeats that half of the
range of an id is a positive number, because the provers know nothing of `^`; TLC
evaluates it, and for a positive width it is arithmetic. Each module states an inductive
invariant, a run checks it, and a theorem proves it; the others follow from it.
What it adds to the properties:

- *ChatService, `IInv`.* `CallShape` says what a call knows at each step; the
  heart is that the stream it has looked up belongs to its receiver although it
  may have ended since, because `owner` never changes. `CopiesPlaced` says that
  copies are only where a passed receiver put them, `DrainFindsNothing` that
  the drain's key is empty: with another key, `CopiesPlaced` would need to know
  about deletions between LRANGE and DEL. For `SoleStreamFound` the only step
  that can hurt is another stream's `Unregister`, and then the stream is not
  sole.
- *ChatService, `CopyInv`.* Positions of copies in concatenated sequences are
  awkward to count, so the invariant says it with sets: no copy twice in one
  pipeline or list and none behind one that it precedes (`EachInTurn`), no copy
  in two of them, and one in none exactly before its turn (`OnePlace`). A copy that
  was dropped has one of two reasons (`LossHasACause`), which stay so: `pushFailed`
  only grows, and a stream that has an owner keeps it, and its client, once gone,
  is gone. With `OnePlace` that is `AckedMeansServed`.
  `CopyAccounting`'s cardinalities and `RealTimeOrder` follow. For `PromiseKept`
  each action is shown to be a step of `Delivery` under the mapping
  or to leave the mapped state alone; the restart is the only one that maps to
  the fate of many copies at once, `Restart`.
- *AuthService, `IInv`.* `LoginShape` and `IdsApart` say that an id between
  INSERT and COMMIT is nobody else's, `RowsUnique` what the index gives; so the
  first row of an address never changes, which is `IdentityIsStable`. `MadeFor`
  follows a code from the login that made it to the verification that used it.
  That the least id exists is a lemma on finite sets of naturals.
- *AuthService, `SessionInv`.* A record's deadline lies behind its token's
  (`RecordOutlivesToken`, from `JwtLife < TokenLife`), and what is on record was
  saved by a verification that had not returned when any verification that has
  since returned began (`RecordIsRecent`); so an older token cannot come back.
- *WsGateway, `WsInv`.* It follows every message: lists and connections hold
  messages of their own user (`MessagesKnown`), what a DEL will take away has
  been read unless it came after the LRANGE (`DrainsAll`), each way is in order
  (`AllInOrder`), and a message that two connections hold is one of a fault
  (`PassedOnce`). `OnlineFor` gives the flag a reason: a connection that is
  being served.
- *History, `HistInv`.* `LateOnes` is the point: what an answer lacks was under
  way when it was made, or is no older than anything it shows. With
  `SentInTurn` both properties over two reads follow.
- *Gateway, `GateInv`.* It follows a token. A token that was revoked when a
  handler began never returns to the record (`RevokedForGood`): a new one made
  since expires later, hence is another. The bytes of a call are the encoding of
  its handler's header (`CallShape`), which the auth service decodes to the same
  (`RoundTrip`, a lemma about any two equal schemas without messages in them).
  So a handler past the middleware is `Trusted`, and the services' own parsing
  adds the expiry.
- *Gateway, `RequestInv`.* It follows a request, on top of `GateInv`.
  Of a handler it says: before its call there is nothing of it anywhere
  (`NothingYet`); the service is asked what the client asked, and an answer on its
  way back is as true as one that was given (`QuestionShape`); in a loop the
  receivers are those of what was asked, and the place is in range (`LoopShape`).
  `SendProgress` and `FrameProgress` say how far a loop is, and need to
  distinguish a call that is out, one that came back with an error, which may have
  handed over its copy, and one that succeeded, which has stored it: without
  `Succeeds(r) => ...` the last receiver of an answer 200 would be unknown.
  `ShownShape` makes every entry shown a copy that was handed over. Of the tables
  (`TablesInv`) it says that renames are as asked, and names are those of a rename
  or the first ones. Truth of an answer is kept by later steps because nothing is
  taken back: `StepOf` says that copies, rows, renames and tokens only become
  more, and a handler that has answered does not move (`AnswerKept`). The bytes
  are handled by one lemma for each message (`OTPTrip` to `ListingTrip`), which
  rest on `FieldTrip`: a field that no other shares its number with arrives as it was sent, for
  flat fields, and in the same way inside a nested or repeated message.
- *UserTable, `IInv`.* The row an update writes was found under its token's id.
  Nothing is assumed about `ToInt32`.

Every safety property that a passing run checks is a theorem. Only model-checked is
all liveness (`SendReturns`, `LiveCopyArrives`, `LockIsObtained`, `CleanedUp`,
`RequestIsAnswered`), which TLAPS does not reach. The queries are translated by
sets of indexes and not with `SelectSeq`, about which little can be proved without
induction over data.

## 5. What is not modelled

- `CreateUser` of user_service and the gateway's copy of `ParsingJWT`, which
  nobody calls; `GetAllUsers` beyond its one SELECT.
- PEM blocks, signatures and the JSON of tokens, beyond what decides whether a
  token is accepted. Text of messages, mails, logs and errors.
- The generated descriptors in binary form, the reflection interface, and the
  parts of the generated gRPC code that no path of the program enters
  (unimplemented servers, interceptors).
- Configuration, logging, process start: they read the environment, open
  connections and start servers, and keep no state that the handlers change. A
  restart is modelled where something is lost by it (`ChatService`, `WsGateway`).
- Migrations, except for the index on email; deployment files and the API
  collection, which have no behaviour of their own.
- Clocks that step backwards, and an insert that commits after its error was
  reported.
- The services' concurrency inside one call of `Gateway`: it is what the other
  modules are about. `Gateway` lets a service execute a call at any moment
  between its sending and its answer, but at one.

## 6. Plan

Done since the first version: `Gateway` with `Tokens` and the generated code,
`Delivery` and the refinement, and the inductive invariants and proofs of all
safety properties. What is left, by use:

1. An abstract specification of `Gateway`, `Served`, without stubs, bytes and
   middleware: a request with a valid token has its effects in one step for each
   receiver or rename and is answered, any other is refused. `RequestInv` says of
   the call what the mapping needs (`QuestionShape`, `LoopShape`), so the steps
   should follow from it.
2. `AuthService` against the three one-step actions of `Gateway` that stand for
   it, where no two verifications of an address overlap.
3. `ChatService` and `WsGateway` over one Redis and one stream, in place of the
   two actions of `WsGateway` that stand for the chat service: with `Delivery`
   for the former the composition is small enough to check in `ws_delivery`.
