---------------------------- MODULE ChatService ----------------------------
(***************************************************************************)
(* The chat service (chat-service/app/service/chat_service.go): the        *)
(* registry Clients of stream channels, its mutex, the unary RPC           *)
(* SendMessage, the server-streaming RPC StreamMessages with its drain     *)
(* goroutine, the Redis lists of offline messages and the messages table.  *)
(*                                                                         *)
(* Every RPC execution is a process with a program counter.  A step is one *)
(* access to something shared: the mutex, the map under the mutex, a       *)
(* channel, Redis, the database or the transport of a stream.              *)
(***************************************************************************)
EXTENDS Naturals, Sequences, FiniteSets

CONSTANTS
  Users,          \* user ids, as ParsingJWT extracts them from a token
  Calls,          \* executions of SendMessage
  Streams,        \* executions of StreamMessages
  ReceiverLists,  \* the receiver_id lists that requests carry
  Capacity,       \* buffer of a stream's channel (10 in the code)
  Window,         \* messages the transport of a stream holds unread
  MaxCrashes,     \* bound: how often the process dies and is restarted
  None            \* no stream, no user, nobody holds the mutex

ASSUME ChatAssumption ==
  /\ None \notin Users \cup Calls \cup Streams
  /\ Calls \cap Streams = {}
  /\ ReceiverLists \subseteq Seq(Users)
  /\ Capacity \in Nat \ {0}
  /\ Window \in Nat \ {0}
  /\ MaxCrashes \in Nat

VARIABLES
  mutex,          \* who holds ClientsMutex, or None
  Clients,        \* user -> stream whose channel is registered, or None
  callPc, receivers, idx, target,          \* locals of SendMessage
  streamPc, owner, channel, hand,          \* locals of StreamMessages
  drainPc, drainBuf,                       \* its drain goroutine
  redis,          \* Redis key -> list of message copies
  messages,       \* rows of the messages table
  peer, wire, received,  \* client end of a stream: state, in flight, got
  lost,           \* history: copies the service dropped
  pushFailed,     \* history: those of them that Redis did not take
  finishedBefore, \* history: calls that had returned when a call began
  crashes

callVars   == <<callPc, receivers, idx, target, finishedBefore>>
streamVars == <<streamPc, owner, channel, hand>>
drainVars  == <<drainPc, drainBuf>>
lockVars   == <<mutex, Clients>>
storeVars  == <<redis, messages, lost, pushFailed>>
peerVars   == <<peer, wire, received>>
vars == <<callVars, streamVars, drainVars, lockVars, storeVars, peerVars, crashes>>

\* The i-th receiver's copy of the message of call c.
Copies == Calls \X (Nat \ {0})

SeqRange(q) == {q[n] : n \in 1 .. Len(q)}

\* SendMessage stores under user:%d:offline_messages ...
OfflineKey(u) == <<u, "offline_messages">>

DrainKeySame(u) == OfflineKey(u)      \* mutant: both sides use one key
\* ... and StreamMessages reads user:%d:offline_messages: (a trailing colon).
DrainKey(u) == <<u, "offline_messages:">>

Keys == Users \X {"offline_messages", "offline_messages:"}

Returned(c) == callPc[c] \in {"ok", "failed"}
\* Serving: in Clients as far as the stream knows, looping over its channel.
Serving(s) == streamPc[s] \in {"recv", "send"}
HasRegistered(s) == streamPc[s] \notin {"idle", "register", "insert"}

Init ==
  /\ mutex = None
  /\ Clients = [u \in Users |-> None]
  /\ callPc = [c \in Calls |-> "idle"]
  /\ receivers = [c \in Calls |-> <<>>]
  /\ idx = [c \in Calls |-> 1]
  /\ target = [c \in Calls |-> None]
  /\ streamPc = [s \in Streams |-> "idle"]
  /\ owner = [s \in Streams |-> None]
  /\ channel = [s \in Streams |-> <<>>]
  /\ hand = [s \in Streams |-> <<>>]
  /\ drainPc = [s \in Streams |-> "idle"]
  /\ drainBuf = [s \in Streams |-> <<>>]
  /\ redis = [k \in Keys |-> <<>>]
  /\ messages = {}
  /\ peer = [s \in Streams |-> "absent"]
  /\ wire = [s \in Streams |-> <<>>]
  /\ received = [s \in Streams |-> <<>>]
  /\ lost = {}
  /\ pushFailed = {}
  /\ finishedBefore = [c \in Calls |-> {}]
  /\ crashes = 0

-----------------------------------------------------------------------------
(* SendMessage                                                             *)

\* The token is good and the list is not empty: enter the loop.
SendMessage(c) ==
  /\ callPc[c] = "idle"
  /\ \E rs \in ReceiverLists :
       /\ rs # <<>>
       /\ receivers' = [receivers EXCEPT ![c] = rs]
  /\ callPc' = [callPc EXCEPT ![c] = "lock"]
  /\ finishedBefore' = [finishedBefore EXCEPT ![c] = {d \in Calls : Returned(d)}]
  /\ UNCHANGED <<idx, target, streamVars, drainVars, lockVars, storeVars, peerVars, crashes>>

\* ParsingJWT fails, or the receiver list is empty.
RejectSend(c) ==
  /\ callPc[c] = "idle"
  /\ callPc' = [callPc EXCEPT ![c] = "failed"]
  /\ UNCHANGED <<receivers, idx, target, finishedBefore,
                 streamVars, drainVars, lockVars, storeVars, peerVars, crashes>>

FirstReceiver(c) == receivers[c][1]   \* mutant: the loop variable is not used
Receiver(c) == receivers[c][idx[c]]
Copy(c) == <<c, idx[c]>>

LockForLookup(c) ==
  /\ callPc[c] = "lock"
  /\ mutex = None
  /\ mutex' = c
  /\ callPc' = [callPc EXCEPT ![c] = "lookup"]
  /\ UNCHANGED <<receivers, idx, target, finishedBefore, Clients,
                 streamVars, drainVars, storeVars, peerVars, crashes>>

LookupUnlockOffline(c) ==   \* mutant: no Unlock on the branch that found a channel
  /\ callPc[c] = "lookup"
  /\ target' = [target EXCEPT ![c] = Clients[Receiver(c)]]
  /\ callPc' = [callPc EXCEPT ![c] =
                  IF Clients[Receiver(c)] = None THEN "push" ELSE "send"]
  /\ mutex' = IF Clients[Receiver(c)] = None THEN None ELSE mutex
  /\ UNCHANGED <<receivers, idx, finishedBefore, Clients,
                 streamVars, drainVars, storeVars, peerVars, crashes>>

\* Both branches unlock right after the lookup; what was read may be stale by
\* the time it is used.
Lookup(c) ==
  /\ callPc[c] = "lookup"
  /\ target' = [target EXCEPT ![c] = Clients[Receiver(c)]]
  /\ callPc' = [callPc EXCEPT ![c] =
                  IF Clients[Receiver(c)] = None THEN "push" ELSE "send"]
  /\ mutex' = None
  /\ UNCHANGED <<receivers, idx, finishedBefore, Clients,
                 streamVars, drainVars, storeVars, peerVars, crashes>>

NextReceiverFirstOnly(c) ==   \* mutant: leaves the loop after one receiver
  /\ idx' = [idx EXCEPT ![c] = @ + 1]
  /\ callPc' = [callPc EXCEPT ![c] = "create"]

NextReceiver(c) ==
  /\ idx' = [idx EXCEPT ![c] = @ + 1]
  /\ callPc' = [callPc EXCEPT ![c] =
                  IF idx[c] < Len(receivers[c]) THEN "lock" ELSE "create"]

Full(s) == Len(channel[s]) >= Capacity

SendToChannelOrNot(c) ==   \* mutant: select with a default, instead of blocking
  /\ callPc[c] = "send"
  /\ channel' = IF Full(target[c]) THEN channel
                ELSE [channel EXCEPT ![target[c]] = Append(@, Copy(c))]
  /\ NextReceiver(c)
  /\ UNCHANGED <<receivers, target, finishedBefore, streamPc, owner, hand,
                 drainVars, lockVars, storeVars, peerVars, crashes>>

\* ch <- msg on a buffered channel: blocks while it is full, whether or not
\* a stream still reads it.
SendToChannel(c) ==
  /\ callPc[c] = "send"
  /\ ~Full(target[c])
  /\ channel' = [channel EXCEPT ![target[c]] = Append(@, Copy(c))]
  /\ NextReceiver(c)
  /\ UNCHANGED <<receivers, target, finishedBefore, streamPc, owner, hand,
                 drainVars, lockVars, storeVars, peerVars, crashes>>

LPush(q, k) == <<k>> \o q             \* mutant: the list grows at its head
RPush(q, k) == Append(q, k)

\* RPush to Redis; its error is logged and the loop goes on.
PushOffline(c) ==
  /\ callPc[c] = "push"
  /\ \/ /\ redis' = [redis EXCEPT ![OfflineKey(Receiver(c))] = RPush(@, Copy(c))]
        /\ UNCHANGED <<lost, pushFailed>>
     \/ /\ lost' = lost \cup {Copy(c)}
        /\ pushFailed' = pushFailed \cup {Copy(c)}
        /\ UNCHANGED redis
  /\ NextReceiver(c)
  /\ UNCHANGED <<receivers, target, finishedBefore, messages,
                 streamVars, drainVars, lockVars, peerVars, crashes>>

Rows(c) == {<<c, i>> : i \in 1 .. Len(receivers[c])}

\* One INSERT of all the rows: stored and acknowledged, stored although the
\* caller sees an error (the reply was lost), or not stored.
CreateMessages(c) ==
  /\ callPc[c] = "create"
  /\ \/ /\ messages' = messages \cup Rows(c)
        /\ callPc' = [callPc EXCEPT ![c] = "ok"]
     \/ /\ messages' = messages \cup Rows(c)
        /\ callPc' = [callPc EXCEPT ![c] = "failed"]
     \/ /\ callPc' = [callPc EXCEPT ![c] = "failed"]
        /\ UNCHANGED messages
  /\ UNCHANGED <<receivers, idx, target, finishedBefore, redis, lost, pushFailed,
                 streamVars, drainVars, lockVars, peerVars, crashes>>

-----------------------------------------------------------------------------
(* StreamMessages                                                          *)

\* The token names the user; the channel is made but not yet registered.
StreamMessages(s) ==
  /\ streamPc[s] = "idle"
  /\ \E u \in Users : owner' = [owner EXCEPT ![s] = u]
  /\ streamPc' = [streamPc EXCEPT ![s] = "register"]
  /\ peer' = [peer EXCEPT ![s] = "up"]
  /\ UNCHANGED <<channel, hand, wire, received,
                 callVars, drainVars, lockVars, storeVars, crashes>>

\* ParsingJWT fails.
RejectStream(s) ==
  /\ streamPc[s] = "idle"
  /\ streamPc' = [streamPc EXCEPT ![s] = "done"]
  /\ UNCHANGED <<owner, channel, hand,
                 callVars, drainVars, lockVars, storeVars, peerVars, crashes>>

LockToRegister(s) ==
  /\ streamPc[s] = "register"
  /\ mutex = None
  /\ mutex' = s
  /\ streamPc' = [streamPc EXCEPT ![s] = "insert"]
  /\ UNCHANGED <<owner, channel, hand, Clients,
                 callVars, drainVars, storeVars, peerVars, crashes>>

\* s.Clients[*senderId] = clientChan, over whatever was there; then the drain
\* goroutine starts.
Register(s) ==
  /\ streamPc[s] = "insert"
  /\ Clients' = [Clients EXCEPT ![owner[s]] = s]
  /\ mutex' = None
  /\ streamPc' = [streamPc EXCEPT ![s] = "recv"]
  /\ drainPc' = [drainPc EXCEPT ![s] = "read"]
  /\ UNCHANGED <<owner, channel, hand, drainBuf,
                 callVars, storeVars, peerVars, crashes>>

\* range clientChan: the only thing the loop waits for is a message.
TakeMessage(s) ==
  /\ streamPc[s] = "recv"
  /\ channel[s] # <<>>
  /\ hand' = [hand EXCEPT ![s] = <<Head(channel[s])>>]
  /\ channel' = [channel EXCEPT ![s] = Tail(@)]
  /\ streamPc' = [streamPc EXCEPT ![s] = "send"]
  /\ UNCHANGED <<owner, callVars, drainVars, lockVars, storeVars, peerVars, crashes>>

StreamSendOnce(s) ==   \* mutant: the loop ends after the first message
  /\ streamPc[s] = "send"
  /\ peer[s] = "up"
  /\ Len(wire[s]) < Window
  /\ wire' = [wire EXCEPT ![s] = @ \o hand[s]]
  /\ hand' = [hand EXCEPT ![s] = <<>>]
  /\ streamPc' = [streamPc EXCEPT ![s] = "unregister"]
  /\ UNCHANGED <<owner, channel, peer, received,
                 callVars, drainVars, lockVars, storeVars, crashes>>

\* stream.Send succeeds once the transport has room; it does not wait for the
\* client to receive the message.
StreamSend(s) ==
  /\ streamPc[s] = "send"
  /\ peer[s] = "up"
  /\ Len(wire[s]) < Window
  /\ wire' = [wire EXCEPT ![s] = @ \o hand[s]]
  /\ hand' = [hand EXCEPT ![s] = <<>>]
  /\ streamPc' = [streamPc EXCEPT ![s] = "recv"]
  /\ UNCHANGED <<owner, channel, peer, received,
                 callVars, drainVars, lockVars, storeVars, crashes>>

\* stream.Send fails: the message in hand is dropped and the loop ends.
StreamSendFails(s) ==
  /\ streamPc[s] = "send"
  /\ peer[s] = "gone"
  /\ lost' = lost \cup SeqRange(hand[s])
  /\ hand' = [hand EXCEPT ![s] = <<>>]
  /\ streamPc' = [streamPc EXCEPT ![s] = "unregister"]
  /\ UNCHANGED <<owner, channel, redis, messages, pushFailed,
                 callVars, drainVars, lockVars, peerVars, crashes>>

LockToUnregister(s) ==
  /\ streamPc[s] = "unregister"
  /\ mutex = None
  /\ mutex' = s
  /\ streamPc' = [streamPc EXCEPT ![s] = "delete"]
  /\ UNCHANGED <<owner, channel, hand, Clients,
                 callVars, drainVars, storeVars, peerVars, crashes>>

WithoutNobody(s) == Clients                  \* mutant: the delete is forgotten
WithoutAnyone(s) == [u \in Users |-> None]   \* mutant: the map is made anew

\* delete(s.Clients, *senderId): by the user's id, whoever's channel is there.
WithoutOwner(s) == [Clients EXCEPT ![owner[s]] = None]

Unregister(s) ==
  /\ streamPc[s] = "delete"
  /\ Clients' = WithoutOwner(s)
  /\ mutex' = None
  /\ streamPc' = [streamPc EXCEPT ![s] = "done"]
  /\ UNCHANGED <<owner, channel, hand,
                 callVars, drainVars, storeVars, peerVars, crashes>>

-----------------------------------------------------------------------------
(* The goroutine StreamMessages starts for the offline messages.           *)

\* LRange ...
DrainRead(s) ==
  /\ drainPc[s] = "read"
  /\ drainBuf' = [drainBuf EXCEPT ![s] = redis[DrainKey(owner[s])]]
  /\ drainPc' = [drainPc EXCEPT ![s] = "push"]
  /\ UNCHANGED <<callVars, streamVars, lockVars, storeVars, peerVars, crashes>>

\* ... on an error of which the goroutine returns.
DrainReadFails(s) ==
  /\ drainPc[s] = "read"
  /\ drainPc' = [drainPc EXCEPT ![s] = "done"]
  /\ UNCHANGED <<drainBuf, callVars, streamVars, lockVars, storeVars, peerVars, crashes>>

\* What was read goes to the channel, one message at a time ...
DrainForward(s) ==
  /\ ~Full(s)
  /\ channel' = [channel EXCEPT ![s] = Append(@, Head(drainBuf[s]))]
  /\ drainBuf' = [drainBuf EXCEPT ![s] = Tail(@)]
  /\ UNCHANGED <<drainPc, streamPc, owner, hand,
                 callVars, lockVars, storeVars, peerVars, crashes>>

\* ... and then the list is deleted.
DrainDelete(s) ==
  /\ redis' = [redis EXCEPT ![DrainKey(owner[s])] = <<>>]
  /\ drainPc' = [drainPc EXCEPT ![s] = "done"]
  /\ UNCHANGED <<drainBuf, messages, lost, pushFailed,
                 callVars, streamVars, lockVars, peerVars, crashes>>

DrainPush(s) ==
  /\ drainPc[s] = "push"
  /\ IF drainBuf[s] # <<>> THEN DrainForward(s) ELSE DrainDelete(s)

-----------------------------------------------------------------------------
(* The process and the clients of the streams.                             *)

InMemory == UNION {SeqRange(channel[s]) \cup SeqRange(hand[s]) : s \in Streams}

\* The process dies and is restarted: goroutines, channels and the registry
\* are gone; Redis and the table stay.  Callers see their RPC fail, and the
\* connection of every stream breaks.
Crash ==
  /\ crashes < MaxCrashes
  /\ crashes' = crashes + 1
  /\ mutex' = None
  /\ Clients' = [u \in Users |-> None]
  /\ callPc' = [c \in Calls |-> IF callPc[c] \in {"idle", "ok"} THEN callPc[c]
                                                               ELSE "failed"]
  /\ streamPc' = [s \in Streams |-> IF streamPc[s] = "idle" THEN "idle" ELSE "done"]
  /\ drainPc' = [s \in Streams |-> IF drainPc[s] = "idle" THEN "idle" ELSE "done"]
  /\ drainBuf' = [s \in Streams |-> <<>>]
  /\ channel' = [s \in Streams |-> <<>>]
  /\ hand' = [s \in Streams |-> <<>>]
  /\ lost' = lost \cup InMemory
  /\ peer' = [s \in Streams |-> IF peer[s] = "up" THEN "gone" ELSE peer[s]]
  /\ UNCHANGED <<receivers, idx, target, finishedBefore, owner, redis, messages,
                 pushFailed, wire, received>>

\* stream.Recv at the client.
ClientRecv(s) ==
  /\ peer[s] = "up"
  /\ wire[s] # <<>>
  /\ received' = [received EXCEPT ![s] = Append(@, Head(wire[s]))]
  /\ wire' = [wire EXCEPT ![s] = Tail(@)]
  /\ UNCHANGED <<peer, callVars, streamVars, drainVars, lockVars, storeVars, crashes>>

\* The client cancels the stream or its connection breaks.
ClientGone(s) ==
  /\ peer[s] = "up"
  /\ peer' = [peer EXCEPT ![s] = "gone"]
  /\ UNCHANGED <<wire, received, callVars, streamVars, drainVars, lockVars, storeVars, crashes>>

CallStep(c) ==
  \/ LockForLookup(c) \/ Lookup(c) \/ SendToChannel(c)
  \/ PushOffline(c) \/ CreateMessages(c)
StreamStep(s) ==
  \/ LockToRegister(s) \/ Register(s) \/ TakeMessage(s) \/ StreamSend(s)
  \/ StreamSendFails(s) \/ LockToUnregister(s) \/ Unregister(s)
DrainStep(s) == DrainRead(s) \/ DrainReadFails(s) \/ DrainPush(s)

Next ==
  \/ \E c \in Calls : SendMessage(c) \/ RejectSend(c) \/ CallStep(c)
  \/ \E s \in Streams : \/ StreamMessages(s) \/ RejectStream(s)
                        \/ StreamStep(s) \/ DrainStep(s)
                        \/ ClientRecv(s) \/ ClientGone(s)
  \/ Crash

Spec == Init /\ [][Next]_vars

\* A goroutine that can run does run, a network or database call returns, and
\* a client that is connected keeps receiving.
Fairness ==
  /\ \A c \in Calls : WF_vars(CallStep(c))
  /\ \A s \in Streams : WF_vars(StreamStep(s)) /\ WF_vars(DrainStep(s))
                                               /\ WF_vars(ClientRecv(s))
FairSpec == Spec /\ Fairness

-----------------------------------------------------------------------------
(* Properties                                                              *)

CallPcs == {"idle", "lock", "lookup", "send", "push", "create", "ok", "failed"}
StreamPcs == {"idle", "register", "insert", "recv", "send", "unregister", "delete", "done"}

\* Every variable has its type; no channel holds more than its buffer, no
\* transport more than its window, and a stream has at most one message in hand.
TypeOK ==
  /\ mutex \in Calls \cup Streams \cup {None}
  /\ Clients \in [Users -> Streams \cup {None}]
  /\ callPc \in [Calls -> CallPcs]
  /\ receivers \in [Calls -> Seq(Users)]
  /\ idx \in [Calls -> Nat \ {0}]
  /\ target \in [Calls -> Streams \cup {None}]
  /\ finishedBefore \in [Calls -> SUBSET Calls]
  /\ streamPc \in [Streams -> StreamPcs]
  /\ owner \in [Streams -> Users \cup {None}]
  /\ channel \in [Streams -> Seq(Copies)]
  /\ \A s \in Streams : Len(channel[s]) <= Capacity
  /\ hand \in [Streams -> Seq(Copies)]
  /\ \A s \in Streams : Len(hand[s]) <= 1
  /\ drainPc \in [Streams -> {"idle", "read", "push", "done"}]
  /\ drainBuf \in [Streams -> Seq(Copies)]
  /\ redis \in [Keys -> Seq(Copies)]
  /\ messages \in SUBSET Copies
  /\ lost \in SUBSET Copies
  /\ pushFailed \in SUBSET Copies
  /\ peer \in [Streams -> {"absent", "up", "gone"}]
  /\ wire \in [Streams -> Seq(Copies)]
  /\ \A s \in Streams : Len(wire[s]) <= Window
  /\ received \in [Streams -> Seq(Copies)]
  /\ crashes \in 0 .. MaxCrashes

\* Mutual exclusion: at most one goroutine is between Lock and Unlock, and the
\* mutex says which.  Sends block on channels only outside of it.
InLock(p) == \/ p \in Calls /\ callPc[p] = "lookup"
             \/ p \in Streams /\ streamPc[p] \in {"insert", "delete"}
OnlyHolderInLock == \A p \in Calls \cup Streams : InLock(p) <=> mutex = p

\* Clients never maps a user to a stream of somebody else, to one that has not
\* registered, or to one that has already returned from StreamMessages.
RegistryPointsToOpenStream ==
  \A u \in Users :
    Clients[u] # None =>
      /\ owner[Clients[u]] = u
      /\ streamPc[Clients[u]] \in {"recv", "send", "unregister", "delete"}

\* As long as a user has had a single stream, SendMessage finds that stream for
\* as long as it serves: only another stream of the same user can displace it.
SoleStreamIsStored ==
  \A s \in Streams :
    /\ Serving(s)
    /\ \A t \in Streams \ {s} : owner[t] = owner[s] => ~HasRegistered(t)
    => Clients[owner[s]] = s

\* What is on its way to a client, or got there, in the order of arrival.
Pipeline(s) == received[s] \o wire[s] \o hand[s] \o channel[s]

ReceiverOf(k) == receivers[k[1]][k[2]]

\* A message copy is only ever queued for, or sent to, the user it names: a
\* channel looked up earlier is never that of somebody else.
NoMisdelivery ==
  /\ \A s \in Streams : \A k \in SeqRange(Pipeline(s)) : ReceiverOf(k) = owner[s]
  /\ \A u \in Users : \A k \in SeqRange(redis[OfflineKey(u)]) : ReceiverOf(k) = u

InStreams(k) == {p \in UNION {{s} \X (1 .. Len(Pipeline(s))) : s \in Streams} :
                   Pipeline(p[1])[p[2]] = k}
InRedis(k) == {p \in UNION {{key} \X (1 .. Len(redis[key])) : key \in Keys} :
                   redis[p[1]][p[2]] = k}

\* No copy is duplicated and none disappears unaccounted: a copy the loop has
\* passed is in exactly one place (with a stream, in a Redis list, or dropped
\* by a failed send, a failed push or a crash), a later one in none.
CopyAccounting ==
  \A c \in Calls : \A i \in 1 .. Len(receivers[c]) :
    Cardinality(InStreams(<<c, i>>)) + Cardinality(InRedis(<<c, i>>))
      + (IF <<c, i>> \in lost THEN 1 ELSE 0)
    = (IF i < idx[c] THEN 1 ELSE 0)

Precedes(k, l) == \/ k[1] \in finishedBefore[l[1]]
                  \/ k[1] = l[1] /\ k[2] < l[2]
InOrder(q) == \A m, n \in 1 .. Len(q) : m < n => ~Precedes(q[n], q[m])

\* A message whose SendMessage returned before another was called never comes
\* after it, on one stream or in one offline list.
RealTimeOrder ==
  /\ \A s \in Streams : InOrder(Pipeline(s))
  /\ \A u \in Users : InOrder(redis[OfflineKey(u)])

\* An acknowledged call has all its rows stored and has passed its last receiver.
AckedMeansStored ==
  \A c \in Calls : callPc[c] = "ok" =>
    /\ Rows(c) \subseteq messages
    /\ idx[c] = Len(receivers[c]) + 1

\* The table never shows a message of which some copy has not been handed over
\* yet: the history does not run ahead of the delivery.
StoredAfterHandover ==
  \A k \in messages : idx[k[1]] > Len(receivers[k[1]])

\* Nobody waits for the mutex for ever, whoever is blocked on a full channel:
\* a stream that was opened is registered, one that ended is taken out.
LockIsObtained ==
  \A s \in Streams :
    /\ (streamPc[s] = "register") ~> (streamPc[s] \notin {"register", "insert"})
    /\ (streamPc[s] = "unregister") ~> (streamPc[s] = "done")

BlockedByGoneClient(c) == callPc[c] = "send" /\ peer[target[c]] = "gone"

\* A call returns unless the client of the stream it found is gone: a client
\* that keeps receiving never blocks a sender, however full its channel is.
SendReturns ==
  \A c \in Calls : (callPc[c] = "lock") ~> (Returned(c) \/ BlockedByGoneClient(c))

\* The first copy of a message, once in a channel, reaches the client, unless
\* the client goes (or the process dies, which breaks the connection) first.
LiveCopyArrives ==
  \A s \in Streams : \A c \in Calls :
    (<<c, 1>> \in SeqRange(channel[s]))
      ~> (<<c, 1>> \in SeqRange(received[s]) \/ peer[s] = "gone")

\* The parts of the inductive invariant that the theorems rest on.
InLoop(c) == callPc[c] \in {"lock", "lookup", "send", "push"}

CallShape ==
  \A c \in Calls :
    /\ callPc[c] = "idle" => idx[c] = 1 /\ receivers[c] = <<>>
    /\ InLoop(c) => idx[c] <= Len(receivers[c])
    /\ callPc[c] \in {"create", "ok"} => idx[c] = Len(receivers[c]) + 1
    /\ callPc[c] = "send" => target[c] \in Streams /\ owner[target[c]] = Receiver(c)

StreamShape ==
  \A s \in Streams :
    /\ streamPc[s] = "idle" => owner[s] = None
    /\ streamPc[s] \notin {"idle", "done"} => owner[s] \in Users
    /\ drainPc[s] # "idle" => HasRegistered(s) /\ owner[s] \in Users

\* Nobody writes the key with the trailing colon: the drain goroutine of a
\* stream has nothing to forward.
DrainFindsNothing ==
  /\ \A u \in Users : redis[DrainKey(u)] = <<>>
  /\ \A s \in Streams : drainBuf[s] = <<>>

\* A copy is placed only once the loop is past it, and addressed as placed.
PlacedFor(k, u) == k[2] < idx[k[1]] /\ k[2] <= Len(receivers[k[1]]) /\ ReceiverOf(k) = u

CopiesOf(s) == SeqRange(received[s]) \cup SeqRange(wire[s])
               \cup SeqRange(hand[s]) \cup SeqRange(channel[s])

CopiesPlaced ==
  /\ \A s \in Streams : \A k \in CopiesOf(s) : PlacedFor(k, owner[s])
  /\ \A u \in Users : \A k \in SeqRange(redis[OfflineKey(u)]) : PlacedFor(k, u)

RowsOfFinished ==
  \A k \in messages : Returned(k[1]) /\ idx[k[1]] = Len(receivers[k[1]]) + 1

IInv == /\ TypeOK /\ CallShape /\ StreamShape /\ OnlyHolderInLock
        /\ RegistryPointsToOpenStream /\ SoleStreamIsStored
        /\ DrainFindsNothing /\ CopiesPlaced /\ RowsOfFinished /\ AckedMeansStored

\* What the service shows of itself: the lists, the answers, the copies by where
\* they are, the rows.
OnStreams == UNION {SeqRange(wire[s]) \cup SeqRange(hand[s]) \cup SeqRange(channel[s]) :
                      s \in Streams}
InLists == UNION {SeqRange(redis[k]) : k \in Keys}
AtClients == UNION {SeqRange(received[s]) : s \in Streams}
AnswerOf(c) == IF Returned(c) THEN callPc[c] ELSE "none"

Promise == INSTANCE Delivery WITH
  asked <- receivers, answer <- [c \in Calls |-> AnswerOf(c)],
  inFlight <- OnStreams, queued <- InLists, arrived <- AtClients, dropped <- lost,
  stored <- messages

\* The service keeps what Delivery says: whatever the mutex, the channels and the
\* goroutines do, a copy is handed over once and in turn, moves only from a
\* stream to its client or into nothing, never out of an offline list, and the
\* answer comes after all of them.
KeepsItsPromise == Promise!Spec

\* What else is needed to follow every single copy.  A call at work has receivers,
\* what it found finished has returned, and a stream holds a message exactly while
\* it sends it.
AtWork == /\ \A c \in Calls : callPc[c] \notin {"idle", "failed"} => receivers[c] # <<>>
          /\ \A c \in Calls : \A d \in finishedBefore[c] : Returned(d)
          /\ \A s \in Streams : IF streamPc[s] = "send" THEN Len(hand[s]) = 1
                                                       ELSE hand[s] = <<>>

\* No copy twice in a sequence, and none behind one that it precedes.
MayFollow(k, l) == k # l /\ ~Precedes(l, k)
InTurn(q) == \A m, n \in 1 .. Len(q) : m < n => MayFollow(q[m], q[n])
EachInTurn == /\ \A s \in Streams : InTurn(Pipeline(s))
              /\ \A u \in Users : InTurn(redis[OfflineKey(u)])

\* Where a copy may be.
Held == (UNION {CopiesOf(s) : s \in Streams}) \cup InLists \cup lost

\* No copy in two places; one is somewhere if and only if the loop is past it.
OnePlace ==
  /\ \A s, t \in Streams : s # t => CopiesOf(s) \cap CopiesOf(t) = {}
  /\ \A s \in Streams : CopiesOf(s) \cap (InLists \cup lost) = {}
  /\ InLists \cap lost = {}
  /\ \A k \in lost : k[2] < idx[k[1]]
  /\ \A c \in Calls : \A i \in 1 .. Len(receivers[c]) :
       i < idx[c] => <<c, i>> \in Held

\* A copy is dropped for two reasons only: Redis did not take it, or a client of
\* its receiver has gone (a restart, too, breaks the connections).
Excused(k, u) ==
  k \in pushFailed \/ \E s \in Streams : owner[s] = u /\ peer[s] = "gone"
LossHasACause ==
  /\ \A k \in lost : \E u \in Users : PlacedFor(k, u) /\ Excused(k, u)
  /\ \A s \in Streams : peer[s] = "absent" => owner[s] = None

CopyInv == IInv /\ AtWork /\ EachInTurn /\ OnePlace /\ LossHasACause

\* "Sent Messages Successfully" means that every receiver's row is stored and that
\* every receiver's copy is queued, on its way or received.  Two failures are not
\* told to the caller: an RPush that fails, which is logged, and a client that goes
\* before it has received what is on its way.
AckedMeansServed ==
  \A c \in Calls : callPc[c] = "ok" =>
    /\ Rows(c) \subseteq messages
    /\ \A i \in 1 .. Len(receivers[c]) :
         <<c, i>> \in OnStreams \cup InLists \cup AtClients \/ Excused(<<c, i>>, receivers[c][i])

\* The comment on Clients: it "stores the channel for streaming messages" of a
\* user.  A user's only stream that has not returned would be in it.
OnlyOpenStreamIsStored ==
  \A s \in Streams :
    /\ Serving(s)
    /\ \A t \in Streams \ {s} : owner[t] = owner[s] => streamPc[t] = "done"
    => Clients[owner[s]] = s

=============================================================================
