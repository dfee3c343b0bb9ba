----------------------------- MODULE WsGateway -----------------------------
(***************************************************************************)
(* The websocket endpoint of the gateway (api-gateway/websocket/           *)
(* websocket.go).  WsHandler marks the user online, hands the messages     *)
(* that were queued offline to the client, starts a goroutine that copies  *)
(* the chat service's stream to the socket, and forwards what the client   *)
(* sends, receiver by receiver; on its way out it cancels the stream,      *)
(* marks the user offline and closes the socket.                           *)
(*                                                                         *)
(* A connection is two processes, its handler and its goroutine.  A step   *)
(* is one call to Postgres, Redis or the chat service, or one write to the *)
(* socket.  The chat service and the clients are external: a message for a *)
(* user is queued offline or put on a stream, at any time.                 *)
(***************************************************************************)
EXTENDS Naturals, Sequences, FiniteSets

CONSTANTS
  Users,
  Conns,         \* websocket connections
  MaxMessages,   \* bound: how many messages the chat service has for the users
  MaxReceivers,  \* bound: how many receivers a frame names
  MaxCrashes,    \* bound: how often the gateway dies and is restarted
  None           \* no user

ASSUME GatewayAssumption ==
  /\ MaxMessages \in Nat /\ MaxReceivers \in Nat /\ MaxCrashes \in Nat
  /\ None \notin Users

VARIABLES
  isOnline,                    \* column is_online of the users table
  list,                        \* Redis: user:%d:offline_messages
  pc, userID, offlineMessages, \* locals of the handler
  left,                        \* receivers of the frame still to be served
  goPc, resp,                  \* the goroutine, and what it has received
  cancelled,                   \* is the context of the stream cancelled?
  stream,                      \* messages on the stream, not yet received
  peer, written,               \* the client: its state, what reached it
  nextMsg, to,                 \* messages are numbered; to whom each goes
  atRisk,         \* history: queued between an LRANGE and its DEL, or taken to
                  \* a socket or a stream that has no reader any more
  presenceFault,  \* history: users for whom an update of is_online failed
  drainFault,     \* history: users whose list was drained twice at a time, or
                  \* for whom a DEL failed
  doneBefore,     \* history: connections that were over when one began
  crashes

handlerVars == <<pc, userID, offlineMessages, left, doneBefore>>
goVars   == <<goPc, resp, cancelled, stream>>
chatVars == <<nextMsg, to>>
historyVars == <<atRisk, presenceFault, drainFault>>
vars == <<isOnline, list, handlerVars, goVars, peer, written, chatVars, historyVars, crashes>>

Messages == 1 .. MaxMessages
SeqRange(q) == {q[n] : n \in 1 .. Len(q)}

Init ==
  /\ isOnline \in [Users -> BOOLEAN]      \* a new row is online by default
  /\ list = [u \in Users |-> <<>>]
  /\ pc = [h \in Conns |-> "idle"]
  /\ userID = [h \in Conns |-> None]
  /\ offlineMessages = [h \in Conns |-> <<>>]
  /\ left = [h \in Conns |-> 0]
  /\ goPc = [h \in Conns |-> "none"]
  /\ resp = [h \in Conns |-> <<>>]
  /\ cancelled = [h \in Conns |-> FALSE]
  /\ stream = [h \in Conns |-> <<>>]
  /\ peer = [h \in Conns |-> "up"]
  /\ written = [h \in Conns |-> <<>>]
  /\ nextMsg = 1
  /\ to = [m \in Messages |-> None]
  /\ atRisk = {}
  /\ presenceFault = {}
  /\ drainFault = {}
  /\ doneBefore = [h \in Conns |-> {}]
  /\ crashes = 0

Goto(h, label) == pc' = [pc EXCEPT ![h] = label]

\* The handlers of user u that are between their LRANGE and their DEL.
Draining(u) == {h \in Conns : userID[h] = u /\ pc[h] \in {"write offline", "delete list"}}

-----------------------------------------------------------------------------
(* WsHandler, up to the goroutine                                          *)

\* The upgrade succeeds and the token names the user.
Connect(h) ==
  /\ pc[h] = "idle"
  /\ \E u \in Users : userID' = [userID EXCEPT ![h] = u]
  /\ doneBefore' = [doneBefore EXCEPT ![h] = {g \in Conns : pc[g] = "done"}]
  /\ Goto(h, "set online")
  /\ UNCHANGED <<isOnline, list, offlineMessages, left, goVars, peer, written,
                 chatVars, historyVars, crashes>>

SetOnlineFalse(h) ==          \* mutant: the wrong flag
  /\ pc[h] = "set online"
  /\ isOnline' = [isOnline EXCEPT ![userID[h]] = FALSE]
  /\ Goto(h, "read list")
  /\ UNCHANGED <<list, userID, offlineMessages, left, doneBefore, goVars, peer, written,
                 chatVars, historyVars, crashes>>

\* An update that reports an error may have been applied: the handler leaves
\* before it has deferred the way back.
SetOnline(h) ==
  /\ pc[h] = "set online"
  /\ \/ /\ isOnline' = [isOnline EXCEPT ![userID[h]] = TRUE]
        /\ Goto(h, "read list")
        /\ UNCHANGED presenceFault
     \/ /\ isOnline' \in {isOnline, [isOnline EXCEPT ![userID[h]] = TRUE]}
        /\ Goto(h, "close")
        /\ presenceFault' = presenceFault \cup {userID[h]}
  /\ UNCHANGED <<list, userID, offlineMessages, left, doneBefore, goVars, peer, written,
                 chatVars, atRisk, drainFault, crashes>>

ReadListDeletingAnyway(h) ==  \* mutant: the DEL is not in the else branch
  /\ pc[h] = "read list"
  /\ Goto(h, "delete list")
  /\ UNCHANGED <<isOnline, list, userID, offlineMessages, left, doneBefore, goVars, peer,
                 written, chatVars, historyVars, crashes>>

\* LRANGE.  Without an answer there is neither a write nor a DEL.
ReadList(h) ==
  /\ pc[h] = "read list"
  /\ \/ /\ offlineMessages' = [offlineMessages EXCEPT ![h] = list[userID[h]]]
        /\ Goto(h, IF list[userID[h]] = <<>> THEN "delete list" ELSE "write offline")
        /\ drainFault' = IF Draining(userID[h]) = {} THEN drainFault
                         ELSE drainFault \cup {userID[h]}
     \/ /\ Goto(h, "start")
        /\ UNCHANGED <<offlineMessages, drainFault>>
  /\ UNCHANGED <<isOnline, list, userID, left, doneBefore, goVars, peer, written,
                 chatVars, atRisk, presenceFault, crashes>>

WriteOfflineLastFirst(h) ==   \* mutant: the list is handed out from its end
  /\ pc[h] = "write offline"
  /\ LET m == offlineMessages[h][Len(offlineMessages[h])] IN
       written' = [written EXCEPT ![h] = Append(@, m)]
  /\ offlineMessages' = [offlineMessages EXCEPT ![h] = SubSeq(@, 1, Len(@) - 1)]
  /\ Goto(h, IF Len(offlineMessages[h]) = 1 THEN "delete list" ELSE "write offline")
  /\ UNCHANGED <<isOnline, list, userID, left, doneBefore, goVars, peer, chatVars,
                 historyVars, crashes>>

WriteOfflineGivingUp(h) ==    \* mutant: break after a write that failed, and the DEL
  /\ pc[h] = "write offline"
  /\ IF peer[h] = "up"
     THEN /\ written' = [written EXCEPT ![h] = Append(@, Head(offlineMessages[h]))]
          /\ offlineMessages' = [offlineMessages EXCEPT ![h] = Tail(@)]
          /\ Goto(h, IF Len(offlineMessages[h]) = 1 THEN "delete list" ELSE "write offline")
          /\ UNCHANGED atRisk
     ELSE /\ atRisk' = atRisk \cup {Head(offlineMessages[h])}
          /\ offlineMessages' = [offlineMessages EXCEPT ![h] = <<>>]
          /\ Goto(h, "delete list")
          /\ UNCHANGED written
  /\ UNCHANGED <<isOnline, list, userID, left, doneBefore, goVars, peer, chatVars,
                 presenceFault, drainFault, crashes>>

\* A write that fails is logged, and the loop goes on.
WriteOffline(h) ==
  /\ pc[h] = "write offline"
  /\ LET m == Head(offlineMessages[h]) IN
       IF peer[h] = "up"
       THEN /\ written' = [written EXCEPT ![h] = Append(@, m)]
            /\ UNCHANGED atRisk
       ELSE /\ atRisk' = atRisk \cup {m}
            /\ UNCHANGED written
  /\ offlineMessages' = [offlineMessages EXCEPT ![h] = Tail(@)]
  /\ Goto(h, IF Len(offlineMessages[h]) = 1 THEN "delete list" ELSE "write offline")
  /\ UNCHANGED <<isOnline, list, userID, left, doneBefore, goVars, peer, chatVars,
                 presenceFault, drainFault, crashes>>

DeleteListForgotten(h) ==     \* mutant: no DEL
  /\ pc[h] = "delete list"
  /\ Goto(h, "start")
  /\ UNCHANGED <<isOnline, list, userID, offlineMessages, left, doneBefore, goVars, peer,
                 written, chatVars, historyVars, crashes>>

DeleteList(h) ==
  /\ pc[h] = "delete list"
  /\ \/ /\ list' = [list EXCEPT ![userID[h]] = <<>>]
        /\ UNCHANGED drainFault
     \/ /\ list' \in {list, [list EXCEPT ![userID[h]] = <<>>]}
        /\ drainFault' = drainFault \cup {userID[h]}
  /\ Goto(h, "start")
  /\ UNCHANGED <<isOnline, userID, offlineMessages, left, doneBefore, goVars, peer, written,
                 chatVars, atRisk, presenceFault, crashes>>

\* The go statement.
Start(h) ==
  /\ pc[h] = "start"
  /\ goPc' = [goPc EXCEPT ![h] = "connect"]
  /\ Goto(h, "loop")
  /\ UNCHANGED <<isOnline, list, userID, offlineMessages, left, doneBefore, resp, cancelled,
                 stream, peer, written, chatVars, historyVars, crashes>>

-----------------------------------------------------------------------------
(* WsHandler, the loop over the client's frames                            *)

\* A frame that names no receiver, or one that cannot be read as one, is
\* answered; others are forwarded.
ReadFrame(h) ==
  /\ pc[h] = "loop"
  /\ peer[h] = "up"
  /\ \E n \in 0 .. MaxReceivers :
       /\ left' = [left EXCEPT ![h] = n]
       /\ Goto(h, IF n = 0 THEN "reply" ELSE "forward")
  /\ UNCHANGED <<isOnline, list, userID, offlineMessages, doneBefore, goVars, peer, written,
                 chatVars, historyVars, crashes>>

\* ForwardToGrpc for one receiver; a failure is answered and the loop goes on.
Forward(h) ==
  /\ pc[h] = "forward"
  /\ left' = [left EXCEPT ![h] = @ - 1]
  /\ \/ Goto(h, IF left[h] = 1 THEN "loop" ELSE "forward")
     \/ Goto(h, "reply")
  /\ UNCHANGED <<isOnline, list, userID, offlineMessages, doneBefore, goVars, peer, written,
                 chatVars, historyVars, crashes>>

\* conn.WriteMessage of an error text: in state "reply" the handler is writing.
Reply(h) ==
  /\ pc[h] = "reply"
  /\ Goto(h, IF left[h] = 0 THEN "loop" ELSE "forward")
  /\ UNCHANGED <<isOnline, list, userID, offlineMessages, left, doneBefore, goVars,
                 peer, written, chatVars, historyVars, crashes>>

\* ReadJSON fails: the client is gone, or has sent no JSON.
ReadFails(h) ==
  /\ pc[h] = "loop"
  /\ cancelled' = [cancelled EXCEPT ![h] = TRUE]
  /\ Goto(h, "set offline")
  /\ UNCHANGED <<isOnline, list, userID, offlineMessages, left, doneBefore, goPc, resp, stream,
                 peer, written, chatVars, historyVars, crashes>>

SetOfflineSkipped(h) ==       \* mutant: Updates of a struct, which skips a false
  /\ pc[h] = "set offline"
  /\ Goto(h, "close")
  /\ UNCHANGED <<isOnline, list, userID, offlineMessages, left, doneBefore, goVars, peer,
                 written, chatVars, historyVars, crashes>>

\* The deferred calls: cancel, the update of is_online, conn.Close.
SetOffline(h) ==
  /\ pc[h] = "set offline"
  /\ \/ /\ isOnline' = [isOnline EXCEPT ![userID[h]] = FALSE]
        /\ UNCHANGED presenceFault
     \/ /\ isOnline' \in {isOnline, [isOnline EXCEPT ![userID[h]] = FALSE]}
        /\ presenceFault' = presenceFault \cup {userID[h]}
  /\ Goto(h, "close")
  /\ UNCHANGED <<list, userID, offlineMessages, left, doneBefore, goVars, peer, written,
                 chatVars, atRisk, drainFault, crashes>>

Close(h) ==
  /\ pc[h] = "close"
  /\ peer' = [peer EXCEPT ![h] = "gone"]
  /\ Goto(h, "done")
  /\ UNCHANGED <<isOnline, list, userID, offlineMessages, left, doneBefore, goVars, written,
                 chatVars, historyVars, crashes>>

-----------------------------------------------------------------------------
(* The goroutine                                                           *)

\* Two goroutines inside a write of one connection: gorilla/websocket may
\* panic in either, or mix up what they write.
Colliding(h) == goPc[h] = "write" /\ pc[h] = "reply"

GoConnect(h) ==
  /\ goPc[h] = "connect"
  /\ \/ goPc' = [goPc EXCEPT ![h] = "recv"]
     \/ goPc' = [goPc EXCEPT ![h] = "done"]      \* without a cancel
  /\ UNCHANGED <<isOnline, list, handlerVars, resp, cancelled, stream, peer, written,
                 chatVars, historyVars, crashes>>

GoRecv(h) ==
  /\ goPc[h] = "recv"
  /\ stream[h] # <<>>
  /\ resp' = [resp EXCEPT ![h] = <<Head(stream[h])>>]
  /\ stream' = [stream EXCEPT ![h] = Tail(@)]
  /\ goPc' = [goPc EXCEPT ![h] = "write"]
  /\ UNCHANGED <<isOnline, list, handlerVars, cancelled, peer, written, chatVars,
                 historyVars, crashes>>

\* The goroutine ends and takes what is on the stream with it.
GoEnds(h) ==
  /\ cancelled' = [cancelled EXCEPT ![h] = TRUE]
  /\ goPc' = [goPc EXCEPT ![h] = "done"]
  /\ stream' = [stream EXCEPT ![h] = <<>>]

GoRecvRetries(h) ==           \* mutant: Recv is called again after an error
  /\ goPc[h] = "recv"
  /\ cancelled' = [cancelled EXCEPT ![h] = TRUE]
  /\ UNCHANGED <<isOnline, list, handlerVars, goPc, resp, stream, peer, written, chatVars,
                 historyVars, crashes>>

\* Recv fails: the context is cancelled, or the chat service has gone away.
GoRecvFails(h) ==
  /\ goPc[h] = "recv"
  /\ GoEnds(h)
  /\ atRisk' = atRisk \cup SeqRange(stream[h])
  /\ UNCHANGED <<isOnline, list, handlerVars, resp, peer, written, chatVars,
                 presenceFault, drainFault, crashes>>

\* WriteJSON.  To a client that is gone it may still seem to succeed.
GoWrite(h) ==
  /\ goPc[h] = "write"
  /\ resp' = [resp EXCEPT ![h] = <<>>]
  /\ \/ /\ peer[h] = "up"
        /\ written' = [written EXCEPT ![h] = Append(@, Head(resp[h]))]
        /\ goPc' = [goPc EXCEPT ![h] = "recv"]
        /\ UNCHANGED <<cancelled, stream, atRisk>>
     \/ /\ peer[h] = "gone" \/ Colliding(h)
        /\ atRisk' = atRisk \cup SeqRange(resp[h])
        /\ goPc' = [goPc EXCEPT ![h] = "recv"]
        /\ UNCHANGED <<cancelled, stream, written>>
     \/ /\ peer[h] = "gone"
        /\ GoEnds(h)
        /\ atRisk' = atRisk \cup SeqRange(resp[h]) \cup SeqRange(stream[h])
        /\ UNCHANGED written
  /\ UNCHANGED <<isOnline, list, handlerVars, peer, chatVars, presenceFault, drainFault,
                 crashes>>

\* gin recovers the panic of a handler; its deferred calls run.
HandlerPanics(h) ==
  /\ Colliding(h)
  /\ cancelled' = [cancelled EXCEPT ![h] = TRUE]
  /\ Goto(h, "set offline")
  /\ UNCHANGED <<isOnline, list, userID, offlineMessages, left, doneBefore, goPc, resp, stream,
                 peer, written, chatVars, historyVars, crashes>>

\* The process dies, for whatever reason: a panic in the goroutine is one.
Started(h) == pc[h] \notin {"idle", "done"}
Crash ==
  /\ crashes < MaxCrashes
  /\ crashes' = crashes + 1
  /\ pc' = [h \in Conns |-> IF Started(h) THEN "done" ELSE pc[h]]
  /\ peer' = [h \in Conns |-> IF Started(h) THEN "gone" ELSE peer[h]]
  /\ goPc' = [h \in Conns |-> IF goPc[h] = "none" THEN "none" ELSE "done"]
  /\ cancelled' = [h \in Conns |-> goPc[h] # "none"]
  /\ atRisk' = atRisk \cup UNION {SeqRange(stream[h]) \cup SeqRange(resp[h]) : h \in Conns}
  /\ stream' = [h \in Conns |-> <<>>]
  /\ resp' = [h \in Conns |-> <<>>]
  /\ presenceFault' = presenceFault \cup {userID[h] : h \in {g \in Conns : Started(g)}}
  /\ drainFault' = drainFault \cup {u \in Users : Draining(u) # {}}
  /\ UNCHANGED <<isOnline, list, userID, offlineMessages, left, doneBefore, written, chatVars>>

-----------------------------------------------------------------------------
(* The chat service and the clients                                        *)

NewMessage(u) ==
  /\ nextMsg \in Messages
  /\ nextMsg' = nextMsg + 1
  /\ to' = [to EXCEPT ![nextMsg] = u]

\* SendMessage found no stream of u.
QueueOffline(u) ==
  /\ NewMessage(u)
  /\ list' = [list EXCEPT ![u] = Append(@, nextMsg)]
  /\ atRisk' = IF Draining(u) = {} THEN atRisk ELSE atRisk \cup {nextMsg}
  /\ UNCHANGED <<isOnline, handlerVars, goVars, peer, written, presenceFault, drainFault,
                 crashes>>

\* The chat service's stream of connection h carries the message.
SendOnStream(h) ==
  /\ goPc[h] \in {"recv", "write"}
  /\ ~cancelled[h]
  /\ NewMessage(userID[h])
  /\ stream' = [stream EXCEPT ![h] = Append(@, nextMsg)]
  /\ UNCHANGED <<isOnline, list, handlerVars, goPc, resp, cancelled, peer, written,
                 historyVars, crashes>>

ClientGone(h) ==
  /\ Started(h)
  /\ peer[h] = "up"
  /\ peer' = [peer EXCEPT ![h] = "gone"]
  /\ UNCHANGED <<isOnline, list, handlerVars, goVars, written, chatVars, historyVars, crashes>>

HandlerStep(h) ==
  \/ Connect(h) \/ SetOnline(h) \/ ReadList(h) \/ WriteOffline(h) \/ DeleteList(h) \/ Start(h)
  \/ ReadFrame(h) \/ Forward(h) \/ Reply(h) \/ ReadFails(h) \/ SetOffline(h) \/ Close(h)
GoStep(h) == GoConnect(h) \/ GoRecv(h) \/ GoRecvFails(h) \/ GoWrite(h)

Next ==
  \/ \E h \in Conns : HandlerStep(h) \/ GoStep(h) \/ HandlerPanics(h)
  \/ \E h \in Conns : SendOnStream(h) \/ ClientGone(h)
  \/ \E u \in Users : QueueOffline(u)
  \/ Crash

Spec == Init /\ [][Next]_vars

\* The handler gets on by itself except where it waits for a frame or for the
\* chat service's answer to SendMessage, for which no deadline is set.
HandlerProgress(h) ==
  \/ SetOnline(h) \/ ReadList(h) \/ WriteOffline(h) \/ DeleteList(h) \/ Start(h) \/ Reply(h)
  \/ peer[h] = "gone" /\ ReadFails(h)
  \/ SetOffline(h) \/ Close(h)
GoProgress(h) ==
  \/ GoConnect(h) \/ GoRecv(h) \/ GoWrite(h)
  \/ cancelled[h] /\ GoRecvFails(h)
Fairness == \A h \in Conns : WF_vars(HandlerProgress(h)) /\ WF_vars(GoProgress(h))
FairSpec == Spec /\ Fairness

-----------------------------------------------------------------------------
(* Properties                                                              *)

\* Every variable has its type.
TypeOK ==
  /\ isOnline \in [Users -> BOOLEAN]
  /\ list \in [Users -> Seq(Messages)]
  /\ pc \in [Conns -> {"idle", "set online", "read list", "write offline", "delete list",
                       "start", "loop", "forward", "reply", "set offline", "close", "done"}]
  /\ userID \in [Conns -> Users \cup {None}]
  /\ offlineMessages \in [Conns -> Seq(Messages)]
  /\ left \in [Conns -> 0 .. MaxReceivers]
  /\ goPc \in [Conns -> {"none", "connect", "recv", "write", "done"}]
  /\ resp \in [Conns -> Seq(Messages)]
  /\ cancelled \in [Conns -> BOOLEAN]
  /\ stream \in [Conns -> Seq(Messages)]
  /\ peer \in [Conns -> {"up", "gone"}]
  /\ written \in [Conns -> Seq(Messages)]
  /\ nextMsg \in 1 .. MaxMessages + 1
  /\ to \in [Messages -> Users \cup {None}]
  /\ atRisk \subseteq Messages
  /\ presenceFault \subseteq Users
  /\ drainFault \subseteq Users
  /\ doneBefore \in [Conns -> SUBSET Conns]
  /\ crashes \in 0 .. MaxCrashes

\* No message disappears: it waits in the offline list, is on the way through a
\* connection of its user or has reached one, unless it was queued between an
\* LRANGE and its DEL, or taken to a client or a stream that was gone.
MessageAccounting ==
  \A m \in 1 .. nextMsg - 1 :
    \/ m \in atRisk
    \/ m \in SeqRange(list[to[m]])
    \/ \E h \in Conns : /\ userID[h] = to[m]
                        /\ m \in SeqRange(stream[h]) \cup SeqRange(resp[h]) \cup SeqRange(written[h])

\* What reaches a client on one connection comes in the order in which the chat
\* service had it, queued messages and live ones alike.
ConnectionInOrder ==
  \A h \in Conns : \A i, j \in 1 .. Len(written[h]) : i < j => written[h][i] < written[h][j]

\* A message reaches its user on two connections only if their handlers drained
\* the list at the same time, a DEL failed, or the gateway died before the DEL.
WrittenOnce ==
  \A g, h \in Conns :
    g # h => \A m \in SeqRange(written[g]) \cap SeqRange(written[h]) : to[m] \in drainFault

\* When all connections of a user are over the user is offline, in whatever
\* order they came and went, if no update of is_online failed.
PresenceSettles ==
  \A u \in Users :
    LET mine == {h \in Conns : userID[h] = u} IN
      /\ u \notin presenceFault
      /\ mine # {}
      /\ \A h \in mine : pc[h] = "done"
      => ~isOnline[u]

\* From the update that marks the user online up to the one that takes it back.
Serving == {"read list", "write offline", "delete list", "start", "loop", "forward",
            "reply", "set offline"}

\* A user whose only connection is being served is online.
SolePresence ==
  \A h \in Conns :
    /\ pc[h] \in Serving
    /\ userID[h] \notin presenceFault
    /\ \A g \in Conns \ {h} : userID[g] = userID[h] => g \in doneBefore[h]
    => isOnline[userID[h]]

\* After a client has gone its handler and its goroutine end, unless the handler
\* waits for the chat service's answer for ever.
CleanedUp ==
  \A h \in Conns :
    (peer[h] = "gone")
      ~> ((pc[h] = "done" /\ goPc[h] \in {"none", "done"}) \/ [](pc[h] = "forward"))

(* What makes these inductive.                                             *)

BeforeGo == {"set online", "read list", "write offline", "delete list", "start"}

\* What a handler and its goroutine know at each of their steps.
ConnShape(h) ==
  /\ pc[h] = "idle" => userID[h] = None
  /\ pc[h] # "idle" => userID[h] \in Users
  /\ pc[h] \in {"idle"} \cup BeforeGo => goPc[h] = "none"
  /\ pc[h] \in {"idle", "set online", "read list"} => written[h] = <<>>
  /\ pc[h] = "write offline" => offlineMessages[h] # <<>>
  /\ pc[h] = "delete list" => offlineMessages[h] = <<>>
  /\ pc[h] = "forward" => left[h] > 0
  /\ goPc[h] = "none" => stream[h] = <<>>
  /\ IF goPc[h] = "write" THEN Len(resp[h]) = 1 ELSE resp[h] = <<>>
  /\ doneBefore[h] \subseteq {g \in Conns : pc[g] = "done"}

\* The messages that a connection has taken over, from the list or the stream.
FromList(h) == IF pc[h] = "write offline" THEN SeqRange(offlineMessages[h]) ELSE {}
Passed(h) ==
  SeqRange(written[h]) \cup SeqRange(resp[h]) \cup SeqRange(stream[h]) \cup FromList(h)

\* Lists and connections hold messages of their own user.
MessagesKnown ==
  /\ \A m \in Messages : m < nextMsg => to[m] \in Users
  /\ \A u \in Users : \A m \in SeqRange(list[u]) : m < nextMsg /\ to[m] = u
  /\ \A h \in Conns : \A m \in Passed(h) : m < nextMsg /\ to[m] = userID[h]

\* What a DEL will take away has been read, unless it came after the LRANGE.
DrainsAll ==
  \A h \in Conns : pc[h] \in {"write offline", "delete list"} =>
    \A m \in SeqRange(list[userID[h]]) :
      m \in atRisk \/ m \in SeqRange(offlineMessages[h]) \/ m \in SeqRange(written[h])

Increasing(q) == \A i, j \in 1 .. Len(q) : i < j => q[i] < q[j]
Below(S, T) == \A m \in S, n \in T : m < n

\* Each list, and each connection from its stream to its client, is in order.
WayInOrder(h) ==
  /\ Increasing(written[h]) /\ Increasing(stream[h])
  /\ Below(SeqRange(written[h]), SeqRange(resp[h]) \cup SeqRange(stream[h]))
  /\ Below(SeqRange(resp[h]), SeqRange(stream[h]))
  /\ pc[h] = "write offline" =>
       /\ Increasing(offlineMessages[h])
       /\ Below(SeqRange(written[h]), SeqRange(offlineMessages[h]))
AllInOrder == /\ \A u \in Users : Increasing(list[u])
              /\ \A h \in Conns : WayInOrder(h)

\* A message that a connection has taken over is on no other connection, and in
\* the list only while that connection drains it.
PassedOnce ==
  /\ \A g, h \in Conns : g # h => \A m \in Passed(g) \cap Passed(h) : to[m] \in drainFault
  /\ \A u \in Users, h \in Conns :
       \A m \in SeqRange(list[u]) \cap Passed(h) : u \in drainFault \/ h \in Draining(u)

\* A user is online because of a connection that is served, or from before.
OnlineFor ==
  \A u \in Users : u \notin presenceFault /\ isOnline[u] =>
    \/ \E h \in Conns : userID[h] = u /\ pc[h] \in Serving
    \/ \A h \in Conns : userID[h] = u => pc[h] = "set online"

\* The inductive invariant: it follows every message from the list or the stream
\* to the socket, and every update of is_online to the one that takes it back.
WsInv == /\ TypeOK /\ (\A h \in Conns : ConnShape(h)) /\ MessagesKnown /\ DrainsAll
         /\ MessageAccounting /\ AllInOrder /\ PassedOnce /\ OnlineFor /\ SolePresence

=============================================================================
