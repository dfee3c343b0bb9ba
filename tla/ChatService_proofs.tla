------------------------- MODULE ChatService_proofs -------------------------
(* Theorems about ChatService for every value of its constants.            *)
EXTENDS ChatService, TLAPS

\* The assumption, in the form the provers use it.
LEMMA Constants ==
  /\ None \notin Users /\ None \notin Calls /\ None \notin Streams
  /\ Calls \cap Streams = {}
  /\ ReceiverLists \subseteq Seq(Users)
  /\ Capacity \in Nat \ {0} /\ Window \in Nat \ {0} /\ MaxCrashes \in Nat
BY ChatAssumption

\* The two keys of a user differ, and so do those of two users.
LEMMA KeyFacts ==
  ASSUME NEW u \in Users
  PROVE  /\ OfflineKey(u) \in Keys /\ DrainKey(u) \in Keys
         /\ \A v \in Users : /\ OfflineKey(u) # DrainKey(v)
                             /\ OfflineKey(u) = OfflineKey(v) => u = v
                             /\ DrainKey(u) = DrainKey(v) => u = v
BY DEF OfflineKey, DrainKey, Keys

\* In the loop there is a receiver at hand, and its copy is one of Copies.
LEMMA ReceiverFacts ==
  ASSUME TypeOK, CallShape, NEW c \in Calls, InLoop(c)
  PROVE  Receiver(c) \in Users /\ Copy(c) \in Copies
BY DEF TypeOK, CallShape, InLoop, Receiver, Copy, Copies

-----------------------------------------------------------------------------
(* Type correctness: a step keeps the types because a call in its loop has  *)
(* a receiver and because a goroutine of a stream knows its owner.          *)

LEMMA TypeInit == Init => TypeOK
BY Constants DEF Init, TypeOK, CallPcs, StreamPcs, Copies

LEMMA TypeStep ==
  ASSUME TypeOK, CallShape, StreamShape, [Next]_vars
  PROVE  TypeOK'
<1> USE Constants DEF TypeOK, CallPcs, StreamPcs, callVars, streamVars, drainVars,
                      lockVars, storeVars, peerVars
<1>1. ASSUME NEW c \in Calls, SendMessage(c) PROVE TypeOK'
  BY <1>1 DEF SendMessage
<1>2. ASSUME NEW c \in Calls, RejectSend(c) PROVE TypeOK'
  BY <1>2 DEF RejectSend
<1>3. ASSUME NEW c \in Calls, LockForLookup(c) PROVE TypeOK'
  BY <1>3 DEF LockForLookup
<1>4. ASSUME NEW c \in Calls, Lookup(c) PROVE TypeOK'
  <2>1. Receiver(c) \in Users
    BY <1>4, ReceiverFacts DEF Lookup, InLoop
  <2> QED
    BY <1>4, <2>1 DEF Lookup
<1>5. ASSUME NEW c \in Calls, SendToChannel(c) PROVE TypeOK'
  <2>1. Copy(c) \in Copies /\ target[c] \in Streams
    BY <1>5, ReceiverFacts DEF SendToChannel, InLoop, CallShape
  <2>2. channel' \in [Streams -> Seq(Copies)]
    BY <1>5, <2>1 DEF SendToChannel
  <2>3. \A s \in Streams : Len(channel'[s]) <= Capacity
    BY <1>5, <2>1 DEF SendToChannel, Full
  <2>4. callPc' \in [Calls -> CallPcs] /\ idx' \in [Calls -> Nat \ {0}]
    BY <1>5 DEF SendToChannel, NextReceiver
  <2>5. UNCHANGED <<receivers, target, finishedBefore, streamPc, owner, hand,
                    drainVars, lockVars, storeVars, peerVars, crashes>>
    BY <1>5 DEF SendToChannel
  <2> QED
    BY <2>2, <2>3, <2>4, <2>5
<1>6. ASSUME NEW c \in Calls, PushOffline(c) PROVE TypeOK'
  <2>1. Copy(c) \in Copies /\ OfflineKey(Receiver(c)) \in Keys
    BY <1>6, ReceiverFacts, KeyFacts DEF PushOffline, InLoop
  <2>2. redis' \in [Keys -> Seq(Copies)]
    <3>1. CASE UNCHANGED redis
      BY <3>1
    <3>2. CASE redis' = [redis EXCEPT ![OfflineKey(Receiver(c))] = RPush(@, Copy(c))]
      BY <3>2, <2>1 DEF RPush
    <3> QED
      BY <1>6, <3>1, <3>2 DEF PushOffline
  <2> QED
    BY <1>6, <2>1, <2>2 DEF PushOffline, NextReceiver
<1>7. ASSUME NEW c \in Calls, CreateMessages(c) PROVE TypeOK'
  <2>1. Rows(c) \subseteq Copies
    BY DEF Rows, Copies
  <2>2. messages' \in SUBSET Copies
    BY <1>7, <2>1 DEF CreateMessages
  <2>3. callPc' \in [Calls -> CallPcs]
    <3>1. \E r \in {"ok", "failed"} : callPc' = [callPc EXCEPT ![c] = r]
      BY ONLY <1>7 DEF CreateMessages
    <3> QED
      BY ONLY <3>1, callPc \in [Calls -> CallPcs], c \in Calls DEF CallPcs
  <2>4. UNCHANGED <<receivers, idx, target, finishedBefore, redis, lost, pushFailed,
                    streamVars, drainVars, lockVars, peerVars, crashes>>
    BY <1>7 DEF CreateMessages
  <2> QED
    BY <2>2, <2>3, <2>4
<1>8. ASSUME NEW s \in Streams, StreamMessages(s) PROVE TypeOK'
  BY <1>8 DEF StreamMessages
<1>9. ASSUME NEW s \in Streams, RejectStream(s) PROVE TypeOK'
  BY <1>9 DEF RejectStream
<1>10. ASSUME NEW s \in Streams, LockToRegister(s) PROVE TypeOK'
  BY <1>10 DEF LockToRegister
<1>11. ASSUME NEW s \in Streams, Register(s) PROVE TypeOK'
  BY <1>11 DEF Register
<1>12. ASSUME NEW s \in Streams, TakeMessage(s) PROVE TypeOK'
  <2>1. channel[s] \in Seq(Copies) /\ channel[s] # <<>>
    BY <1>12 DEF TakeMessage
  <2>2. /\ channel' \in [Streams -> Seq(Copies)] /\ \A t \in Streams : Len(channel'[t]) <= Capacity
        /\ hand' \in [Streams -> Seq(Copies)] /\ \A t \in Streams : Len(hand'[t]) <= 1
    BY <1>12, <2>1, SMTT(30) DEF TakeMessage
  <2>3. streamPc' \in [Streams -> StreamPcs]
    BY <1>12 DEF TakeMessage
  <2>4. UNCHANGED <<owner, callVars, drainVars, lockVars, storeVars, peerVars, crashes>>
    BY <1>12 DEF TakeMessage
  <2> QED
    BY <2>2, <2>3, <2>4
<1>13. ASSUME NEW s \in Streams, StreamSend(s) PROVE TypeOK'
  <2>1. wire' \in [Streams -> Seq(Copies)]
    BY <1>13 DEF StreamSend
  <2>2. \A t \in Streams : Len(wire'[t]) <= Window
    BY <1>13 DEF StreamSend
  <2> QED
    BY <1>13, <2>1, <2>2 DEF StreamSend
<1>14. ASSUME NEW s \in Streams, StreamSendFails(s) PROVE TypeOK'
  <2>1. SeqRange(hand[s]) \subseteq Copies
    BY DEF SeqRange
  <2> QED
    BY <1>14, <2>1 DEF StreamSendFails
<1>15. ASSUME NEW s \in Streams, LockToUnregister(s) PROVE TypeOK'
  BY <1>15 DEF LockToUnregister
<1>16. ASSUME NEW s \in Streams, Unregister(s) PROVE TypeOK'
  BY <1>16 DEF Unregister, WithoutOwner
<1>17. ASSUME NEW s \in Streams, DrainRead(s) PROVE TypeOK'
  <2>1. redis[DrainKey(owner[s])] \in Seq(Copies)
    BY <1>17, KeyFacts DEF DrainRead, StreamShape
  <2> QED
    BY <1>17, <2>1 DEF DrainRead
<1>18. ASSUME NEW s \in Streams, DrainReadFails(s) PROVE TypeOK'
  BY <1>18 DEF DrainReadFails
<1>19. ASSUME NEW s \in Streams, drainBuf[s] # <<>>, DrainForward(s) PROVE TypeOK'
  <2>1. Head(drainBuf[s]) \in Copies /\ Tail(drainBuf[s]) \in Seq(Copies)
    BY <1>19
  <2>2. channel' \in [Streams -> Seq(Copies)]
    BY <1>19, <2>1 DEF DrainForward
  <2>3. \A t \in Streams : Len(channel'[t]) <= Capacity
    BY <1>19, <2>1 DEF DrainForward, Full
  <2> QED
    BY <1>19, <2>1, <2>2, <2>3 DEF DrainForward
<1>20. ASSUME NEW s \in Streams, DrainDelete(s) PROVE TypeOK'
  <2>1. redis' \in [Keys -> Seq(Copies)]
    <3>1. redis' = [redis EXCEPT ![DrainKey(owner[s])] = <<>>] /\ <<>> \in Seq(Copies)
      BY <1>20 DEF DrainDelete
    <3> QED
      BY <3>1
  <2>2. drainPc' \in [Streams -> {"idle", "read", "push", "done"}]
    BY <1>20 DEF DrainDelete
  <2>3. UNCHANGED <<drainBuf, messages, lost, pushFailed, callVars, streamVars, lockVars, peerVars, crashes>>
    BY <1>20 DEF DrainDelete
  <2> QED
    BY <2>1, <2>2, <2>3
<1>21. ASSUME NEW s \in Streams, ClientRecv(s) PROVE TypeOK'
  BY <1>21, SMTT(30) DEF ClientRecv
<1>22. ASSUME NEW s \in Streams, ClientGone(s) PROVE TypeOK'
  BY <1>22 DEF ClientGone
<1>23. ASSUME Crash PROVE TypeOK'
  <2>1. InMemory \subseteq Copies
    BY DEF InMemory, SeqRange
  <2> QED
    BY <1>23, <2>1 DEF Crash
<1>24. ASSUME UNCHANGED vars PROVE TypeOK'
  BY <1>24 DEF vars
<1> QED
  BY <1>1, <1>2, <1>3, <1>4, <1>5, <1>6, <1>7, <1>8, <1>9, <1>10, <1>11, <1>12,
     <1>13, <1>14, <1>15, <1>16, <1>17, <1>18, <1>19, <1>20, <1>21, <1>22, <1>23,
     <1>24 DEF Next, CallStep, StreamStep, DrainStep, DrainPush

-----------------------------------------------------------------------------
(* The control state: who is in the loop, which stream was found, what a    *)
(* stream and its drain goroutine know.                                     *)

\* What CallShape says of one call.
LEMMA CallShapeStep ==
  ASSUME TypeOK, CallShape, StreamShape, RegistryPointsToOpenStream, [Next]_vars
  PROVE  CallShape'
<1> USE Constants DEF TypeOK, CallPcs, StreamPcs, CallShape, InLoop, Receiver
<1>1. ASSUME NEW c \in Calls, SendMessage(c) PROVE CallShape'
  <2>1. PICK rs \in ReceiverLists : rs # <<>> /\ receivers' = [receivers EXCEPT ![c] = rs]
    BY <1>1 DEF SendMessage
  <2>2. Len(rs) >= 1
    BY <2>1
  <2> QED
    BY <1>1, <2>1, <2>2 DEF SendMessage, streamVars
<1>2. ASSUME NEW c \in Calls, RejectSend(c) PROVE CallShape'
  BY <1>2 DEF RejectSend, streamVars
<1>3. ASSUME NEW c \in Calls, LockForLookup(c) PROVE CallShape'
  BY <1>3 DEF LockForLookup, streamVars
<1>4. ASSUME NEW c \in Calls, Lookup(c) PROVE CallShape'
  <2>1. Receiver(c) \in Users
    BY <1>4, ReceiverFacts DEF Lookup
  <2> QED
    BY <1>4, <2>1 DEF Lookup, RegistryPointsToOpenStream, streamVars
<1>5. ASSUME NEW c \in Calls, SendToChannel(c) PROVE CallShape'
  BY <1>5, SMTT(30) DEF SendToChannel, NextReceiver
<1>6. ASSUME NEW c \in Calls, PushOffline(c) PROVE CallShape'
  BY <1>6 DEF PushOffline, NextReceiver, streamVars
<1>7. ASSUME NEW c \in Calls, CreateMessages(c) PROVE CallShape'
  BY <1>7 DEF CreateMessages, streamVars
<1>8. ASSUME NEW s \in Streams, StreamMessages(s) PROVE CallShape'
  <2>1. \A c \in Calls : callPc[c] = "send" => target[c] # s
    <3> SUFFICES ASSUME NEW c \in Calls, callPc[c] = "send" PROVE target[c] # s
      OBVIOUS
    <3>1. owner[target[c]] \in Users
      BY ReceiverFacts
    <3> QED
      BY <1>8, <3>1 DEF StreamMessages, StreamShape
  <2> QED
    BY <1>8, <2>1 DEF StreamMessages, callVars
<1>9. ASSUME Crash PROVE CallShape'
  BY <1>9 DEF Crash
<1>10. ASSUME UNCHANGED <<callVars, owner>> PROVE CallShape'
  BY <1>10 DEF callVars
<1>11. ASSUME NEW s \in Streams,
              \/ RejectStream(s) \/ StreamStep(s) \/ DrainStep(s)
              \/ ClientRecv(s) \/ ClientGone(s)
       PROVE  UNCHANGED <<callVars, owner>>
  BY <1>11 DEF RejectStream, StreamStep, DrainStep, ClientRecv, ClientGone, LockToRegister,
     Register, TakeMessage, StreamSend, StreamSendFails, LockToUnregister, Unregister,
     DrainRead, DrainReadFails, DrainPush, DrainForward, DrainDelete, streamVars, drainVars
<1>12. (UNCHANGED vars) => UNCHANGED <<callVars, owner>>
  BY DEF vars, streamVars
<1> QED
  BY <1>1, <1>2, <1>3, <1>4, <1>5, <1>6, <1>7, <1>8, <1>9, <1>10, <1>11, <1>12
     DEF Next, CallStep

LEMMA StreamShapeStep ==
  ASSUME TypeOK, StreamShape, [Next]_vars
  PROVE  StreamShape'
<1> USE Constants DEF TypeOK, StreamPcs, StreamShape, HasRegistered
<1>1. ASSUME NEW s \in Streams, StreamMessages(s) PROVE StreamShape'
  BY <1>1 DEF StreamMessages, drainVars
<1>2. ASSUME NEW s \in Streams, RejectStream(s) PROVE StreamShape'
  BY <1>2 DEF RejectStream, drainVars
<1>3. ASSUME NEW s \in Streams, Register(s) PROVE StreamShape'
  BY <1>3 DEF Register
<1>4. ASSUME NEW s \in Streams, StreamStep(s), ~Register(s) PROVE StreamShape'
  <2>1. UNCHANGED <<owner, drainPc>>
    BY <1>4 DEF StreamStep, LockToRegister, TakeMessage, StreamSend, StreamSendFails,
       LockToUnregister, Unregister, drainVars
  <2>2. /\ streamPc' = [streamPc EXCEPT ![s] = streamPc'[s]]
        /\ streamPc[s] # "idle" /\ streamPc'[s] # "idle"
        /\ streamPc[s] # "done"
        /\ HasRegistered(s) => HasRegistered(s)'
    BY <1>4 DEF StreamStep, LockToRegister, TakeMessage, StreamSend, StreamSendFails,
       LockToUnregister, Unregister
  <2> QED
    BY <2>1, <2>2
<1>5. ASSUME NEW s \in Streams, DrainStep(s) PROVE StreamShape'
  <2>1. UNCHANGED <<owner, streamPc>>
    BY <1>5 DEF DrainStep, DrainRead, DrainReadFails, DrainPush, DrainForward, DrainDelete, streamVars
  <2>2. drainPc[s] # "idle" /\ \A t \in Streams \ {s} : drainPc'[t] = drainPc[t]
    BY <1>5 DEF DrainStep, DrainRead, DrainReadFails, DrainPush, DrainForward, DrainDelete
  <2> QED
    BY <2>1, <2>2
<1>6. ASSUME Crash PROVE StreamShape'
  BY <1>6 DEF Crash
<1>7. ASSUME UNCHANGED <<streamPc, owner, drainPc>> PROVE StreamShape'
  BY <1>7
<1>8. ASSUME NEW c \in Calls, SendMessage(c) \/ RejectSend(c) \/ CallStep(c)
      PROVE  UNCHANGED <<streamPc, owner, drainPc>>
  BY <1>8 DEF SendMessage, RejectSend, CallStep, LockForLookup, Lookup, SendToChannel,
     PushOffline, CreateMessages, streamVars, drainVars
<1>9. ASSUME NEW s \in Streams, ClientRecv(s) \/ ClientGone(s)
      PROVE  UNCHANGED <<streamPc, owner, drainPc>>
  BY <1>9 DEF ClientRecv, ClientGone, streamVars, drainVars
<1>10. (UNCHANGED vars) => UNCHANGED <<streamPc, owner, drainPc>>
  BY DEF vars, streamVars, drainVars
<1> QED
  BY <1>1, <1>2, <1>3, <1>4, <1>5, <1>6, <1>7, <1>8, <1>9, <1>10 DEF Next

LEMMA LockStep ==
  ASSUME TypeOK, OnlyHolderInLock, [Next]_vars
  PROVE  OnlyHolderInLock'
<1> USE Constants DEF TypeOK, CallPcs, StreamPcs, OnlyHolderInLock, InLock
<1>1. ASSUME NEW c \in Calls, SendMessage(c) \/ RejectSend(c) PROVE OnlyHolderInLock'
  BY <1>1 DEF SendMessage, RejectSend, lockVars, streamVars
<1>2. ASSUME NEW c \in Calls, LockForLookup(c) PROVE OnlyHolderInLock'
  BY <1>2 DEF LockForLookup, streamVars
<1>3. ASSUME NEW c \in Calls, Lookup(c) PROVE OnlyHolderInLock'
  BY <1>3 DEF Lookup, streamVars
<1>4. ASSUME NEW c \in Calls, SendToChannel(c) \/ PushOffline(c) \/ CreateMessages(c)
      PROVE  OnlyHolderInLock'
  BY <1>4 DEF SendToChannel, PushOffline, CreateMessages, NextReceiver, lockVars, streamVars
<1>5. ASSUME NEW s \in Streams, StreamMessages(s) \/ RejectStream(s)
      PROVE  OnlyHolderInLock'
  BY <1>5 DEF StreamMessages, RejectStream, lockVars, callVars
<1>6. ASSUME NEW s \in Streams, LockToRegister(s) \/ LockToUnregister(s)
      PROVE  OnlyHolderInLock'
  BY <1>6 DEF LockToRegister, LockToUnregister, callVars
<1>7. ASSUME NEW s \in Streams, Register(s) \/ Unregister(s) PROVE OnlyHolderInLock'
  <2>1. CASE Register(s)
    BY <2>1 DEF Register, callVars
  <2>2. CASE Unregister(s)
    BY <2>2 DEF Unregister, callVars
  <2> QED
    BY <1>7, <2>1, <2>2
<1>8. ASSUME NEW s \in Streams, TakeMessage(s) \/ StreamSend(s) \/ StreamSendFails(s)
      PROVE  OnlyHolderInLock'
  BY <1>8, ZenonT(60) DEF TakeMessage, StreamSend, StreamSendFails, lockVars, callVars
<1>9. ASSUME Crash PROVE OnlyHolderInLock'
  BY <1>9 DEF Crash
<1>10. ASSUME UNCHANGED <<mutex, callPc, streamPc>> PROVE OnlyHolderInLock'
  BY <1>10
<1>11. ASSUME NEW s \in Streams, DrainStep(s) \/ ClientRecv(s) \/ ClientGone(s)
       PROVE  UNCHANGED <<mutex, callPc, streamPc>>
  BY <1>11 DEF DrainStep, DrainRead, DrainReadFails, DrainPush, DrainForward, DrainDelete,
     ClientRecv, ClientGone, lockVars, callVars, streamVars
<1>12. (UNCHANGED vars) => UNCHANGED <<mutex, callPc, streamPc>>
  BY DEF vars, lockVars, callVars, streamVars
<1> QED
  BY <1>1, <1>2, <1>3, <1>4, <1>5, <1>6, <1>7, <1>8, <1>9, <1>10, <1>11, <1>12
     DEF Next, CallStep, StreamStep

-----------------------------------------------------------------------------
(* The registry.  An entry is written by its owner's stream while it is     *)
(* about to serve, and deleted before that stream returns.                  *)

LEMMA RegistryStep ==
  ASSUME TypeOK, StreamShape, RegistryPointsToOpenStream, [Next]_vars
  PROVE  RegistryPointsToOpenStream'
<1> USE Constants DEF TypeOK, StreamPcs, RegistryPointsToOpenStream
<1>1. ASSUME NEW s \in Streams, StreamMessages(s) PROVE RegistryPointsToOpenStream'
  BY <1>1 DEF StreamMessages, lockVars
<1>2. ASSUME NEW s \in Streams, RejectStream(s) PROVE RegistryPointsToOpenStream'
  BY <1>2 DEF RejectStream, lockVars
<1>3. ASSUME NEW s \in Streams, Register(s) PROVE RegistryPointsToOpenStream'
  <2>1. SUFFICES ASSUME NEW u \in Users, Clients'[u] # None
                 PROVE  /\ owner'[Clients'[u]] = u
                        /\ streamPc'[Clients'[u]] \in {"recv", "send", "unregister", "delete"}
    OBVIOUS
  <2>2. UNCHANGED owner /\ streamPc' = [streamPc EXCEPT ![s] = "recv"]
    BY <1>3 DEF Register
  <2>3. CASE u = owner[s]
    BY <1>3, <2>2, <2>3 DEF Register
  <2>4. CASE u # owner[s]
    <3>1. Clients'[u] = Clients[u]
      BY <1>3, <2>4 DEF Register
    <3> QED
      BY <2>1, <2>2, <3>1
  <2> QED
    BY <2>3, <2>4
<1>4. ASSUME NEW s \in Streams, Unregister(s) PROVE RegistryPointsToOpenStream'
  BY <1>4 DEF Unregister, WithoutOwner
<1>5. ASSUME NEW s \in Streams, StreamStep(s), ~Register(s), ~Unregister(s)
      PROVE  RegistryPointsToOpenStream'
  <2>1. UNCHANGED <<owner, Clients>>
    BY <1>5 DEF StreamStep, LockToRegister, TakeMessage, StreamSend, StreamSendFails,
       LockToUnregister, lockVars
  <2>2. /\ \A t \in Streams \ {s} : streamPc'[t] = streamPc[t]
        /\ streamPc[s] \in {"recv", "send", "unregister", "delete"}
           => streamPc'[s] \in {"recv", "send", "unregister", "delete"}
    BY <1>5 DEF StreamStep, LockToRegister, TakeMessage, StreamSend, StreamSendFails,
       LockToUnregister
  <2>3. SUFFICES ASSUME NEW u \in Users, Clients'[u] # None
                 PROVE  /\ owner'[Clients'[u]] = u
                        /\ streamPc'[Clients'[u]] \in {"recv", "send", "unregister", "delete"}
    OBVIOUS
  <2>4. Clients'[u] = Clients[u] /\ Clients[u] \in Streams
    BY <2>1, <2>3
  <2> QED
    BY <2>1, <2>2, <2>3, <2>4
<1>6. ASSUME Crash PROVE RegistryPointsToOpenStream'
  BY <1>6 DEF Crash
<1>7. ASSUME UNCHANGED <<Clients, owner, streamPc>> PROVE RegistryPointsToOpenStream'
  BY <1>7
<1>8. ASSUME NEW c \in Calls, SendMessage(c) \/ RejectSend(c) \/ CallStep(c)
      PROVE  UNCHANGED <<Clients, owner, streamPc>>
  BY <1>8 DEF SendMessage, RejectSend, CallStep, LockForLookup, Lookup, SendToChannel,
     PushOffline, CreateMessages, streamVars, lockVars
<1>9. ASSUME NEW s \in Streams, DrainStep(s) \/ ClientRecv(s) \/ ClientGone(s)
      PROVE  UNCHANGED <<Clients, owner, streamPc>>
  BY <1>9 DEF DrainStep, DrainRead, DrainReadFails, DrainPush, DrainForward, DrainDelete,
     ClientRecv, ClientGone, streamVars, lockVars
<1>10. (UNCHANGED vars) => UNCHANGED <<Clients, owner, streamPc>>
  BY DEF vars, streamVars, lockVars
<1> QED
  BY <1>1, <1>2, <1>3, <1>4, <1>5, <1>6, <1>7, <1>8, <1>9, <1>10 DEF Next

\* The crux: a step that takes a serving stream out of Clients is the Register
\* or the Unregister of another stream of the same user, which has registered.
LEMMA SoleStreamStep ==
  ASSUME TypeOK, StreamShape, SoleStreamIsStored, [Next]_vars
  PROVE  SoleStreamIsStored'
<1> USE Constants DEF TypeOK, StreamPcs, SoleStreamIsStored, Serving, HasRegistered, StreamShape
<1>1. ASSUME NEW s \in Streams, StreamMessages(s) PROVE SoleStreamIsStored'
  <2>1. SUFFICES ASSUME NEW r \in Streams, Serving(r)',
                        \A t \in Streams \ {r} : owner'[t] = owner'[r] => ~HasRegistered(t)'
                 PROVE  Clients'[owner'[r]] = r
    OBVIOUS
  <2>2. r # s /\ Serving(r) /\ owner'[r] = owner[r]
    BY <1>1, <2>1 DEF StreamMessages
  <2>3. ~HasRegistered(s) /\ \A t \in Streams \ {s} : /\ owner'[t] = owner[t]
                                                     /\ streamPc'[t] = streamPc[t]
    BY <1>1 DEF StreamMessages
  <2>4. \A t \in Streams \ {r} : owner[t] = owner[r] => ~HasRegistered(t)
    BY <2>1, <2>2, <2>3
  <2> QED
    BY <1>1, <2>2, <2>4 DEF StreamMessages, lockVars
<1>2. ASSUME NEW s \in Streams, Register(s) PROVE SoleStreamIsStored'
  <2>1. SUFFICES ASSUME NEW r \in Streams, Serving(r)',
                        \A t \in Streams \ {r} : owner'[t] = owner'[r] => ~HasRegistered(t)'
                 PROVE  Clients'[owner'[r]] = r
    OBVIOUS
  <2>2. CASE r = s
    BY <1>2, <2>2 DEF Register
  <2>3. CASE r # s
    <3>1. owner[s] # owner[r] /\ Serving(r)
      BY <1>2, <2>1, <2>3 DEF Register
    <3>2. \A t \in Streams \ {r} : owner[t] = owner[r] => ~HasRegistered(t)
      BY <1>2, <2>1, <3>1 DEF Register
    <3> QED
      BY <1>2, <3>1, <3>2 DEF Register
  <2> QED
    BY <2>2, <2>3
<1>3. ASSUME NEW s \in Streams, Unregister(s) PROVE SoleStreamIsStored'
  <2>1. SUFFICES ASSUME NEW r \in Streams, Serving(r)',
                        \A t \in Streams \ {r} : owner'[t] = owner'[r] => ~HasRegistered(t)'
                 PROVE  Clients'[owner'[r]] = r
    OBVIOUS
  <2>2. r # s /\ Serving(r) /\ owner[s] # owner[r]
    BY <1>3, <2>1 DEF Unregister
  <2>3. \A t \in Streams \ {r} : owner[t] = owner[r] => ~HasRegistered(t)
    BY <1>3, <2>1, <2>2 DEF Unregister
  <2> QED
    BY <1>3, <2>2, <2>3 DEF Unregister, WithoutOwner
<1>4. ASSUME NEW s \in Streams, RejectStream(s) \/ StreamStep(s), ~Register(s), ~Unregister(s)
      PROVE  SoleStreamIsStored'
  <2>1. UNCHANGED <<owner, Clients>>
    BY <1>4 DEF RejectStream, StreamStep, LockToRegister, TakeMessage, StreamSend,
       StreamSendFails, LockToUnregister, lockVars
  <2>2. /\ \A t \in Streams \ {s} : streamPc'[t] = streamPc[t]
        /\ Serving(s)' => Serving(s)
        /\ HasRegistered(s) => HasRegistered(s)'
    BY <1>4 DEF RejectStream, StreamStep, LockToRegister, TakeMessage, StreamSend,
       StreamSendFails, LockToUnregister
  <2> QED
    BY <2>1, <2>2
<1>5. ASSUME Crash PROVE SoleStreamIsStored'
  BY <1>5 DEF Crash
<1>6. ASSUME UNCHANGED <<Clients, owner, streamPc>> PROVE SoleStreamIsStored'
  BY <1>6
<1>7. ASSUME NEW c \in Calls, SendMessage(c) \/ RejectSend(c) \/ CallStep(c)
      PROVE  UNCHANGED <<Clients, owner, streamPc>>
  BY <1>7 DEF SendMessage, RejectSend, CallStep, LockForLookup, Lookup, SendToChannel,
     PushOffline, CreateMessages, streamVars, lockVars
<1>8. ASSUME NEW s \in Streams, DrainStep(s) \/ ClientRecv(s) \/ ClientGone(s)
      PROVE  UNCHANGED <<Clients, owner, streamPc>>
  BY <1>8 DEF DrainStep, DrainRead, DrainReadFails, DrainPush, DrainForward, DrainDelete,
     ClientRecv, ClientGone, streamVars, lockVars
<1>9. (UNCHANGED vars) => UNCHANGED <<Clients, owner, streamPc>>
  BY DEF vars, streamVars, lockVars
<1> QED
  BY <1>1, <1>2, <1>3, <1>4, <1>5, <1>6, <1>7, <1>8, <1>9 DEF Next

-----------------------------------------------------------------------------
(* Where copies are.                                                        *)

\* What appending, taking the tail and concatenating do to the elements.
LEMMA AppendRange ==
  ASSUME NEW S, NEW q \in Seq(S), NEW x \in S
  PROVE  SeqRange(Append(q, x)) = SeqRange(q) \cup {x}
<1>1. ASSUME NEW y \in SeqRange(q) PROVE y \in SeqRange(Append(q, x))
  BY <1>1 DEF SeqRange
<1>2. x \in SeqRange(Append(q, x))
  <2>1. Append(q, x)[Len(q) + 1] = x /\ Len(q) + 1 \in 1 .. Len(Append(q, x))
    OBVIOUS
  <2> QED
    BY <2>1 DEF SeqRange
<1>3. ASSUME NEW y \in SeqRange(Append(q, x)) PROVE y \in SeqRange(q) \cup {x}
  <2>1. PICK n \in 1 .. Len(q) + 1 : y = Append(q, x)[n]
    BY <1>3 DEF SeqRange
  <2> QED
    BY <2>1 DEF SeqRange
<1> QED
  BY <1>1, <1>2, <1>3

LEMMA TailRange ==
  ASSUME NEW S, NEW q \in Seq(S), q # <<>>
  PROVE  Head(q) \in SeqRange(q) /\ SeqRange(Tail(q)) \subseteq SeqRange(q)
<1>1. ASSUME NEW y \in SeqRange(Tail(q)) PROVE y \in SeqRange(q)
  <2>1. PICK n \in 1 .. Len(q) - 1 : y = Tail(q)[n]
    BY <1>1 DEF SeqRange
  <2>2. y = q[n + 1] /\ n + 1 \in 1 .. Len(q)
    BY <2>1
  <2> QED
    BY <2>2 DEF SeqRange
<1> QED
  BY <1>1 DEF SeqRange

LEMMA ConcatRange ==
  ASSUME NEW S, NEW p \in Seq(S), NEW q \in Seq(S)
  PROVE  SeqRange(p \o q) \subseteq SeqRange(p) \cup SeqRange(q)
<1>1. SUFFICES ASSUME NEW y \in SeqRange(p \o q) PROVE y \in SeqRange(p) \cup SeqRange(q)
  OBVIOUS
<1>2. PICK n \in 1 .. Len(p) + Len(q) : y = (p \o q)[n]
  BY <1>1 DEF SeqRange
<1>3. CASE n <= Len(p)
  BY <1>2, <1>3 DEF SeqRange
<1>4. CASE n > Len(p)
  <2>1. y = q[n - Len(p)] /\ n - Len(p) \in 1 .. Len(q)
    BY <1>2, <1>4
  <2> QED
    BY <2>1 DEF SeqRange
<1> QED
  BY <1>3, <1>4

LEMMA EmptyRange == SeqRange(<<>>) = {}
BY DEF SeqRange

\* The push of a copy leaves the key with the colon alone.
LEMMA DrainStepFindsNothing ==
  ASSUME TypeOK, CallShape, StreamShape, DrainFindsNothing, [Next]_vars
  PROVE  DrainFindsNothing'
<1> USE Constants DEF TypeOK, DrainFindsNothing
<1>1. ASSUME NEW c \in Calls, PushOffline(c) PROVE DrainFindsNothing'
  <2>1. \A u \in Users : DrainKey(u) \in Keys /\ DrainKey(u) # OfflineKey(Receiver(c))
    BY <1>1, ReceiverFacts, KeyFacts DEF PushOffline, InLoop
  <2>2. \A u \in Users : redis'[DrainKey(u)] = redis[DrainKey(u)]
    BY <1>1, <2>1 DEF PushOffline
  <2> QED
    BY <1>1, <2>2 DEF PushOffline, drainVars, DrainKey
<1>2. ASSUME NEW s \in Streams, DrainRead(s) PROVE DrainFindsNothing'
  <2>1. redis[DrainKey(owner[s])] = <<>>
    BY <1>2 DEF DrainRead, StreamShape
  <2> QED
    BY <1>2, <2>1 DEF DrainRead, storeVars, DrainKey
<1>3. ASSUME NEW s \in Streams, DrainPush(s) PROVE DrainDelete(s)
  BY <1>3 DEF DrainPush
<1>4. ASSUME NEW s \in Streams, DrainDelete(s) PROVE DrainFindsNothing'
  <2>1. \A u \in Users : DrainKey(u) \in Keys
    BY KeyFacts
  <2> QED
    BY <1>4, <2>1 DEF DrainDelete, DrainKey
<1>5. ASSUME Crash PROVE DrainFindsNothing'
  BY <1>5 DEF Crash, DrainKey
<1>6. ASSUME UNCHANGED <<redis, drainBuf>> PROVE DrainFindsNothing'
  BY <1>6 DEF DrainKey
<1>7. ASSUME NEW c \in Calls, SendMessage(c) \/ RejectSend(c) \/ CallStep(c), ~PushOffline(c)
      PROVE  UNCHANGED <<redis, drainBuf>>
  BY <1>7 DEF SendMessage, RejectSend, CallStep, LockForLookup, Lookup, SendToChannel,
     CreateMessages, storeVars, drainVars
<1>8. ASSUME NEW s \in Streams, StreamMessages(s) \/ RejectStream(s) \/ StreamStep(s)
      PROVE  UNCHANGED <<redis, drainBuf>>
  BY <1>8 DEF StreamMessages, RejectStream, StreamStep, LockToRegister, Register, TakeMessage,
     StreamSend, StreamSendFails, LockToUnregister, Unregister, storeVars, drainVars
<1>9. ASSUME NEW s \in Streams, DrainReadFails(s) \/ ClientRecv(s) \/ ClientGone(s)
      PROVE  UNCHANGED <<redis, drainBuf>>
  BY <1>9 DEF DrainReadFails, ClientRecv, ClientGone, storeVars, drainVars
<1>10. (UNCHANGED vars) => UNCHANGED <<redis, drainBuf>>
  BY DEF vars, storeVars, drainVars
<1> QED
  BY <1>1, <1>2, <1>3, <1>4, <1>5, <1>6, <1>7, <1>8, <1>9, <1>10 DEF Next, DrainStep

\* A call that has left "idle" keeps its receivers, and its index only grows:
\* what is placed stays placed.
LEMMA PlacedStays ==
  ASSUME TypeOK, CallShape, [Next]_vars, NEW k \in Copies, NEW u, PlacedFor(k, u)
  PROVE  PlacedFor(k, u)'
<1> USE DEF TypeOK, PlacedFor, ReceiverOf, Copies
<1>1. ASSUME NEW c \in Calls, SendMessage(c) PROVE PlacedFor(k, u)'
  <2>1. k[1] # c
    BY <1>1 DEF SendMessage, CallShape
  <2> QED
    BY <1>1, <2>1 DEF SendMessage
<1>2. ASSUME NEW c \in Calls, NextReceiver(c), UNCHANGED receivers PROVE PlacedFor(k, u)'
  BY <1>2 DEF NextReceiver
<1>3. ASSUME NEW c \in Calls, SendToChannel(c) \/ PushOffline(c)
      PROVE  NextReceiver(c) /\ UNCHANGED receivers
  BY <1>3 DEF SendToChannel, PushOffline
<1>4. ASSUME UNCHANGED <<receivers, idx>> PROVE PlacedFor(k, u)'
  BY <1>4
<1>5. ASSUME NEW c \in Calls,
             RejectSend(c) \/ LockForLookup(c) \/ Lookup(c) \/ CreateMessages(c)
      PROVE  UNCHANGED <<receivers, idx>>
  BY <1>5 DEF RejectSend, LockForLookup, Lookup, CreateMessages
<1>6. ASSUME NEW s \in Streams,
             \/ StreamMessages(s) \/ RejectStream(s) \/ StreamStep(s) \/ DrainStep(s)
             \/ ClientRecv(s) \/ ClientGone(s)
      PROVE  UNCHANGED <<receivers, idx>>
  BY <1>6 DEF StreamMessages, RejectStream, StreamStep, DrainStep, ClientRecv, ClientGone,
     LockToRegister, Register, TakeMessage, StreamSend, StreamSendFails, LockToUnregister,
     Unregister, DrainRead, DrainReadFails, DrainPush, DrainForward, DrainDelete, callVars
<1>7. Crash => UNCHANGED <<receivers, idx>>
  BY DEF Crash
<1>8. (UNCHANGED vars) => UNCHANGED <<receivers, idx>>
  BY DEF vars, callVars
<1> QED
  BY <1>1, <1>2, <1>3, <1>4, <1>5, <1>6, <1>7, <1>8 DEF Next, CallStep

\* The copy that a call has just passed on is placed for the receiver it named.
LEMMA NewCopyPlaced ==
  ASSUME TypeOK, CallShape, NEW c \in Calls, InLoop(c), NextReceiver(c), UNCHANGED receivers,
         NEW k \in Copies, k = Copy(c), NEW u \in Users, u = Receiver(c)
  PROVE  PlacedFor(k, u)'
BY DEF TypeOK, CallShape, InLoop, NextReceiver, Copy, Receiver, PlacedFor, ReceiverOf

\* What a stream holds grows only by the copy that a call puts into its channel.
LEMMA CopiesOfStep ==
  ASSUME TypeOK, CallShape, DrainFindsNothing, [Next]_vars, NEW s \in Streams
  PROVE  \/ CopiesOf(s)' \subseteq CopiesOf(s)
         \/ \E c \in Calls : /\ SendToChannel(c) /\ target[c] = s
                             /\ CopiesOf(s)' \subseteq CopiesOf(s) \cup {Copy(c)}
<1> USE DEF CopiesOf
<1>1. ASSUME NEW c \in Calls, SendToChannel(c)
      PROVE  \/ CopiesOf(s)' \subseteq CopiesOf(s)
             \/ target[c] = s /\ CopiesOf(s)' \subseteq CopiesOf(s) \cup {Copy(c)}
  <2>1. UNCHANGED <<received, wire, hand>>
    BY <1>1 DEF SendToChannel, peerVars
  <2>2. Copy(c) \in Copies
    BY <1>1, ReceiverFacts DEF SendToChannel, InLoop
  <2>3. CASE target[c] = s
    <3>1. channel'[s] = Append(channel[s], Copy(c))
      BY <1>1, <2>3 DEF SendToChannel, TypeOK
    <3>2. SeqRange(channel'[s]) = SeqRange(channel[s]) \cup {Copy(c)}
      BY <2>2, <3>1, AppendRange DEF TypeOK
    <3> QED
      BY <2>1, <2>3, <3>2
  <2>4. CASE target[c] # s
    <3>1. channel'[s] = channel[s]
      BY <1>1, <2>4 DEF SendToChannel, TypeOK
    <3> QED
      BY <2>1, <3>1
  <2> QED
    BY <2>3, <2>4
<1>2. ASSUME NEW t \in Streams, TakeMessage(t) PROVE CopiesOf(s)' \subseteq CopiesOf(s)
  <2>1. UNCHANGED <<received, wire>>
    BY <1>2 DEF TakeMessage, peerVars
  <2>2. CASE t = s
    <3>1. channel[s] \in Seq(Copies) /\ channel[s] # <<>>
      BY <1>2, <2>2 DEF TakeMessage, TypeOK
    <3>2. hand'[s] = <<Head(channel[s])>> /\ channel'[s] = Tail(channel[s])
      BY <1>2, <2>2 DEF TakeMessage, TypeOK
    <3>3. SeqRange(hand'[s]) = {Head(channel[s])}
      BY <3>2 DEF SeqRange
    <3> QED
      BY <2>1, <3>1, <3>2, <3>3, TailRange
  <2>3. CASE t # s
    BY <1>2, <2>1, <2>3 DEF TakeMessage, TypeOK
  <2> QED
    BY <2>2, <2>3
<1>3. ASSUME NEW t \in Streams, StreamSend(t) PROVE CopiesOf(s)' \subseteq CopiesOf(s)
  <2>1. UNCHANGED <<received, channel>>
    BY <1>3 DEF StreamSend
  <2>2. CASE t = s
    <3>1. wire'[s] = wire[s] \o hand[s] /\ hand'[s] = <<>>
      BY <1>3, <2>2 DEF StreamSend, TypeOK
    <3>2. SeqRange(wire'[s]) \subseteq SeqRange(wire[s]) \cup SeqRange(hand[s])
      BY <3>1, ConcatRange DEF TypeOK
    <3> QED
      BY <2>1, <3>1, <3>2, EmptyRange
  <2>3. CASE t # s
    BY <1>3, <2>1, <2>3 DEF StreamSend, TypeOK
  <2> QED
    BY <2>2, <2>3
<1>4. ASSUME NEW t \in Streams, StreamSendFails(t) PROVE CopiesOf(s)' \subseteq CopiesOf(s)
  <2>1. hand'[s] \in {hand[s], <<>>}
    BY <1>4 DEF StreamSendFails, TypeOK
  <2> QED
    BY <1>4, <2>1, EmptyRange DEF StreamSendFails, peerVars
<1>5. ASSUME NEW t \in Streams, ClientRecv(t) PROVE CopiesOf(s)' \subseteq CopiesOf(s)
  <2>1. UNCHANGED <<hand, channel>>
    BY <1>5 DEF ClientRecv, streamVars
  <2>2. CASE t = s
    <3>1. wire[s] \in Seq(Copies) /\ wire[s] # <<>> /\ received[s] \in Seq(Copies)
      BY <1>5, <2>2 DEF ClientRecv, TypeOK
    <3>2. received'[s] = Append(received[s], Head(wire[s])) /\ wire'[s] = Tail(wire[s])
      BY <1>5, <2>2 DEF ClientRecv, TypeOK
    <3>3. Head(wire[s]) \in Copies
      BY <3>1
    <3> QED
      BY <2>1, <3>1, <3>2, <3>3, TailRange, AppendRange
  <2>3. CASE t # s
    BY <1>5, <2>1, <2>3 DEF ClientRecv, TypeOK
  <2> QED
    BY <2>2, <2>3
<1>6. ASSUME Crash PROVE CopiesOf(s)' \subseteq CopiesOf(s)
  BY <1>6, EmptyRange DEF Crash
<1>7. ASSUME UNCHANGED <<received, wire, hand, channel>>
      PROVE  CopiesOf(s)' \subseteq CopiesOf(s)
  BY <1>7
<1>8. ASSUME NEW c \in Calls, SendMessage(c) \/ RejectSend(c) \/ CallStep(c), ~SendToChannel(c)
      PROVE  UNCHANGED <<received, wire, hand, channel>>
  BY <1>8 DEF SendMessage, RejectSend, CallStep, LockForLookup, Lookup, PushOffline,
     CreateMessages, streamVars, peerVars
<1>9. ASSUME NEW t \in Streams,
             \/ StreamMessages(t) \/ RejectStream(t) \/ LockToRegister(t) \/ Register(t)
             \/ LockToUnregister(t) \/ Unregister(t) \/ DrainStep(t) \/ ClientGone(t)
      PROVE  UNCHANGED <<received, wire, hand, channel>>
  BY <1>9 DEF StreamMessages, RejectStream, LockToRegister, Register, LockToUnregister,
     Unregister, DrainStep, DrainRead, DrainReadFails, DrainPush, DrainForward, DrainDelete, ClientGone,
     DrainFindsNothing, streamVars, peerVars
<1>10. (UNCHANGED vars) => UNCHANGED <<received, wire, hand, channel>>
  BY DEF vars, streamVars, peerVars
<1> QED
  BY <1>1, <1>2, <1>3, <1>4, <1>5, <1>6, <1>7, <1>8, <1>9, <1>10
     DEF Next, CallStep, StreamStep

\* An offline list grows only by the copy that a call pushes for its user.
LEMMA OfflineListStep ==
  ASSUME TypeOK, CallShape, StreamShape, [Next]_vars, NEW u \in Users
  PROVE  \/ redis'[OfflineKey(u)] = redis[OfflineKey(u)]
         \/ \E c \in Calls : /\ PushOffline(c) /\ Receiver(c) = u
                             /\ SeqRange(redis'[OfflineKey(u)])
                                \subseteq SeqRange(redis[OfflineKey(u)]) \cup {Copy(c)}
<1>1. ASSUME NEW c \in Calls, PushOffline(c)
      PROVE  \/ redis'[OfflineKey(u)] = redis[OfflineKey(u)]
             \/ /\ Receiver(c) = u
                /\ SeqRange(redis'[OfflineKey(u)])
                   \subseteq SeqRange(redis[OfflineKey(u)]) \cup {Copy(c)}
  <2>1. Receiver(c) \in Users /\ Copy(c) \in Copies
    BY <1>1, ReceiverFacts DEF PushOffline, InLoop
  <2>2. OfflineKey(u) \in Keys /\ OfflineKey(Receiver(c)) \in Keys
    BY <2>1, KeyFacts
  <2>3. CASE UNCHANGED redis
    BY <2>3
  <2>4. CASE redis' = [redis EXCEPT ![OfflineKey(Receiver(c))] = RPush(@, Copy(c))]
    <3>1. CASE Receiver(c) = u
      <4>1. redis'[OfflineKey(u)] = Append(redis[OfflineKey(u)], Copy(c))
        BY <2>2, <2>4, <3>1 DEF RPush, TypeOK
      <4>2. redis[OfflineKey(u)] \in Seq(Copies)
        BY <2>2 DEF TypeOK
      <4> QED
        BY <2>1, <3>1, <4>1, <4>2, AppendRange
    <3>2. CASE Receiver(c) # u
      <4>1. OfflineKey(u) # OfflineKey(Receiver(c))
        BY <2>1, <3>2, KeyFacts
      <4> QED
        BY <2>2, <2>4, <4>1 DEF TypeOK
    <3> QED
      BY <3>1, <3>2
  <2> QED
    BY <1>1, <2>3, <2>4 DEF PushOffline
<1>2. ASSUME NEW s \in Streams, DrainPush(s), DrainDelete(s)
      PROVE  redis'[OfflineKey(u)] = redis[OfflineKey(u)]
  <2>1. OfflineKey(u) \in Keys /\ OfflineKey(u) # DrainKey(owner[s])
    BY <1>2, KeyFacts DEF DrainPush, StreamShape
  <2> QED
    BY <1>2, <2>1 DEF DrainDelete, TypeOK
<1>3. ASSUME UNCHANGED redis PROVE redis'[OfflineKey(u)] = redis[OfflineKey(u)]
  BY <1>3 DEF OfflineKey
<1>4. ASSUME NEW c \in Calls, SendMessage(c) \/ RejectSend(c) \/ CallStep(c), ~PushOffline(c)
      PROVE  UNCHANGED redis
  BY <1>4 DEF SendMessage, RejectSend, CallStep, LockForLookup, Lookup, SendToChannel,
     CreateMessages, storeVars
<1>5. ASSUME NEW s \in Streams, StreamMessages(s) \/ RejectStream(s) \/ StreamStep(s)
      PROVE  UNCHANGED redis
  BY <1>5 DEF StreamMessages, RejectStream, StreamStep, LockToRegister, Register, TakeMessage,
     StreamSend, StreamSendFails, LockToUnregister, Unregister, storeVars
<1>6. ASSUME NEW s \in Streams,
             \/ DrainRead(s) \/ DrainReadFails(s) \/ DrainForward(s)
             \/ ClientRecv(s) \/ ClientGone(s)
      PROVE  UNCHANGED redis
  BY <1>6 DEF DrainRead, DrainReadFails, DrainForward, ClientRecv, ClientGone, storeVars
<1>7. Crash => UNCHANGED redis
  BY DEF Crash
<1>8. (UNCHANGED vars) => UNCHANGED redis
  BY DEF vars, storeVars
<1> QED
  BY <1>1, <1>2, <1>3, <1>4, <1>5, <1>6, <1>7, <1>8 DEF Next, CallStep, DrainStep, DrainPush

\* A stream keeps the user its token named.
LEMMA OwnerStays ==
  ASSUME TypeOK, StreamShape, [Next]_vars, NEW s \in Streams, owner[s] # None
  PROVE  owner'[s] = owner[s]
<1>1. ASSUME NEW t \in Streams, StreamMessages(t) PROVE owner'[s] = owner[s]
  <2>1. t # s
    BY <1>1 DEF StreamMessages, StreamShape
  <2> QED
    BY <1>1, <2>1 DEF StreamMessages, TypeOK
<1>2. ASSUME NEW c \in Calls, SendMessage(c) \/ RejectSend(c) \/ CallStep(c)
      PROVE  UNCHANGED owner
  BY <1>2 DEF SendMessage, RejectSend, CallStep, LockForLookup, Lookup, SendToChannel,
     PushOffline, CreateMessages, streamVars
<1>3. ASSUME NEW t \in Streams, RejectStream(t) \/ StreamStep(t) PROVE UNCHANGED owner
  BY <1>3 DEF RejectStream, StreamStep, LockToRegister, Register, TakeMessage,
     StreamSend, StreamSendFails, LockToUnregister, Unregister
<1>4. ASSUME NEW t \in Streams, DrainStep(t) \/ ClientRecv(t) \/ ClientGone(t)
      PROVE  UNCHANGED owner
  BY <1>4 DEF DrainStep, DrainRead, DrainReadFails, DrainPush, DrainForward, DrainDelete,
     ClientRecv, ClientGone, streamVars
<1>5. Crash => UNCHANGED owner
  BY DEF Crash
<1>6. (UNCHANGED vars) => UNCHANGED owner
  BY DEF vars, streamVars
<1> QED
  BY <1>1, <1>2, <1>3, <1>4, <1>5, <1>6 DEF Next

LEMMA CopiesPlacedStep ==
  ASSUME TypeOK, CallShape, StreamShape, DrainFindsNothing, CopiesPlaced, [Next]_vars
  PROVE  CopiesPlaced'
<1>1. ASSUME NEW s \in Streams, NEW k \in CopiesOf(s)' PROVE PlacedFor(k, owner[s])'
  <2>1. CASE k \in CopiesOf(s)
    <3>1. k \in Copies
      BY <2>1 DEF CopiesOf, SeqRange, TypeOK
    <3>2. PICK u : u = owner[s]
      OBVIOUS
    <3>3. PlacedFor(k, u)
      BY <2>1, <3>2 DEF CopiesPlaced
    <3>4. ReceiverOf(k) \in Users
      <4>1. receivers[k[1]] \in Seq(Users) /\ k[2] \in 1 .. Len(receivers[k[1]])
        BY <3>1, <3>3 DEF PlacedFor, TypeOK, Copies
      <4> QED
        BY <4>1 DEF ReceiverOf
    <3>5. owner'[s] = u
      BY <3>2, <3>3, <3>4, OwnerStays, Constants DEF PlacedFor
    <3>6. PlacedFor(k, u)'
      BY <3>1, <3>3, PlacedStays
    <3> QED
      BY <3>5, <3>6 DEF PlacedFor
  <2>2. CASE k \notin CopiesOf(s)
    <3>1. PICK c \in Calls : SendToChannel(c) /\ target[c] = s /\ k = Copy(c)
      BY <2>2, <1>1, CopiesOfStep
    <3>2. InLoop(c) /\ NextReceiver(c) /\ UNCHANGED <<receivers, owner>>
      BY <3>1 DEF SendToChannel, InLoop
    <3>3. k \in Copies /\ Receiver(c) \in Users /\ owner[s] = Receiver(c)
      BY <3>1, <3>2, ReceiverFacts DEF CallShape, SendToChannel
    <3>4. PICK u \in Users : u = Receiver(c)
      BY <3>3
    <3>5. PlacedFor(k, u)'
      BY <3>1, <3>2, <3>3, <3>4, NewCopyPlaced
    <3> QED
      BY <3>2, <3>3, <3>4, <3>5 DEF PlacedFor
  <2> QED
    BY <2>1, <2>2
<1>2. ASSUME NEW u \in Users, NEW k \in SeqRange(redis'[OfflineKey(u)])
      PROVE  PlacedFor(k, u)'
  <2>1. CASE k \in SeqRange(redis[OfflineKey(u)])
    <3>1. k \in Copies
      BY <2>1, KeyFacts DEF SeqRange, TypeOK
    <3> QED
      BY <2>1, <3>1, PlacedStays DEF CopiesPlaced
  <2>2. CASE k \notin SeqRange(redis[OfflineKey(u)])
    <3>1. PICK c \in Calls : PushOffline(c) /\ Receiver(c) = u /\ k = Copy(c)
      BY <2>2, <1>2, OfflineListStep
    <3>2. InLoop(c) /\ NextReceiver(c) /\ UNCHANGED receivers
      BY <3>1 DEF PushOffline, InLoop
    <3>3. k \in Copies
      BY <3>1, <3>2, ReceiverFacts
    <3> QED
      BY <3>1, <3>2, <3>3, NewCopyPlaced
  <2> QED
    BY <2>1, <2>2
<1> QED
  BY <1>1, <1>2 DEF CopiesPlaced, OfflineKey

-----------------------------------------------------------------------------
(* The messages table and the acknowledgement.                              *)

LEMMA RowsStep ==
  ASSUME TypeOK, CallShape, RowsOfFinished, [Next]_vars
  PROVE  RowsOfFinished'
<1> USE DEF TypeOK, RowsOfFinished, Returned, Copies
<1>1. ASSUME NEW c \in Calls, SendMessage(c) \/ RejectSend(c) PROVE RowsOfFinished'
  <2>1. /\ UNCHANGED messages
        /\ \A d \in Calls \ {c} : /\ callPc'[d] = callPc[d] /\ idx'[d] = idx[d]
                                  /\ receivers'[d] = receivers[d]
    BY <1>1 DEF SendMessage, RejectSend, storeVars
  <2>2. \A k \in messages : k[1] \in Calls \ {c}
    BY <1>1 DEF SendMessage, RejectSend
  <2> QED
    BY <2>1, <2>2
<1>2. ASSUME NEW c \in Calls, InLoop(c), UNCHANGED <<messages, receivers>>,
             \A d \in Calls \ {c} : callPc'[d] = callPc[d] /\ idx'[d] = idx[d]
      PROVE  RowsOfFinished'
  <2>1. \A k \in messages : k[1] \in Calls \ {c}
    BY <1>2 DEF InLoop
  <2> QED
    BY <1>2, <2>1
<1>3. ASSUME NEW c \in Calls,
             LockForLookup(c) \/ Lookup(c) \/ SendToChannel(c) \/ PushOffline(c)
      PROVE  /\ InLoop(c) /\ UNCHANGED <<messages, receivers>>
             /\ \A d \in Calls \ {c} : callPc'[d] = callPc[d] /\ idx'[d] = idx[d]
  BY <1>3 DEF LockForLookup, Lookup, SendToChannel, PushOffline, NextReceiver, InLoop, storeVars
<1>4. ASSUME NEW c \in Calls, CreateMessages(c) PROVE RowsOfFinished'
  <2>1. /\ messages' \subseteq messages \cup Rows(c)
        /\ UNCHANGED <<idx, receivers>>
        /\ callPc'[c] \in {"ok", "failed"} /\ idx[c] = Len(receivers[c]) + 1
        /\ \A d \in Calls \ {c} : callPc'[d] = callPc[d]
    BY <1>4 DEF CreateMessages, CallShape
  <2>2. \A k \in Rows(c) : k[1] = c
    BY DEF Rows
  <2>3. ASSUME NEW k \in messages'
        PROVE  callPc'[k[1]] \in {"ok", "failed"} /\ idx[k[1]] = Len(receivers[k[1]]) + 1
    <3>1. CASE k[1] = c
      BY <2>1, <3>1
    <3>2. CASE k[1] # c
      <4>1. k \in messages /\ k[1] \in Calls \ {c}
        BY <2>1, <2>2, <2>3, <3>2
      <4> QED
        BY <2>1, <4>1
    <3> QED
      BY <3>1, <3>2
  <2> QED
    BY <2>1, <2>3
<1>5. ASSUME Crash PROVE RowsOfFinished'
  BY <1>5 DEF Crash
<1>6. ASSUME UNCHANGED <<messages, callPc, idx, receivers>> PROVE RowsOfFinished'
  BY <1>6
<1>7. ASSUME NEW s \in Streams,
             \/ StreamMessages(s) \/ RejectStream(s) \/ StreamStep(s) \/ DrainStep(s)
             \/ ClientRecv(s) \/ ClientGone(s)
      PROVE  UNCHANGED <<messages, callPc, idx, receivers>>
  BY <1>7 DEF StreamMessages, RejectStream, StreamStep, DrainStep, ClientRecv, ClientGone,
     LockToRegister, Register, TakeMessage, StreamSend, StreamSendFails, LockToUnregister,
     Unregister, DrainRead, DrainReadFails, DrainPush, DrainForward, DrainDelete, callVars, storeVars
<1>8. (UNCHANGED vars) => UNCHANGED <<messages, callPc, idx, receivers>>
  BY DEF vars, callVars, storeVars
<1> QED
  BY <1>1, <1>2, <1>3, <1>4, <1>5, <1>6, <1>7, <1>8 DEF Next, CallStep

\* Only CreateMessages makes a call "ok", and it stores the rows in that step.
LEMMA AckStep ==
  ASSUME TypeOK, CallShape, AckedMeansStored, [Next]_vars
  PROVE  AckedMeansStored'
<1> USE DEF TypeOK, AckedMeansStored, Rows
<1>1. ASSUME NEW c \in Calls, callPc'[c] # "ok", callPc[c] # "ok", UNCHANGED messages,
             \A d \in Calls \ {c} : /\ callPc'[d] = callPc[d] /\ idx'[d] = idx[d]
                                    /\ receivers'[d] = receivers[d]
      PROVE  AckedMeansStored'
  BY <1>1
<1>2. ASSUME NEW c \in Calls,
             \/ SendMessage(c) \/ RejectSend(c) \/ LockForLookup(c) \/ Lookup(c)
             \/ SendToChannel(c) \/ PushOffline(c)
      PROVE  /\ callPc'[c] # "ok" /\ callPc[c] # "ok" /\ UNCHANGED messages
             /\ \A d \in Calls \ {c} : /\ callPc'[d] = callPc[d] /\ idx'[d] = idx[d]
                                       /\ receivers'[d] = receivers[d]
  BY <1>2 DEF SendMessage, RejectSend, LockForLookup, Lookup, SendToChannel, PushOffline,
     NextReceiver, storeVars
<1>3. ASSUME NEW c \in Calls, CreateMessages(c) PROVE AckedMeansStored'
  BY <1>3 DEF CreateMessages, CallShape
<1>4. ASSUME Crash PROVE AckedMeansStored'
  BY <1>4 DEF Crash
<1>5. ASSUME UNCHANGED <<messages, callPc, idx, receivers>> PROVE AckedMeansStored'
  BY <1>5
<1>6. ASSUME NEW s \in Streams,
             \/ StreamMessages(s) \/ RejectStream(s) \/ StreamStep(s) \/ DrainStep(s)
             \/ ClientRecv(s) \/ ClientGone(s)
      PROVE  UNCHANGED <<messages, callPc, idx, receivers>>
  BY <1>6 DEF StreamMessages, RejectStream, StreamStep, DrainStep, ClientRecv, ClientGone,
     LockToRegister, Register, TakeMessage, StreamSend, StreamSendFails, LockToUnregister,
     Unregister, DrainRead, DrainReadFails, DrainPush, DrainForward, DrainDelete, callVars, storeVars
<1>7. (UNCHANGED vars) => UNCHANGED <<messages, callPc, idx, receivers>>
  BY DEF vars, callVars, storeVars
<1> QED
  BY <1>1, <1>2, <1>3, <1>4, <1>5, <1>6, <1>7 DEF Next, CallStep

-----------------------------------------------------------------------------
(* The theorems.                                                            *)

LEMMA InitIInv == Init => IInv
<1> SUFFICES ASSUME Init PROVE IInv
  OBVIOUS
<1>1. TypeOK
  BY TypeInit
<1>2. CallShape /\ StreamShape /\ OnlyHolderInLock
  BY Constants DEF Init, CallShape, StreamShape, OnlyHolderInLock, InLock, InLoop
<1>3. RegistryPointsToOpenStream /\ SoleStreamIsStored
  BY DEF Init, RegistryPointsToOpenStream, SoleStreamIsStored, Serving
<1>4. DrainFindsNothing
  BY KeyFacts DEF Init, DrainFindsNothing
<1>5. CopiesPlaced
  BY KeyFacts, EmptyRange DEF Init, CopiesPlaced, CopiesOf
<1>6. RowsOfFinished /\ AckedMeansStored
  BY DEF Init, RowsOfFinished, AckedMeansStored
<1> QED
  BY <1>1, <1>2, <1>3, <1>4, <1>5, <1>6 DEF IInv

LEMMA NextIInv == IInv /\ [Next]_vars => IInv'
BY TypeStep, CallShapeStep, StreamShapeStep, LockStep, RegistryStep, SoleStreamStep,
   DrainStepFindsNothing, CopiesPlacedStep, RowsStep, AckStep DEF IInv

\* The inductive invariant holds in every reachable state.
THEOREM Inductive == Spec => []IInv
BY InitIInv, NextIInv, PTL DEF Spec

\* Every variable keeps its type; in particular no channel holds more than its
\* buffer and every index into the receivers is one of theirs.
THEOREM TypeCorrect == Spec => []TypeOK
BY Inductive, PTL DEF IInv

\* Only the goroutine that holds ClientsMutex is between Lock and Unlock.
THEOREM MutualExclusion == Spec => []OnlyHolderInLock
BY Inductive, PTL DEF IInv

\* The registry only ever leads to an open stream of the right user.
THEOREM RegistrySound == Spec => []RegistryPointsToOpenStream
BY Inductive, PTL DEF IInv

\* A user's only stream stays registered for as long as it serves.
THEOREM SoleStreamFound == Spec => []SoleStreamIsStored
BY Inductive, PTL DEF IInv

\* An acknowledged call has stored a row for everybody and is past its last receiver.
THEOREM AckSound == Spec => []AckedMeansStored
BY Inductive, PTL DEF IInv

\* No copy is queued for, or sent to, anybody but the receiver it names.
THEOREM Addressing == Spec => []NoMisdelivery
<1>1. IInv => NoMisdelivery
  <2> SUFFICES ASSUME IInv PROVE NoMisdelivery
    OBVIOUS
  <2>1. ASSUME NEW s \in Streams, NEW k \in SeqRange(Pipeline(s)) PROVE ReceiverOf(k) = owner[s]
    <3>1. /\ received[s] \in Seq(Copies) /\ wire[s] \in Seq(Copies)
          /\ hand[s] \in Seq(Copies) /\ channel[s] \in Seq(Copies)
      BY DEF IInv, TypeOK
    <3>2. k \in CopiesOf(s)
      <4> DEFINE p == received[s] \o wire[s]
                 q == p \o hand[s]
      <4>1. p \in Seq(Copies) /\ SeqRange(p) \subseteq SeqRange(received[s]) \cup SeqRange(wire[s])
        BY <3>1, ConcatRange
      <4> HIDE DEF p
      <4>2. q \in Seq(Copies) /\ SeqRange(q) \subseteq SeqRange(p) \cup SeqRange(hand[s])
        BY <3>1, <4>1, ConcatRange
      <4> HIDE DEF q
      <4>3. SeqRange(q \o channel[s]) \subseteq SeqRange(q) \cup SeqRange(channel[s])
        BY <3>1, <4>2, ConcatRange
      <4>4. Pipeline(s) = q \o channel[s]
        BY DEF Pipeline, p, q
      <4> QED
        BY <2>1, <4>1, <4>2, <4>3, <4>4 DEF CopiesOf
    <3> QED
      BY <3>2 DEF IInv, CopiesPlaced, PlacedFor
  <2> QED
    BY <2>1 DEF IInv, CopiesPlaced, PlacedFor, NoMisdelivery
<1> QED
  BY <1>1, Inductive, PTL

\* A row appears in the table only after every copy of its message was handed over.
THEOREM HistoryBehindDelivery == Spec => []StoredAfterHandover
<1>1. IInv => StoredAfterHandover
  BY DEF IInv, TypeOK, Copies, RowsOfFinished, StoredAfterHandover
<1> QED
  BY <1>1, Inductive, PTL

=============================================================================
