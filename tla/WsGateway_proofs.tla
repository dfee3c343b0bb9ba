-------------------------- MODULE WsGateway_proofs --------------------------
(* Theorems about WsGateway for every value of its constants.              *)
EXTENDS WsGateway, SequenceTheorems, TLAPS

LEMMA Constants ==
  /\ MaxMessages \in Nat /\ MaxReceivers \in Nat /\ MaxCrashes \in Nat
  /\ None \notin Users
  /\ Messages \subseteq Nat
BY GatewayAssumption DEF Messages

-----------------------------------------------------------------------------
(* Sequences of messages.                                                  *)

LEMMA RangeEmpty == SeqRange(<<>>) = {}
BY DEF SeqRange

LEMMA RangeOne == \A m : SeqRange(<<m>>) = {m}
BY DEF SeqRange

LEMMA RangeTyped ==
  ASSUME NEW S, NEW q \in Seq(S)
  PROVE  SeqRange(q) \subseteq S
BY DEF SeqRange

LEMMA RangeAppend ==
  ASSUME NEW S, NEW q \in Seq(S), NEW m \in S
  PROVE  SeqRange(Append(q, m)) = SeqRange(q) \cup {m}
<1>1. /\ Len(Append(q, m)) = Len(q) + 1 /\ Append(q, m)[Len(q) + 1] = m
      /\ \A n \in 1 .. Len(q) : Append(q, m)[n] = q[n]
  OBVIOUS
<1>2. 1 .. Len(q) + 1 = (1 .. Len(q)) \cup {Len(q) + 1}
  OBVIOUS
<1> QED
  BY <1>1, <1>2 DEF SeqRange

LEMMA RangeTail ==
  ASSUME NEW S, NEW q \in Seq(S), q # <<>>
  PROVE  /\ Head(q) \in S /\ Tail(q) \in Seq(S)
         /\ SeqRange(q) = {Head(q)} \cup SeqRange(Tail(q))
<1>1. /\ Len(q) \in Nat \ {0} /\ Len(Tail(q)) = Len(q) - 1 /\ Head(q) = q[1]
      /\ \A n \in 1 .. Len(q) - 1 : Tail(q)[n] = q[n + 1]
  OBVIOUS
<1>2. SeqRange(q) \subseteq {Head(q)} \cup SeqRange(Tail(q))
  <2> SUFFICES ASSUME NEW n \in 1 .. Len(q), n # 1
               PROVE  \E k \in 1 .. Len(Tail(q)) : Tail(q)[k] = q[n]
    BY <1>1 DEF SeqRange
  <2>1. n - 1 \in 1 .. Len(q) - 1 /\ (n - 1) + 1 = n
    BY <1>1
  <2> QED
    BY <1>1, <2>1
<1>3. {Head(q)} \cup SeqRange(Tail(q)) \subseteq SeqRange(q)
  <2>1. \A n \in 1 .. Len(q) - 1 : n + 1 \in 1 .. Len(q)
    BY <1>1
  <2>2. 1 \in 1 .. Len(q)
    BY <1>1
  <2> QED
    BY <1>1, <2>1, <2>2 DEF SeqRange
<1>4. Head(q) \in S /\ Tail(q) \in Seq(S)
  OBVIOUS
<1> QED
  BY <1>2, <1>3, <1>4

LEMMA TailEmpty ==
  ASSUME NEW S, NEW q \in Seq(S), q # <<>>
  PROVE  IF Len(q) = 1 THEN Tail(q) = <<>> ELSE Tail(q) # <<>>
<1>1. Len(q) \in Nat \ {0} /\ Len(Tail(q)) = Len(q) - 1 /\ Tail(q) \in Seq(S)
  BY HeadTailProperties, EmptySeq
<1>2. Tail(q) = <<>> <=> Len(Tail(q)) = 0
  BY <1>1, EmptySeq
<1> QED
  BY <1>1, <1>2

LEMMA RangeSingle ==
  ASSUME NEW S, NEW q \in Seq(S), Len(q) = 1
  PROVE  Head(q) \in S /\ SeqRange(q) = {Head(q)}
<1>1. Head(q) = q[1] /\ q[1] \in S
  OBVIOUS
<1> QED
  BY <1>1 DEF SeqRange

LEMMA IncreasingEmpty == Increasing(<<>>)
BY DEF Increasing

LEMMA IncreasingAppend ==
  ASSUME NEW q \in Seq(Nat), NEW m \in Nat, Increasing(q), \A n \in SeqRange(q) : n < m
  PROVE  Increasing(Append(q, m))
<1> SUFFICES ASSUME NEW i \in 1 .. Len(q) + 1, NEW j \in 1 .. Len(q) + 1, i < j
             PROVE  Append(q, m)[i] < Append(q, m)[j]
  BY DEF Increasing
<1>1. i \in 1 .. Len(q) /\ Append(q, m)[i] = q[i]
  OBVIOUS
<1>2. CASE j \in 1 .. Len(q)
  BY <1>1, <1>2 DEF Increasing
<1>3. CASE j = Len(q) + 1
  BY <1>1, <1>3 DEF SeqRange
<1> QED
  BY <1>2, <1>3

LEMMA IncreasingTail ==
  ASSUME NEW q \in Seq(Nat), Increasing(q), q # <<>>
  PROVE  Increasing(Tail(q)) /\ Below({Head(q)}, SeqRange(Tail(q)))
<1>1. /\ Len(q) \in Nat \ {0} /\ Len(Tail(q)) = Len(q) - 1 /\ Head(q) = q[1]
      /\ \A n \in 1 .. Len(q) - 1 : Tail(q)[n] = q[n + 1] /\ n + 1 \in 1 .. Len(q)
  OBVIOUS
<1>2. ASSUME NEW i \in 1 .. Len(q) - 1, NEW j \in 1 .. Len(q) - 1, i < j
      PROVE  Tail(q)[i] < Tail(q)[j]
  <2>1. i + 1 \in 1 .. Len(q) /\ j + 1 \in 1 .. Len(q) /\ i + 1 < j + 1
    BY <1>1, <1>2
  <2> QED
    BY <1>1, <2>1 DEF Increasing
<1>3. ASSUME NEW n \in 1 .. Len(q) - 1 PROVE q[1] < Tail(q)[n]
  <2>1. 1 \in 1 .. Len(q) /\ n + 1 \in 1 .. Len(q) /\ 1 < n + 1
    BY <1>1
  <2> QED
    BY <1>1, <2>1 DEF Increasing
<1> QED
  BY <1>1, <1>2, <1>3 DEF Increasing, Below, SeqRange

-----------------------------------------------------------------------------
(* Type correctness, and what a handler and its goroutine know.            *)

Shapes == \A h \in Conns : ConnShape(h)

\* A message that is still to be given out.
LEMMA NextTyped ==
  ASSUME nextMsg \in Messages
  PROVE  nextMsg + 1 \in 1 .. MaxMessages + 1
BY Constants DEF Messages

LEMMA NextNat ==
  ASSUME TypeOK
  PROVE  nextMsg \in Nat \ {0}
<1>1. nextMsg \in 1 .. MaxMessages + 1
  BY DEF TypeOK
<1> QED
  BY <1>1, Constants

LEMMA GivenOut ==
  ASSUME NEW n \in 1 .. MaxMessages + 1, NEW k \in 1 .. MaxMessages + 1, NEW m \in 1 .. k - 1
  PROVE  m \in 1 .. MaxMessages /\ m < k /\ (m < n => m \in 1 .. n - 1)
BY Constants

LEMMA NoUser == None \notin Users
BY GatewayAssumption

LEMMA LeftTyped ==
  ASSUME NEW n \in 0 .. MaxReceivers, n > 0
  PROVE  n - 1 \in 0 .. MaxReceivers /\ (n # 1 => n - 1 > 0)
BY Constants

LEMMA Positive ==
  ASSUME NEW n \in 0 .. MaxReceivers, n # 0
  PROVE  n > 0
BY Constants

LEMMA CrashesTyped ==
  ASSUME crashes \in 0 .. MaxCrashes, crashes < MaxCrashes
  PROVE  crashes + 1 \in 0 .. MaxCrashes
BY Constants

LEMMA TypeInit == Init => TypeOK
BY Constants DEF Init, TypeOK

LEMMA AppendTyped ==
  ASSUME NEW S, NEW q \in Seq(S), NEW m \in S
  PROVE  Append(q, m) \in Seq(S)
OBVIOUS

LEMMA EmptyTyped == \A S : <<>> \in Seq(S)
OBVIOUS

LEMMA OneTyped ==
  ASSUME NEW S, NEW m \in S
  PROVE  <<m>> \in Seq(S)
OBVIOUS

LEMMA TypeStep ==
  ASSUME TypeOK, Shapes, [Next]_vars
  PROVE  TypeOK'
<1> DEFINE Labels == {"idle", "set online", "read list", "write offline", "delete list",
                      "start", "loop", "forward", "reply", "set offline", "close", "done"}
           GoLabels == {"none", "connect", "recv", "write", "done"}
<1>1. ASSUME NEW h \in Conns, Connect(h) PROVE TypeOK'
  <2>1. pc' \in [Conns -> Labels]
    BY <1>1 DEF Connect, TypeOK, Goto
  <2>2. userID' \in [Conns -> Users \cup {None}]
    BY <1>1 DEF Connect, TypeOK, Goto
  <2>3. doneBefore' \in [Conns -> SUBSET Conns]
    BY <1>1 DEF Connect, TypeOK, Goto
  <2>4. UNCHANGED <<isOnline, list, offlineMessages, left, goPc, resp, cancelled, stream, peer,
                    written, nextMsg, to, atRisk, presenceFault, drainFault, crashes>>
    BY <1>1 DEF Connect, handlerVars, goVars, chatVars, historyVars, Goto
  <2> QED
    BY <2>1, <2>2, <2>3, <2>4 DEF TypeOK
<1>2. ASSUME NEW h \in Conns, SetOnline(h) PROVE TypeOK'
  <2>1. userID[h] \in Users
    BY <1>2 DEF SetOnline, Shapes, ConnShape
  <2>2. pc' \in [Conns -> Labels]
    BY <1>2, ZenonT(60) DEF SetOnline, TypeOK, Goto
  <2>3. isOnline' \in [Users -> BOOLEAN]
    BY <1>2 DEF SetOnline, TypeOK, Goto
  <2>4. presenceFault' \subseteq Users
    BY <1>2, <2>1 DEF SetOnline, TypeOK, Goto
  <2>5. UNCHANGED <<list, userID, offlineMessages, left, goPc, resp, cancelled, stream, peer,
                    written, nextMsg, to, atRisk, drainFault, doneBefore, crashes>>
    BY <1>2 DEF SetOnline, handlerVars, goVars, chatVars, historyVars, Goto
  <2> QED
    BY <2>2, <2>3, <2>4, <2>5 DEF TypeOK
<1>3. ASSUME NEW h \in Conns, ReadList(h) PROVE TypeOK'
  <2>1. userID[h] \in Users /\ list[userID[h]] \in Seq(Messages)
    BY <1>3 DEF ReadList, Shapes, ConnShape, TypeOK
  <2>2. pc' \in [Conns -> Labels]
    BY <1>3, ZenonT(60) DEF ReadList, TypeOK, Goto
  <2>3. offlineMessages' \in [Conns -> Seq(Messages)]
    BY <1>3, <2>1 DEF ReadList, TypeOK, Goto
  <2>4. drainFault' \subseteq Users
    <3>1. drainFault' = drainFault \/ drainFault' = drainFault \cup {userID[h]}
      BY <1>3 DEF ReadList
    <3> QED
      BY <2>1, <3>1 DEF TypeOK
  <2>5. UNCHANGED <<isOnline, list, userID, left, goPc, resp, cancelled, stream, peer, written,
                    nextMsg, to, atRisk, presenceFault, doneBefore, crashes>>
    BY <1>3 DEF ReadList, handlerVars, goVars, chatVars, historyVars, Goto
  <2> QED
    BY <2>2, <2>3, <2>4, <2>5 DEF TypeOK
<1>4. ASSUME NEW h \in Conns, WriteOffline(h) PROVE TypeOK'
  <2>1. offlineMessages[h] \in Seq(Messages) /\ offlineMessages[h] # <<>> /\ written[h] \in Seq(Messages)
    BY <1>4 DEF WriteOffline, Shapes, ConnShape, TypeOK
  <2>2. Head(offlineMessages[h]) \in Messages /\ Tail(offlineMessages[h]) \in Seq(Messages)
    BY <2>1, RangeTail
  <2>3. Append(written[h], Head(offlineMessages[h])) \in Seq(Messages)
    BY <2>1, <2>2, AppendTyped
  <2>4. pc' \in [Conns -> Labels]
    BY <1>4 DEF WriteOffline, TypeOK, Goto
  <2>5. offlineMessages' \in [Conns -> Seq(Messages)]
    BY <1>4, <2>2 DEF WriteOffline, TypeOK, Goto
  <2>6. written' \in [Conns -> Seq(Messages)]
    BY <1>4, <2>3 DEF WriteOffline, TypeOK, Goto
  <2>7. atRisk' \subseteq Messages
    BY <1>4, <2>2 DEF WriteOffline, TypeOK, Goto
  <2>8. UNCHANGED <<isOnline, list, userID, left, goPc, resp, cancelled, stream, peer, nextMsg,
                    to, presenceFault, drainFault, doneBefore, crashes>>
    BY <1>4 DEF WriteOffline, handlerVars, goVars, chatVars, historyVars, Goto
  <2> QED
    BY <2>4, <2>5, <2>6, <2>7, <2>8 DEF TypeOK
<1>5. ASSUME NEW h \in Conns, DeleteList(h) PROVE TypeOK'
  <2>1. userID[h] \in Users
    BY <1>5 DEF DeleteList, Shapes, ConnShape
  <2>2. pc' \in [Conns -> Labels]
    BY <1>5 DEF DeleteList, TypeOK, Goto
  <2>3. list' \in [Users -> Seq(Messages)]
    <3>1. list' = list \/ list' = [list EXCEPT ![userID[h]] = <<>>]
      BY <1>5 DEF DeleteList
    <3>2. <<>> \in Seq(Messages) /\ list \in [Users -> Seq(Messages)]
      BY EmptyTyped DEF TypeOK
    <3> QED
      BY <2>1, <3>1, <3>2
  <2>4. drainFault' \subseteq Users
    BY <1>5, <2>1 DEF DeleteList, TypeOK, Goto
  <2>5. UNCHANGED <<isOnline, userID, offlineMessages, left, goPc, resp, cancelled, stream,
                    peer, written, nextMsg, to, atRisk, presenceFault, doneBefore, crashes>>
    BY <1>5 DEF DeleteList, handlerVars, goVars, chatVars, historyVars, Goto
  <2> QED
    BY <2>2, <2>3, <2>4, <2>5 DEF TypeOK
<1>6. ASSUME NEW h \in Conns, Start(h) PROVE TypeOK'
  <2>1. pc' \in [Conns -> Labels]
    BY <1>6 DEF Start, TypeOK, Goto
  <2>2. goPc' \in [Conns -> GoLabels]
    BY <1>6 DEF Start, TypeOK, Goto
  <2>3. UNCHANGED <<isOnline, list, userID, offlineMessages, left, resp, cancelled, stream,
                    peer, written, nextMsg, to, atRisk, presenceFault, drainFault, doneBefore,
                    crashes>>
    BY <1>6 DEF Start, handlerVars, goVars, chatVars, historyVars, Goto
  <2> QED
    BY <2>1, <2>2, <2>3 DEF TypeOK
<1>7. ASSUME NEW h \in Conns, ReadFrame(h) PROVE TypeOK'
  <2>1. pc' \in [Conns -> Labels]
    <3>1. pc' = [pc EXCEPT ![h] = "reply"] \/ pc' = [pc EXCEPT ![h] = "forward"]
      BY <1>7 DEF ReadFrame, Goto
    <3> QED
      BY <3>1 DEF TypeOK
  <2>2. left' \in [Conns -> 0 .. MaxReceivers]
    BY <1>7 DEF ReadFrame, TypeOK, Goto
  <2>3. UNCHANGED <<isOnline, list, userID, offlineMessages, goPc, resp, cancelled, stream,
                    peer, written, nextMsg, to, atRisk, presenceFault, drainFault, doneBefore,
                    crashes>>
    BY <1>7 DEF ReadFrame, handlerVars, goVars, chatVars, historyVars, Goto
  <2> QED
    BY <2>1, <2>2, <2>3 DEF TypeOK
<1>8. ASSUME NEW h \in Conns, Forward(h) PROVE TypeOK'
  <2>1. left[h] - 1 \in 0 .. MaxReceivers
    BY <1>8, LeftTyped DEF Forward, Shapes, ConnShape, TypeOK
  <2>2. pc' \in [Conns -> Labels]
    BY <1>8 DEF Forward, TypeOK, Goto
  <2>3. left' \in [Conns -> 0 .. MaxReceivers]
    BY <1>8, <2>1 DEF Forward, TypeOK, Goto
  <2>4. UNCHANGED <<isOnline, list, userID, offlineMessages, goPc, resp, cancelled, stream,
                    peer, written, nextMsg, to, atRisk, presenceFault, drainFault, doneBefore,
                    crashes>>
    BY <1>8 DEF Forward, handlerVars, goVars, chatVars, historyVars, Goto
  <2> QED
    BY <2>2, <2>3, <2>4 DEF TypeOK
<1>9. ASSUME NEW h \in Conns, Reply(h) PROVE TypeOK'
  <2>1. pc' \in [Conns -> Labels]
    BY <1>9 DEF Reply, TypeOK, Goto
  <2>2. UNCHANGED <<isOnline, list, userID, offlineMessages, left, goPc, resp, cancelled,
                    stream, peer, written, nextMsg, to, atRisk, presenceFault, drainFault,
                    doneBefore, crashes>>
    BY <1>9 DEF Reply, handlerVars, goVars, chatVars, historyVars, Goto
  <2> QED
    BY <2>1, <2>2 DEF TypeOK
<1>10. ASSUME NEW h \in Conns, ReadFails(h) PROVE TypeOK'
  <2>1. pc' \in [Conns -> Labels]
    BY <1>10 DEF ReadFails, TypeOK, Goto
  <2>2. cancelled' \in [Conns -> BOOLEAN]
    BY <1>10 DEF ReadFails, TypeOK, Goto
  <2>3. UNCHANGED <<isOnline, list, userID, offlineMessages, left, goPc, resp, stream, peer,
                    written, nextMsg, to, atRisk, presenceFault, drainFault, doneBefore,
                    crashes>>
    BY <1>10 DEF ReadFails, handlerVars, goVars, chatVars, historyVars, Goto
  <2> QED
    BY <2>1, <2>2, <2>3 DEF TypeOK
<1>11. ASSUME NEW h \in Conns, SetOffline(h) PROVE TypeOK'
  <2>1. userID[h] \in Users
    BY <1>11 DEF SetOffline, Shapes, ConnShape
  <2>2. pc' \in [Conns -> Labels]
    BY <1>11 DEF SetOffline, TypeOK, Goto
  <2>3. isOnline' \in [Users -> BOOLEAN]
    BY <1>11 DEF SetOffline, TypeOK, Goto
  <2>4. presenceFault' \subseteq Users
    BY <1>11, <2>1 DEF SetOffline, TypeOK, Goto
  <2>5. UNCHANGED <<list, userID, offlineMessages, left, goPc, resp, cancelled, stream, peer,
                    written, nextMsg, to, atRisk, drainFault, doneBefore, crashes>>
    BY <1>11 DEF SetOffline, handlerVars, goVars, chatVars, historyVars, Goto
  <2> QED
    BY <2>2, <2>3, <2>4, <2>5 DEF TypeOK
<1>12. ASSUME NEW h \in Conns, Close(h) PROVE TypeOK'
  <2>1. pc' \in [Conns -> Labels]
    BY <1>12 DEF Close, TypeOK, Goto
  <2>2. peer' \in [Conns -> {"up", "gone"}]
    BY <1>12 DEF Close, TypeOK, Goto
  <2>3. UNCHANGED <<isOnline, list, userID, offlineMessages, left, goPc, resp, cancelled,
                    stream, written, nextMsg, to, atRisk, presenceFault, drainFault, doneBefore,
                    crashes>>
    BY <1>12 DEF Close, handlerVars, goVars, chatVars, historyVars, Goto
  <2> QED
    BY <2>1, <2>2, <2>3 DEF TypeOK
<1>13. ASSUME NEW h \in Conns, GoConnect(h) PROVE TypeOK'
  <2>1. goPc' \in [Conns -> GoLabels]
    BY <1>13, ZenonT(60) DEF GoConnect, TypeOK, Goto
  <2>2. UNCHANGED <<isOnline, list, pc, userID, offlineMessages, left, resp, cancelled, stream,
                    peer, written, nextMsg, to, atRisk, presenceFault, drainFault, doneBefore,
                    crashes>>
    BY <1>13 DEF GoConnect, handlerVars, goVars, chatVars, historyVars, Goto
  <2> QED
    BY <2>1, <2>2 DEF TypeOK
<1>14. ASSUME NEW h \in Conns, GoRecv(h) PROVE TypeOK'
  <2>1. stream[h] \in Seq(Messages) /\ stream[h] # <<>>
    BY <1>14 DEF GoRecv, TypeOK
  <2>2. Head(stream[h]) \in Messages /\ Tail(stream[h]) \in Seq(Messages)
    BY <2>1, RangeTail
  <2>3. <<Head(stream[h])>> \in Seq(Messages)
    BY <2>2, OneTyped
  <2>4. resp' \in [Conns -> Seq(Messages)]
    BY <1>14, <2>3 DEF GoRecv, TypeOK, Goto
  <2>5. stream' \in [Conns -> Seq(Messages)]
    BY <1>14, <2>2 DEF GoRecv, TypeOK, Goto
  <2>6. goPc' \in [Conns -> GoLabels]
    BY <1>14 DEF GoRecv, TypeOK, Goto
  <2>7. UNCHANGED <<isOnline, list, pc, userID, offlineMessages, left, cancelled, peer, written,
                    nextMsg, to, atRisk, presenceFault, drainFault, doneBefore, crashes>>
    BY <1>14 DEF GoRecv, handlerVars, goVars, chatVars, historyVars, Goto
  <2> QED
    BY <2>4, <2>5, <2>6, <2>7 DEF TypeOK
<1>15. ASSUME NEW h \in Conns, GoRecvFails(h) PROVE TypeOK'
  <2>1. SeqRange(stream[h]) \subseteq Messages
    BY <1>15, RangeTyped DEF TypeOK
  <2>2. cancelled' \in [Conns -> BOOLEAN]
    BY <1>15 DEF GoRecvFails, GoEnds, TypeOK, Goto
  <2>3. goPc' \in [Conns -> GoLabels]
    BY <1>15 DEF GoRecvFails, GoEnds, TypeOK, Goto
  <2>4. stream' \in [Conns -> Seq(Messages)]
    BY <1>15, EmptyTyped DEF GoRecvFails, GoEnds, TypeOK, Goto
  <2>5. atRisk' \subseteq Messages
    BY <1>15, <2>1 DEF GoRecvFails, GoEnds, TypeOK, Goto
  <2>6. UNCHANGED <<isOnline, list, pc, userID, offlineMessages, left, resp, peer, written,
                    nextMsg, to, presenceFault, drainFault, doneBefore, crashes>>
    BY <1>15 DEF GoRecvFails, GoEnds, handlerVars, goVars, chatVars, historyVars, Goto
  <2> QED
    BY <2>2, <2>3, <2>4, <2>5, <2>6 DEF TypeOK
<1>16. ASSUME NEW h \in Conns, GoWrite(h) PROVE TypeOK'
  <2>1. SeqRange(resp[h]) \subseteq Messages /\ SeqRange(stream[h]) \subseteq Messages
    BY <1>16, RangeTyped DEF TypeOK
  <2>2. resp[h] \in Seq(Messages) /\ Len(resp[h]) = 1 /\ written[h] \in Seq(Messages)
    BY <1>16 DEF GoWrite, Shapes, ConnShape, TypeOK
  <2>3. Head(resp[h]) \in Messages
    BY <2>2, RangeSingle
  <2>4. Append(written[h], Head(resp[h])) \in Seq(Messages)
    BY <2>2, <2>3, AppendTyped
  <2>5. resp' \in [Conns -> Seq(Messages)]
    BY <1>16, EmptyTyped DEF GoWrite, GoEnds, TypeOK, Goto
  <2>6. written' \in [Conns -> Seq(Messages)]
    BY <1>16, <2>4 DEF GoWrite, GoEnds, TypeOK, Goto
  <2>7. goPc' \in [Conns -> GoLabels]
    BY <1>16 DEF GoWrite, GoEnds, TypeOK, Goto
  <2>8. cancelled' \in [Conns -> BOOLEAN]
    BY <1>16 DEF GoWrite, GoEnds, TypeOK, Goto
  <2>9. stream' \in [Conns -> Seq(Messages)]
    <3>1. stream' = stream \/ stream' = [stream EXCEPT ![h] = <<>>]
      BY <1>16 DEF GoWrite, GoEnds
    <3>2. <<>> \in Seq(Messages) /\ stream \in [Conns -> Seq(Messages)]
      BY EmptyTyped DEF TypeOK
    <3> QED
      BY <3>1, <3>2
  <2>10. atRisk' \subseteq Messages
    BY <1>16, <2>1 DEF GoWrite, GoEnds, TypeOK, Goto
  <2>11. UNCHANGED <<isOnline, list, pc, userID, offlineMessages, left, peer, nextMsg, to,
                    presenceFault, drainFault, doneBefore, crashes>>
    BY <1>16 DEF GoWrite, GoEnds, handlerVars, goVars, chatVars, historyVars, Goto
  <2> QED
    BY <2>5, <2>6, <2>7, <2>8, <2>9, <2>10, <2>11 DEF TypeOK
<1>17. ASSUME NEW h \in Conns, HandlerPanics(h) PROVE TypeOK'
  <2>1. pc' \in [Conns -> Labels]
    BY <1>17 DEF HandlerPanics, TypeOK, Goto
  <2>2. cancelled' \in [Conns -> BOOLEAN]
    BY <1>17 DEF HandlerPanics, TypeOK, Goto
  <2>3. UNCHANGED <<isOnline, list, userID, offlineMessages, left, goPc, resp, stream, peer,
                    written, nextMsg, to, atRisk, presenceFault, drainFault, doneBefore,
                    crashes>>
    BY <1>17 DEF HandlerPanics, handlerVars, goVars, chatVars, historyVars, Goto
  <2> QED
    BY <2>1, <2>2, <2>3 DEF TypeOK
<1>18. ASSUME NEW h \in Conns, SendOnStream(h) PROVE TypeOK'
  <2>1. nextMsg \in Messages /\ nextMsg + 1 \in 1 .. MaxMessages + 1
    BY <1>18, NextTyped DEF SendOnStream, NewMessage, TypeOK
  <2>2. stream[h] \in Seq(Messages)
    BY <1>18 DEF TypeOK
  <2>3. Append(stream[h], nextMsg) \in Seq(Messages)
    BY <2>1, <2>2, AppendTyped
  <2>4. nextMsg' \in 1 .. MaxMessages + 1
    BY <1>18, <2>1 DEF SendOnStream, NewMessage, TypeOK, Goto
  <2>5. to' \in [Messages -> Users \cup {None}]
    BY <1>18 DEF SendOnStream, NewMessage, TypeOK, Goto
  <2>6. stream' \in [Conns -> Seq(Messages)]
    BY <1>18, <2>3 DEF SendOnStream, NewMessage, TypeOK, Goto
  <2>7. UNCHANGED <<isOnline, list, pc, userID, offlineMessages, left, goPc, resp, cancelled,
                    peer, written, atRisk, presenceFault, drainFault, doneBefore, crashes>>
    BY <1>18 DEF SendOnStream, NewMessage, handlerVars, goVars, chatVars, historyVars, Goto
  <2> QED
    BY <2>4, <2>5, <2>6, <2>7 DEF TypeOK
<1>19. ASSUME NEW h \in Conns, ClientGone(h) PROVE TypeOK'
  <2>1. peer' \in [Conns -> {"up", "gone"}]
    BY <1>19 DEF ClientGone, TypeOK, Goto
  <2>2. UNCHANGED <<isOnline, list, pc, userID, offlineMessages, left, goPc, resp, cancelled,
                    stream, written, nextMsg, to, atRisk, presenceFault, drainFault, doneBefore,
                    crashes>>
    BY <1>19 DEF ClientGone, handlerVars, goVars, chatVars, historyVars, Goto
  <2> QED
    BY <2>1, <2>2 DEF TypeOK
<1>20. ASSUME NEW u \in Users, QueueOffline(u) PROVE TypeOK'
  <2>1. nextMsg \in Messages /\ nextMsg + 1 \in 1 .. MaxMessages + 1
    BY <1>20, NextTyped DEF QueueOffline, NewMessage, TypeOK
  <2>2. list[u] \in Seq(Messages)
    BY <1>20 DEF TypeOK
  <2>3. Append(list[u], nextMsg) \in Seq(Messages)
    BY <2>1, <2>2, AppendTyped
  <2>4. nextMsg' \in 1 .. MaxMessages + 1
    BY <1>20, <2>1 DEF QueueOffline, NewMessage, TypeOK, Goto
  <2>5. to' \in [Messages -> Users \cup {None}]
    BY <1>20 DEF QueueOffline, NewMessage, TypeOK, Goto
  <2>6. list' \in [Users -> Seq(Messages)]
    BY <1>20, <2>3 DEF QueueOffline, NewMessage, TypeOK, Goto
  <2>7. atRisk' \subseteq Messages
    BY <1>20, <2>1 DEF QueueOffline, NewMessage, TypeOK, Goto
  <2>8. UNCHANGED <<isOnline, pc, userID, offlineMessages, left, goPc, resp, cancelled, stream,
                    peer, written, presenceFault, drainFault, doneBefore, crashes>>
    BY <1>20 DEF QueueOffline, NewMessage, handlerVars, goVars, chatVars, historyVars, Goto
  <2> QED
    BY <2>4, <2>5, <2>6, <2>7, <2>8 DEF TypeOK
<1>21. ASSUME Crash PROVE TypeOK'
  <2>1. \A h \in Conns : SeqRange(stream[h]) \subseteq Messages /\ SeqRange(resp[h]) \subseteq Messages
    BY <1>21, RangeTyped DEF TypeOK
  <2>2. \A h \in Conns : Started(h) => userID[h] \in Users
    BY <1>21 DEF Started, Shapes, ConnShape
  <2>3. <<>> \in Seq(Messages)
    OBVIOUS
  <2>4. crashes' \in 0 .. MaxCrashes
    BY <1>21, CrashesTyped DEF Crash, TypeOK
  <2>5. pc' \in [Conns -> Labels]
    BY <1>21 DEF Crash, TypeOK, Goto
  <2>6. peer' \in [Conns -> {"up", "gone"}]
    BY <1>21 DEF Crash, TypeOK, Goto
  <2>7. goPc' \in [Conns -> GoLabels]
    BY <1>21 DEF Crash, TypeOK, Goto
  <2>8. cancelled' \in [Conns -> BOOLEAN]
    BY <1>21 DEF Crash, TypeOK, Goto
  <2>9. atRisk' \subseteq Messages
    BY <1>21, <2>1 DEF Crash, TypeOK, Goto
  <2>10. stream' \in [Conns -> Seq(Messages)]
    BY <1>21, <2>3 DEF Crash, TypeOK, Goto
  <2>11. resp' \in [Conns -> Seq(Messages)]
    BY <1>21, <2>3 DEF Crash, TypeOK, Goto
  <2>12. presenceFault' \subseteq Users
    <3>1. presenceFault' = presenceFault \cup {userID[h] : h \in {g \in Conns : Started(g)}}
      BY <1>21 DEF Crash
    <3>2. presenceFault \subseteq Users
      BY DEF TypeOK
    <3> QED
      BY <2>2, <3>1, <3>2
  <2>13. drainFault' \subseteq Users
    BY <1>21 DEF Crash, TypeOK, Goto
  <2>14. UNCHANGED <<isOnline, list, userID, offlineMessages, left, written, nextMsg, to,
                    doneBefore>>
    BY <1>21 DEF Crash, handlerVars, goVars, chatVars, historyVars, Goto
  <2> QED
    BY <2>4, <2>5, <2>6, <2>7, <2>8, <2>9, <2>10, <2>11, <2>12, <2>13, <2>14 DEF TypeOK
<1>22. ASSUME UNCHANGED vars PROVE TypeOK'
  BY <1>22 DEF vars, TypeOK, handlerVars, goVars, chatVars, historyVars
<1> QED
  BY <1>1, <1>2, <1>3, <1>4, <1>5, <1>6, <1>7, <1>8, <1>9, <1>10, <1>11, <1>12, <1>13, <1>14, <1>15, <1>16, <1>17, <1>18, <1>19, <1>20, <1>21, <1>22
  DEF Next, HandlerStep, GoStep

\* What a step says of a connection it is not about.
LocalsKept(g) ==
  /\ pc'[g] = pc[g] /\ userID'[g] = userID[g] /\ goPc'[g] = goPc[g]
  /\ written'[g] = written[g] /\ offlineMessages'[g] = offlineMessages[g]
  /\ left'[g] = left[g] /\ stream'[g] = stream[g] /\ resp'[g] = resp[g]
  /\ doneBefore'[g] = doneBefore[g]

ConnStep(h) == HandlerStep(h) \/ GoStep(h) \/ HandlerPanics(h) \/ SendOnStream(h) \/ ClientGone(h)

LEMMA Steps ==
  ASSUME [Next]_vars
  PROVE  \/ \E h \in Conns : ConnStep(h)
         \/ \E u \in Users : QueueOffline(u)
         \/ Crash
         \/ UNCHANGED vars
BY DEF Next, ConnStep

LEMMA OthersKept ==
  ASSUME TypeOK, NEW h \in Conns, ConnStep(h), NEW g \in Conns, g # h
  PROVE  LocalsKept(g)
<1>1. /\ DOMAIN pc = Conns /\ DOMAIN userID = Conns /\ DOMAIN goPc = Conns
      /\ DOMAIN written = Conns /\ DOMAIN offlineMessages = Conns /\ DOMAIN left = Conns
      /\ DOMAIN stream = Conns /\ DOMAIN resp = Conns /\ DOMAIN doneBefore = Conns
  BY DEF TypeOK
<1> USE <1>1 DEF LocalsKept, Goto, handlerVars, goVars
<1>2. CASE Connect(h)
  BY <1>2 DEF Connect
<1>3. CASE SetOnline(h)
  BY <1>3 DEF SetOnline
<1>4. CASE ReadList(h)
  BY <1>4 DEF ReadList
<1>5. CASE WriteOffline(h)
  BY <1>5 DEF WriteOffline
<1>6. CASE DeleteList(h)
  BY <1>6 DEF DeleteList
<1>7. CASE Start(h)
  BY <1>7 DEF Start
<1>8. CASE ReadFrame(h)
  BY <1>8 DEF ReadFrame
<1>9. CASE Forward(h)
  BY <1>9 DEF Forward
<1>10. CASE Reply(h)
  BY <1>10 DEF Reply
<1>11. CASE ReadFails(h)
  BY <1>11 DEF ReadFails
<1>12. CASE SetOffline(h)
  BY <1>12 DEF SetOffline
<1>13. CASE Close(h)
  BY <1>13 DEF Close
<1>14. CASE GoConnect(h)
  BY <1>14 DEF GoConnect
<1>15. CASE GoRecv(h)
  BY <1>15 DEF GoRecv
<1>16. CASE GoRecvFails(h)
  BY <1>16 DEF GoRecvFails, GoEnds
<1>17. CASE GoWrite(h)
  BY <1>17 DEF GoWrite, GoEnds
<1>18. CASE HandlerPanics(h)
  BY <1>18 DEF HandlerPanics
<1>19. CASE SendOnStream(h)
  BY <1>19 DEF SendOnStream
<1>20. CASE ClientGone(h)
  BY <1>20 DEF ClientGone
<1> QED
  BY <1>2, <1>3, <1>4, <1>5, <1>6, <1>7, <1>8, <1>9, <1>10, <1>11, <1>12, <1>13, <1>14, <1>15, <1>16, <1>17, <1>18, <1>19, <1>20
  DEF ConnStep, HandlerStep, GoStep

LEMMA ElseKept ==
  ASSUME (\E u \in Users : QueueOffline(u)) \/ UNCHANGED vars, NEW g \in Conns
  PROVE  LocalsKept(g)
BY DEF LocalsKept, QueueOffline, vars, handlerVars, goVars

\* A connection that is over stays so.
LEMMA DoneKept ==
  ASSUME TypeOK, [Next]_vars, NEW g \in Conns, pc[g] = "done"
  PROVE  pc'[g] = "done"
<1>1. DOMAIN pc = Conns
  BY DEF TypeOK
<1>2. ASSUME ConnStep(g) PROVE pc'[g] = "done"
  BY <1>1, <1>2
  DEF ConnStep, HandlerStep, GoStep, HandlerPanics, Colliding, SendOnStream, ClientGone, Started,
      Connect, SetOnline, ReadList, WriteOffline, DeleteList, Start, ReadFrame, Forward, Reply,
      ReadFails, SetOffline, Close, GoConnect, GoRecv, GoRecvFails, GoWrite, GoEnds, Goto,
      handlerVars, goVars
<1>3. ASSUME Crash PROVE pc'[g] = "done"
  BY <1>3 DEF Crash, Started
<1>4. ASSUME NEW h \in Conns, ConnStep(h), h # g PROVE pc'[g] = "done"
  BY <1>4, OthersKept DEF LocalsKept
<1>5. ASSUME (\E u \in Users : QueueOffline(u)) \/ UNCHANGED vars PROVE pc'[g] = "done"
  BY <1>5, ElseKept DEF LocalsKept
<1> QED
  BY <1>2, <1>3, <1>4, <1>5, Steps

LEMMA ShapeKept ==
  ASSUME TypeOK, [Next]_vars, NEW g \in Conns, ConnShape(g), LocalsKept(g)
  PROVE  ConnShape(g)'
<1>1. doneBefore'[g] \subseteq {f \in Conns : pc'[f] = "done"}
  BY DoneKept DEF ConnShape, LocalsKept
<1> QED
  BY <1>1 DEF ConnShape, LocalsKept, BeforeGo

LEMMA OwnShape ==
  ASSUME TypeOK, [Next]_vars, NEW h \in Conns, ConnShape(h), ConnStep(h)
  PROVE  ConnShape(h)'
<1>1. /\ DOMAIN pc = Conns /\ DOMAIN userID = Conns /\ DOMAIN goPc = Conns
      /\ DOMAIN written = Conns /\ DOMAIN offlineMessages = Conns /\ DOMAIN left = Conns
      /\ DOMAIN stream = Conns /\ DOMAIN resp = Conns /\ DOMAIN doneBefore = Conns
  BY DEF TypeOK
<1>2. \A f \in Conns : pc[f] = "done" => pc'[f] = "done"
  BY DoneKept
<1> USE <1>1, <1>2 DEF ConnShape, BeforeGo, Goto, handlerVars, goVars
<1>3. CASE Connect(h)
  BY <1>3 DEF Connect
<1>4. CASE SetOnline(h)
  BY <1>4 DEF SetOnline
<1>5. CASE ReadList(h)
  BY <1>5 DEF ReadList
<1>6. CASE WriteOffline(h)
  <2>1. offlineMessages[h] \in Seq(Messages) /\ offlineMessages[h] # <<>>
    BY <1>6 DEF WriteOffline, TypeOK
  <2>2. IF Len(offlineMessages[h]) = 1 THEN Tail(offlineMessages[h]) = <<>>
                                       ELSE Tail(offlineMessages[h]) # <<>>
    BY <2>1, TailEmpty
  <2> QED
    BY <1>6, <2>2 DEF WriteOffline
<1>7. CASE DeleteList(h)
  BY <1>7 DEF DeleteList
<1>8. CASE Start(h)
  BY <1>8 DEF Start
<1>9. CASE ReadFrame(h)
  BY <1>9 DEF ReadFrame
<1>10. CASE Forward(h)
  <2>1. left[h] \in 0 .. MaxReceivers /\ left[h] > 0
    BY <1>10 DEF Forward, TypeOK
  <2>2. left[h] # 1 => left[h] - 1 > 0
    BY <2>1, LeftTyped
  <2> QED
    BY <1>10, <2>2 DEF Forward
<1>11. CASE Reply(h)
  <2>1. left[h] \in 0 .. MaxReceivers
    BY DEF TypeOK
  <2>2. left[h] # 0 => left[h] > 0
    BY <2>1, Positive
  <2> QED
    BY <1>11, <2>2 DEF Reply
<1>12. CASE ReadFails(h)
  BY <1>12 DEF ReadFails
<1>13. CASE SetOffline(h)
  BY <1>13 DEF SetOffline
<1>14. CASE Close(h)
  BY <1>14 DEF Close
<1>15. CASE GoConnect(h)
  BY <1>15 DEF GoConnect
<1>16. CASE GoRecv(h)
  BY <1>16 DEF GoRecv
<1>17. CASE GoRecvFails(h)
  BY <1>17 DEF GoRecvFails, GoEnds
<1>18. CASE GoWrite(h)
  BY <1>18 DEF GoWrite, GoEnds
<1>19. CASE HandlerPanics(h)
  BY <1>19 DEF HandlerPanics, Colliding
<1>20. CASE SendOnStream(h)
  BY <1>20 DEF SendOnStream
<1>21. CASE ClientGone(h)
  BY <1>21 DEF ClientGone, Started
<1> QED
  BY <1>3, <1>4, <1>5, <1>6, <1>7, <1>8, <1>9, <1>10, <1>11, <1>12, <1>13, <1>14, <1>15, <1>16, <1>17, <1>18, <1>19, <1>20, <1>21
  DEF ConnStep, HandlerStep, GoStep

LEMMA ShapesStep ==
  ASSUME TypeOK, Shapes, [Next]_vars
  PROVE  Shapes'
<1> SUFFICES ASSUME NEW g \in Conns PROVE ConnShape(g)'
  BY DEF Shapes
<1>1. ConnShape(g)
  BY DEF Shapes
<1>2. CASE LocalsKept(g)
  BY <1>1, <1>2, ShapeKept
<1>3. CASE ConnStep(g)
  BY <1>1, <1>3, OwnShape
<1>4. CASE Crash
  <2>1. /\ pc' = [h \in Conns |-> IF Started(h) THEN "done" ELSE pc[h]]
        /\ goPc' = [h \in Conns |-> IF goPc[h] = "none" THEN "none" ELSE "done"]
        /\ stream' = [h \in Conns |-> <<>>] /\ resp' = [h \in Conns |-> <<>>]
        /\ UNCHANGED <<userID, offlineMessages, left, doneBefore, written>>
    BY <1>4 DEF Crash
  <2>2. doneBefore[g] \subseteq {f \in Conns : pc'[f] = "done"}
    BY <1>1, DoneKept DEF ConnShape
  <2> QED
    BY <1>1, <2>1, <2>2 DEF ConnShape, BeforeGo, Started
<1> QED
  BY <1>2, <1>3, <1>4, Steps, OthersKept, ElseKept

-----------------------------------------------------------------------------
(* What a step does to the messages.                                       *)

\* Every other step: of the handler's business and the goroutine's start.
Quiet ==
  /\ UNCHANGED <<list, written, resp, stream, chatVars, atRisk, drainFault, offlineMessages>>
  /\ \A h \in Conns :
       /\ userID'[h] = userID[h] \/ pc[h] = "idle"
       /\ pc'[h] = "write offline" <=> pc[h] = "write offline"
       /\ pc'[h] = "delete list" <=> pc[h] = "delete list"

MessageStep(h) ==
  \/ ReadList(h) \/ WriteOffline(h) \/ DeleteList(h)
  \/ GoRecv(h) \/ GoRecvFails(h) \/ GoWrite(h) \/ SendOnStream(h)

LEMMA Kinds ==
  ASSUME TypeOK, [Next]_vars
  PROVE  \/ Quiet
         \/ \E h \in Conns : MessageStep(h)
         \/ \E u \in Users : QueueOffline(u)
         \/ Crash
<1>1. ASSUME NEW h \in Conns, ConnStep(h), ~MessageStep(h) PROVE Quiet
  <2>1. \A g \in Conns \ {h} : LocalsKept(g)
    BY <1>1, OthersKept
  <2>2. /\ UNCHANGED <<list, written, resp, stream, chatVars, atRisk, drainFault, offlineMessages>>
        /\ userID'[h] = userID[h] \/ pc[h] = "idle"
        /\ pc'[h] = "write offline" <=> pc[h] = "write offline"
        /\ pc'[h] = "delete list" <=> pc[h] = "delete list"
    <3>1. DOMAIN pc = Conns
      BY DEF TypeOK
    <3> USE <3>1 DEF Goto, handlerVars, goVars, historyVars
    <3>2. CASE Connect(h)
      BY <3>2 DEF Connect
    <3>3. CASE SetOnline(h)
      BY <3>3 DEF SetOnline
    <3>4. CASE Start(h)
      BY <3>4 DEF Start
    <3>5. CASE ReadFrame(h)
      BY <3>5 DEF ReadFrame
    <3>6. CASE Forward(h)
      BY <3>6 DEF Forward
    <3>7. CASE Reply(h)
      BY <3>7 DEF Reply
    <3>8. CASE ReadFails(h)
      BY <3>8 DEF ReadFails
    <3>9. CASE SetOffline(h)
      BY <3>9 DEF SetOffline
    <3>10. CASE Close(h)
      BY <3>10 DEF Close
    <3>11. CASE GoConnect(h)
      BY <3>11 DEF GoConnect
    <3>12. CASE HandlerPanics(h)
      BY <3>12 DEF HandlerPanics, Colliding
    <3>13. CASE ClientGone(h)
      BY <3>13 DEF ClientGone
    <3> QED
      BY <1>1, <3>2, <3>3, <3>4, <3>5, <3>6, <3>7, <3>8, <3>9, <3>10, <3>11, <3>12, <3>13
      DEF ConnStep, HandlerStep, GoStep, MessageStep
  <2> QED
    BY <2>1, <2>2 DEF Quiet, LocalsKept
<1>2. ASSUME UNCHANGED vars PROVE Quiet
  BY <1>2 DEF Quiet, vars, handlerVars, chatVars, goVars, historyVars
<1> QED
  BY <1>1, <1>2, Steps

\* What a step that moves messages does to the connection it is about.
LEMMA ReadListEffect ==
  ASSUME TypeOK, NEW h \in Conns, ReadList(h)
  PROVE  /\ UNCHANGED <<list, written, resp, stream, chatVars, atRisk, userID>>
         /\ pc[h] = "read list"
         /\ \/ /\ offlineMessages'[h] = list[userID[h]]
               /\ pc'[h] = IF list[userID[h]] = <<>> THEN "delete list" ELSE "write offline"
               /\ drainFault' = IF Draining(userID[h]) = {} THEN drainFault
                                ELSE drainFault \cup {userID[h]}
            \/ /\ pc'[h] = "start"
               /\ UNCHANGED <<offlineMessages, drainFault>>
BY DEF ReadList, Goto, goVars, TypeOK

LEMMA WriteOfflineEffect ==
  ASSUME TypeOK, NEW h \in Conns, WriteOffline(h)
  PROVE  /\ UNCHANGED <<list, resp, stream, chatVars, userID, drainFault>>
         /\ pc[h] = "write offline"
         /\ offlineMessages'[h] = Tail(offlineMessages[h])
         /\ pc'[h] = IF Len(offlineMessages[h]) = 1 THEN "delete list" ELSE "write offline"
         /\ \/ /\ written'[h] = Append(written[h], Head(offlineMessages[h]))
               /\ UNCHANGED atRisk
            \/ /\ UNCHANGED written
               /\ atRisk' = atRisk \cup {Head(offlineMessages[h])}
BY DEF WriteOffline, Goto, goVars, TypeOK

LEMMA DeleteListEffect ==
  ASSUME TypeOK, Shapes, NEW h \in Conns, DeleteList(h)
  PROVE  /\ UNCHANGED <<written, resp, stream, chatVars, userID, atRisk, offlineMessages>>
         /\ pc[h] = "delete list" /\ pc'[h] = "start"
         /\ userID[h] \in Users
         /\ \/ UNCHANGED list
            \/ list' = [list EXCEPT ![userID[h]] = <<>>]
         /\ drainFault \subseteq drainFault'
         /\ UNCHANGED list => userID[h] \in drainFault' \/ list'[userID[h]] = <<>>
<1>1. userID[h] \in Users /\ DOMAIN list = Users /\ DOMAIN pc = Conns
  BY DEF DeleteList, Shapes, ConnShape, TypeOK
<1> QED
  BY <1>1 DEF DeleteList, Goto, goVars

LEMMA GoRecvEffect ==
  ASSUME TypeOK, Shapes, NEW h \in Conns, GoRecv(h)
  PROVE  /\ UNCHANGED <<list, written, chatVars, pc, userID, atRisk, offlineMessages, drainFault>>
         /\ stream[h] # <<>> /\ resp[h] = <<>>
         /\ resp'[h] = <<Head(stream[h])>> /\ stream'[h] = Tail(stream[h])
<1>1. DOMAIN resp = Conns /\ DOMAIN stream = Conns
  BY DEF TypeOK
<1>2. resp[h] = <<>>
  BY DEF GoRecv, Shapes, ConnShape
<1> QED
  BY <1>1, <1>2 DEF GoRecv, handlerVars, historyVars

LEMMA GoRecvFailsEffect ==
  ASSUME TypeOK, NEW h \in Conns, GoRecvFails(h)
  PROVE  /\ UNCHANGED <<list, written, resp, chatVars, pc, userID, offlineMessages, drainFault>>
         /\ stream'[h] = <<>>
         /\ atRisk' = atRisk \cup SeqRange(stream[h])
BY DEF GoRecvFails, GoEnds, handlerVars, TypeOK

LEMMA GoWriteEffect ==
  ASSUME TypeOK, Shapes, NEW h \in Conns, GoWrite(h)
  PROVE  /\ UNCHANGED <<list, chatVars, pc, userID, offlineMessages, drainFault>>
         /\ pc[h] \notin {"idle"} \cup BeforeGo
         /\ resp[h] \in Seq(Messages) /\ Len(resp[h]) = 1
         /\ resp'[h] = <<>>
         /\ \/ /\ written'[h] = Append(written[h], Head(resp[h]))
               /\ UNCHANGED <<stream, atRisk>>
            \/ /\ UNCHANGED <<stream, written>>
               /\ atRisk' = atRisk \cup SeqRange(resp[h])
            \/ /\ stream'[h] = <<>> /\ UNCHANGED written
               /\ atRisk' = atRisk \cup SeqRange(resp[h]) \cup SeqRange(stream[h])
<1>1. /\ DOMAIN resp = Conns /\ DOMAIN stream = Conns /\ DOMAIN written = Conns
      /\ resp[h] \in Seq(Messages)
  BY DEF TypeOK
<1>2. Len(resp[h]) = 1 /\ pc[h] \notin {"idle"} \cup BeforeGo
  BY DEF GoWrite, Shapes, ConnShape
<1> QED
  BY <1>1, <1>2 DEF GoWrite, GoEnds, handlerVars

LEMMA SendOnStreamEffect ==
  ASSUME TypeOK, Shapes, NEW h \in Conns, SendOnStream(h)
  PROVE  /\ UNCHANGED <<list, written, resp, pc, userID, offlineMessages, drainFault, atRisk>>
         /\ userID[h] \in Users /\ NewMessage(userID[h])
         /\ stream'[h] = Append(stream[h], nextMsg)
         /\ pc[h] \notin {"idle"} \cup BeforeGo
<1>1. DOMAIN stream = Conns
  BY DEF TypeOK
<1>2. userID[h] \in Users /\ pc[h] \notin {"idle"} \cup BeforeGo
  BY DEF SendOnStream, Shapes, ConnShape
<1> QED
  BY <1>1, <1>2 DEF SendOnStream, handlerVars, historyVars

LEMMA QueueOfflineEffect ==
  ASSUME TypeOK, NEW u \in Users, QueueOffline(u)
  PROVE  /\ UNCHANGED <<written, resp, stream, pc, userID, offlineMessages, drainFault>>
         /\ NewMessage(u)
         /\ list' = [list EXCEPT ![u] = Append(list[u], nextMsg)]
         /\ atRisk' = IF Draining(u) = {} THEN atRisk ELSE atRisk \cup {nextMsg}
BY DEF QueueOffline, handlerVars, goVars

LEMMA CrashEffect ==
  ASSUME TypeOK, Crash
  PROVE  /\ UNCHANGED <<list, written, userID, offlineMessages, chatVars>>
         /\ atRisk \subseteq atRisk' /\ drainFault \subseteq drainFault'
         /\ \A h \in Conns :
              /\ SeqRange(stream[h]) \cup SeqRange(resp[h]) \subseteq atRisk'
              /\ stream'[h] = <<>> /\ resp'[h] = <<>>
              /\ pc'[h] \in {"idle", "done"}
         /\ \A u \in Users : Draining(u) # {} => u \in drainFault'
BY ZenonT(60) DEF Crash, Started, TypeOK

-----------------------------------------------------------------------------
(* Where the messages of a state were in the state before.                 *)

LEMMA Grows ==
  ASSUME TypeOK, Shapes, [Next]_vars
  PROVE  atRisk \subseteq atRisk' /\ drainFault \subseteq drainFault'
<1>1. ASSUME NEW h \in Conns, MessageStep(h) PROVE atRisk \subseteq atRisk' /\ drainFault \subseteq drainFault'
  BY <1>1, ReadListEffect, WriteOfflineEffect, DeleteListEffect, GoRecvEffect,
     GoRecvFailsEffect, GoWriteEffect, SendOnStreamEffect DEF MessageStep
<1>2. ASSUME NEW u \in Users, QueueOffline(u) PROVE atRisk \subseteq atRisk' /\ drainFault \subseteq drainFault'
  BY <1>2, QueueOfflineEffect
<1> QED
  BY <1>1, <1>2, Kinds, CrashEffect DEF Quiet

LEMMA KeepsPassed ==
  ASSUME NEW g \in Conns, LocalsKept(g)
  PROVE  Passed(g)' = Passed(g)
BY DEF LocalsKept, Passed, FromList, SeqRange

\* The message that is being given out is the only one that is new.
LEMMA Numbered ==
  ASSUME TypeOK, Shapes, [Next]_vars
  PROVE  \/ UNCHANGED chatVars
         \/ \E u \in Users : QueueOffline(u) /\ NewMessage(u)
         \/ \E h \in Conns : SendOnStream(h) /\ userID[h] \in Users /\ NewMessage(userID[h])
<1>1. ASSUME NEW h \in Conns, MessageStep(h)
      PROVE  UNCHANGED chatVars \/ (SendOnStream(h) /\ userID[h] \in Users /\ NewMessage(userID[h]))
  BY <1>1, ReadListEffect, WriteOfflineEffect, DeleteListEffect, GoRecvEffect,
     GoRecvFailsEffect, GoWriteEffect, SendOnStreamEffect DEF MessageStep
<1> QED
  BY <1>1, Kinds, QueueOfflineEffect, CrashEffect DEF Quiet

LEMMA KnownKept ==
  ASSUME TypeOK, Shapes, [Next]_vars, NEW m \in Messages
  PROVE  /\ m < nextMsg => m < nextMsg' /\ to'[m] = to[m]
         /\ m < nextMsg' => m < nextMsg \/ (m = nextMsg /\ ~UNCHANGED chatVars)
<1>1. nextMsg \in Nat /\ m \in Nat /\ DOMAIN to = Messages
  BY Constants, NextNat DEF TypeOK
<1>2. ASSUME NEW u, NewMessage(u)
      PROVE  nextMsg' = nextMsg + 1 /\ to' = [to EXCEPT ![nextMsg] = u]
  BY <1>2 DEF NewMessage
<1>3. ASSUME NEW u, NewMessage(u) PROVE ~UNCHANGED chatVars
  BY <1>1, <1>2, <1>3 DEF chatVars
<1>4. CASE UNCHANGED chatVars
  BY <1>4 DEF chatVars
<1>5. CASE \E u : NewMessage(u)
  <2>1. PICK u : NewMessage(u)
    BY <1>5
  <2>2. nextMsg' = nextMsg + 1 /\ (m # nextMsg => to'[m] = to[m])
    BY <1>1, <1>2, <2>1
  <2> QED
    BY <1>1, <1>3, <2>1, <2>2
<1> QED
  BY <1>4, <1>5, Numbered

LEMMA NewNumber ==
  ASSUME TypeOK, NEW u \in Users, NewMessage(u)
  PROVE  nextMsg \in Messages /\ nextMsg < nextMsg' /\ to'[nextMsg] = u
<1>1. nextMsg \in Messages /\ nextMsg' = nextMsg + 1 /\ to' = [to EXCEPT ![nextMsg] = u]
  BY DEF NewMessage
<1>2. nextMsg \in Nat /\ DOMAIN to = Messages
  BY NextNat DEF TypeOK
<1> QED
  BY <1>1, <1>2

LEMMA Listed ==
  ASSUME TypeOK, Shapes, [Next]_vars, NEW u \in Users, NEW m \in SeqRange(list'[u])
  PROVE  m \in SeqRange(list[u]) \/ (QueueOffline(u) /\ m = nextMsg)
<1>1. ASSUME NEW h \in Conns, MessageStep(h) PROVE list'[u] = list[u] \/ list'[u] = <<>>
  <2>1. list' = list \/ list' = [list EXCEPT ![userID[h]] = <<>>]
    BY <1>1, ReadListEffect, WriteOfflineEffect, DeleteListEffect, GoRecvEffect,
       GoRecvFailsEffect, GoWriteEffect, SendOnStreamEffect DEF MessageStep
  <2> QED
    BY <2>1 DEF TypeOK
<1>2. ASSUME NEW v \in Users, QueueOffline(v)
      PROVE  m \in SeqRange(list[u]) \/ (QueueOffline(u) /\ m = nextMsg)
  <2>1. list' = [list EXCEPT ![v] = Append(list[v], nextMsg)] /\ nextMsg \in Messages
    BY <1>2, QueueOfflineEffect DEF NewMessage
  <2>2. CASE v = u
    <3>1. list'[u] = Append(list[u], nextMsg) /\ list[u] \in Seq(Messages)
      BY <2>1, <2>2 DEF TypeOK
    <3>2. SeqRange(list'[u]) = SeqRange(list[u]) \cup {nextMsg}
      BY <2>1, <3>1, RangeAppend
    <3> QED
      BY <1>2, <2>2, <3>2
  <2>3. CASE v # u
    BY <2>1, <2>3 DEF TypeOK
  <2> QED
    BY <2>2, <2>3
<1> QED
  BY <1>1, <1>2, Kinds, CrashEffect, RangeEmpty DEF Quiet

LEMMA PassedOwn ==
  ASSUME TypeOK, Shapes, [Next]_vars, NEW h \in Conns, MessageStep(h), NEW m \in Passed(h)'
  PROVE  \/ m \in Passed(h)
         \/ /\ ReadList(h) /\ pc'[h] = "write offline"
            /\ m \in SeqRange(list[userID[h]])
            /\ Draining(userID[h]) = {} \/ userID[h] \in drainFault'
         \/ SendOnStream(h) /\ m = nextMsg
<1> DEFINE W == SeqRange(written'[h])  R == SeqRange(resp'[h])  S == SeqRange(stream'[h])
           F == IF pc'[h] = "write offline" THEN SeqRange(offlineMessages'[h]) ELSE {}
<1>1. m \in W \cup R \cup S \cup F
  BY DEF Passed, FromList, SeqRange
<1>2. /\ written[h] \in Seq(Messages) /\ resp[h] \in Seq(Messages) /\ stream[h] \in Seq(Messages)
      /\ offlineMessages[h] \in Seq(Messages)
  BY DEF TypeOK
<1>3. /\ SeqRange(written[h]) \subseteq Passed(h) /\ SeqRange(resp[h]) \subseteq Passed(h)
      /\ SeqRange(stream[h]) \subseteq Passed(h)
      /\ pc[h] = "write offline" => SeqRange(offlineMessages[h]) \subseteq Passed(h)
  BY DEF Passed, FromList
<1> HIDE DEF W, R, S, F
<1>4. CASE ReadList(h)
  <2>1. W \subseteq Passed(h) /\ R \subseteq Passed(h) /\ S \subseteq Passed(h)
    BY <1>3, <1>4, ReadListEffect DEF W, R, S
  <2>2. m \in F => /\ pc'[h] = "write offline" /\ m \in SeqRange(list[userID[h]])
                   /\ Draining(userID[h]) = {} \/ userID[h] \in drainFault'
    BY <1>4, ReadListEffect DEF F
  <2> QED
    BY <1>1, <1>4, <2>1, <2>2
<1>5. CASE WriteOffline(h)
  <2>1. offlineMessages[h] # <<>> /\ pc[h] = "write offline"
    BY <1>5 DEF WriteOffline, Shapes, ConnShape
  <2>2. Head(offlineMessages[h]) \in Messages /\ SeqRange(offlineMessages[h]) = {Head(offlineMessages[h])} \cup SeqRange(Tail(offlineMessages[h]))
    BY <1>2, <2>1, RangeTail
  <2>3. R \subseteq Passed(h) /\ S \subseteq Passed(h)
    BY <1>3, <1>5, WriteOfflineEffect DEF R, S
  <2>4. F \subseteq Passed(h)
    BY <1>3, <1>5, <2>1, <2>2, WriteOfflineEffect DEF F
  <2>5. W \subseteq SeqRange(written[h]) \cup {Head(offlineMessages[h])}
    <3>1. SeqRange(Append(written[h], Head(offlineMessages[h])))
            = SeqRange(written[h]) \cup {Head(offlineMessages[h])}
      BY <1>2, <2>2, RangeAppend
    <3> QED
      BY <1>5, <3>1, WriteOfflineEffect DEF W
  <2> QED
    BY <1>1, <1>3, <2>1, <2>2, <2>3, <2>4, <2>5
<1>6. CASE DeleteList(h)
  BY <1>1, <1>3, <1>6, DeleteListEffect DEF W, R, S, F
<1>7. CASE GoRecv(h)
  <2>1. Head(stream[h]) \in Messages /\ SeqRange(stream[h]) = {Head(stream[h])} \cup SeqRange(Tail(stream[h]))
    BY <1>2, <1>7, RangeTail, GoRecvEffect
  <2>2. R = {Head(stream[h])} /\ S = SeqRange(Tail(stream[h]))
    BY <1>7, GoRecvEffect, RangeOne DEF R, S
  <2>3. W \subseteq Passed(h) /\ F \subseteq Passed(h)
    BY <1>3, <1>7, GoRecvEffect DEF W, F
  <2> QED
    BY <1>1, <1>3, <2>1, <2>2, <2>3
<1>8. CASE GoRecvFails(h)
  BY <1>1, <1>3, <1>8, GoRecvFailsEffect, RangeEmpty DEF W, R, S, F
<1>9. CASE GoWrite(h)
  <2>1. Head(resp[h]) \in Messages /\ SeqRange(resp[h]) = {Head(resp[h])}
    BY <1>2, <1>9, RangeSingle, GoWriteEffect
  <2>2. R = {} /\ S \subseteq Passed(h) /\ F \subseteq Passed(h)
    BY <1>3, <1>9, GoWriteEffect, RangeEmpty DEF R, S, F
  <2>3. W \subseteq SeqRange(written[h]) \cup {Head(resp[h])}
    <3>1. SeqRange(Append(written[h], Head(resp[h]))) = SeqRange(written[h]) \cup {Head(resp[h])}
      BY <1>2, <2>1, RangeAppend
    <3> QED
      BY <1>9, <3>1, GoWriteEffect DEF W
  <2> QED
    BY <1>1, <1>3, <2>1, <2>2, <2>3
<1>10. CASE SendOnStream(h)
  <2>1. nextMsg \in Messages
    BY <1>10, SendOnStreamEffect DEF NewMessage
  <2>2. S = SeqRange(stream[h]) \cup {nextMsg}
    <3>1. SeqRange(Append(stream[h], nextMsg)) = SeqRange(stream[h]) \cup {nextMsg}
      BY <1>2, <2>1, RangeAppend
    <3> QED
      BY <1>10, <3>1, SendOnStreamEffect DEF S
  <2>3. W \subseteq Passed(h) /\ R \subseteq Passed(h) /\ F \subseteq Passed(h)
    BY <1>3, <1>10, SendOnStreamEffect DEF W, R, F
  <2> QED
    BY <1>1, <1>3, <1>10, <2>2, <2>3
<1> QED
  BY <1>4, <1>5, <1>6, <1>7, <1>8, <1>9, <1>10 DEF MessageStep

\* Where a connection has a message from.
LEMMA Taken ==
  ASSUME TypeOK, Shapes, [Next]_vars, NEW g \in Conns, NEW m \in Passed(g)'
  PROVE  /\ userID'[g] = userID[g] /\ pc[g] # "idle"
         /\ \/ m \in Passed(g)
            \/ /\ ReadList(g) /\ pc'[g] = "write offline"
               /\ m \in SeqRange(list[userID[g]])
               /\ Draining(userID[g]) = {} \/ userID[g] \in drainFault'
            \/ SendOnStream(g) /\ m = nextMsg
<1> DEFINE Source == \/ m \in Passed(g)
                     \/ /\ ReadList(g) /\ pc'[g] = "write offline"
                        /\ m \in SeqRange(list[userID[g]])
                        /\ Draining(userID[g]) = {} \/ userID[g] \in drainFault'
                     \/ SendOnStream(g) /\ m = nextMsg
<1>1. Source
  <2>1. ASSUME NEW h \in Conns, MessageStep(h) PROVE Source
    <3>1. CASE h = g
      BY <2>1, <3>1, PassedOwn
    <3>2. CASE h # g
      <4>1. ConnStep(h)
        BY <2>1 DEF MessageStep, ConnStep, HandlerStep, GoStep
      <4> QED
        BY <3>2, <4>1, OthersKept, KeepsPassed
    <3> QED
      BY <3>1, <3>2
  <2>2. ASSUME Quiet PROVE Passed(g)' = Passed(g)
    BY <2>2, ZenonT(60) DEF Quiet, Passed, FromList, SeqRange
  <2>3. ASSUME NEW u \in Users, QueueOffline(u) PROVE Source
    BY <2>3, ElseKept, KeepsPassed
  <2>4. ASSUME Crash PROVE Passed(g)' \subseteq Passed(g)
    <3>1. /\ written'[g] = written[g] /\ stream'[g] = <<>> /\ resp'[g] = <<>>
          /\ pc'[g] # "write offline"
      BY <2>4, CrashEffect
    <3>2. SeqRange(stream'[g]) = {} /\ SeqRange(resp'[g]) = {} /\ FromList(g)' = {}
      BY <3>1, RangeEmpty DEF FromList
    <3> QED
      BY <3>1, <3>2 DEF Passed, SeqRange
  <2> QED
    BY <2>1, <2>2, <2>3, <2>4, Kinds
<1>2. pc[g] # "idle"
  <2>1. ASSUME pc[g] = "idle" PROVE FALSE
    <3>1. written[g] = <<>> /\ stream[g] = <<>> /\ resp[g] = <<>> /\ goPc[g] = "none"
      BY <2>1 DEF Shapes, ConnShape
    <3>2. Passed(g) = {}
      BY <2>1, <3>1, RangeEmpty DEF Passed, FromList
    <3> QED
      BY <1>1, <2>1, <3>2, ReadListEffect, SendOnStreamEffect
  <2> QED
    BY <2>1
<1>3. userID'[g] = userID[g]
  <2>1. ASSUME NEW h \in Conns, MessageStep(h) PROVE userID' = userID
    BY <2>1, ReadListEffect, WriteOfflineEffect, DeleteListEffect, GoRecvEffect,
       GoRecvFailsEffect, GoWriteEffect, SendOnStreamEffect DEF MessageStep
  <2> QED
    BY <1>2, <2>1, Kinds, QueueOfflineEffect, CrashEffect DEF Quiet
<1> QED
  BY <1>1, <1>2, <1>3

-----------------------------------------------------------------------------
(* Whose the messages are, and that a connection drains its user's list.   *)

LEMMA TypedKnown ==
  ASSUME TypeOK
  PROVE  /\ \A u \in Users : SeqRange(list[u]) \subseteq Messages
         /\ \A h \in Conns : Passed(h) \subseteq Messages
<1>1. ASSUME NEW u \in Users PROVE SeqRange(list[u]) \subseteq Messages
  <2>1. list[u] \in Seq(Messages)
    BY DEF TypeOK
  <2> QED
    BY <2>1, RangeTyped
<1>2. ASSUME NEW h \in Conns PROVE Passed(h) \subseteq Messages
  <2>1. /\ written[h] \in Seq(Messages) /\ resp[h] \in Seq(Messages)
        /\ stream[h] \in Seq(Messages) /\ offlineMessages[h] \in Seq(Messages)
    BY DEF TypeOK
  <2>2. /\ SeqRange(written[h]) \subseteq Messages /\ SeqRange(resp[h]) \subseteq Messages
        /\ SeqRange(stream[h]) \subseteq Messages /\ SeqRange(offlineMessages[h]) \subseteq Messages
    BY <2>1, RangeTyped
  <2> QED
    BY <2>2 DEF Passed, FromList
<1> QED
  BY <1>1, <1>2

LEMMA KnownStep ==
  ASSUME TypeOK, TypeOK', Shapes, MessagesKnown, [Next]_vars
  PROVE  MessagesKnown'
<1>1. ASSUME NEW m \in Messages, m < nextMsg' PROVE to'[m] \in Users
  <2>1. CASE m < nextMsg
    BY <2>1, KnownKept DEF MessagesKnown
  <2>2. CASE m = nextMsg /\ ~UNCHANGED chatVars
    BY <2>2, Numbered, NewNumber
  <2> QED
    BY <1>1, <2>1, <2>2, KnownKept
<1>2. ASSUME NEW u \in Users, NEW m \in SeqRange(list'[u]) PROVE m < nextMsg' /\ to'[m] = u
  <2>1. CASE m \in SeqRange(list[u])
    <3>1. m \in Messages /\ m < nextMsg /\ to[m] = u
      BY <2>1, TypedKnown DEF MessagesKnown
    <3> QED
      BY <3>1, KnownKept
  <2>2. CASE QueueOffline(u) /\ m = nextMsg
    BY <2>2, NewNumber, QueueOfflineEffect
  <2> QED
    BY <1>2, <2>1, <2>2, Listed
<1>3. ASSUME NEW h \in Conns, NEW m \in Passed(h)' PROVE m < nextMsg' /\ to'[m] = userID'[h]
  <2>1. userID'[h] = userID[h] /\ userID[h] \in Users
    BY <1>3, Taken DEF Shapes, ConnShape
  <2>2. CASE m \in Passed(h)
    <3>1. m \in Messages /\ m < nextMsg /\ to[m] = userID[h]
      BY <2>2, TypedKnown DEF MessagesKnown
    <3> QED
      BY <2>1, <3>1, KnownKept
  <2>3. CASE m \in SeqRange(list[userID[h]])
    <3>1. m \in Messages /\ m < nextMsg /\ to[m] = userID[h]
      BY <2>1, <2>3, TypedKnown DEF MessagesKnown
    <3> QED
      BY <2>1, <3>1, KnownKept
  <2>4. CASE SendOnStream(h) /\ m = nextMsg
    BY <2>1, <2>4, NewNumber, SendOnStreamEffect
  <2> QED
    BY <1>3, <2>2, <2>3, <2>4, Taken
<1>4. \A u \in Users : \A m \in SeqRange(list'[u]) : m < nextMsg' /\ to'[m] = u
  BY <1>2
<1>5. \A h \in Conns : \A m \in Passed(h)' : m < nextMsg' /\ to'[m] = userID'[h]
  BY <1>3
<1>6. \A m \in Messages : m < nextMsg' => to'[m] \in Users
  BY <1>1
<1> QED
  BY <1>4, <1>5, <1>6 DEF MessagesKnown, SeqRange

Reading(h) == pc[h] \in {"write offline", "delete list"}

\* Which handlers are between their LRANGE and their DEL.
LEMMA DrainBegins ==
  ASSUME TypeOK, Shapes, [Next]_vars, NEW h \in Conns, Reading(h)'
  PROVE  Reading(h) \/ ReadList(h)
<1>1. ASSUME NEW g \in Conns, MessageStep(g) PROVE Reading(h) \/ ReadList(h)
  <2>1. CASE g = h
    BY <1>1, <2>1, ReadListEffect, WriteOfflineEffect, DeleteListEffect, GoRecvEffect,
       GoRecvFailsEffect, GoWriteEffect, SendOnStreamEffect DEF MessageStep, Reading
  <2>2. CASE g # h
    <3>1. ConnStep(g)
      BY <1>1 DEF MessageStep, ConnStep, HandlerStep, GoStep
    <3> QED
      BY <2>2, <3>1, OthersKept DEF LocalsKept, Reading
  <2> QED
    BY <2>1, <2>2
<1> QED
  BY <1>1, Kinds, QueueOfflineEffect, CrashEffect DEF Quiet, Reading

LEMMA DrainEnds ==
  ASSUME TypeOK, Shapes, [Next]_vars, NEW h \in Conns, Reading(h)
  PROVE  /\ userID'[h] = userID[h] /\ userID[h] \in Users
         /\ Reading(h)' \/ userID[h] \in drainFault' \/ list'[userID[h]] = <<>>
<1>1. pc[h] # "idle" /\ userID[h] \in Users
  BY DEF Reading, Shapes, ConnShape
<1>2. ASSUME NEW g \in Conns, MessageStep(g)
      PROVE  /\ userID'[h] = userID[h]
             /\ Reading(h)' \/ userID[h] \in drainFault' \/ list'[userID[h]] = <<>>
  <2>1. CASE g = h
    <3>1. CASE DeleteList(h)
      <4>1. /\ userID' = userID
            /\ list' = list \/ list' = [list EXCEPT ![userID[h]] = <<>>]
            /\ UNCHANGED list => userID[h] \in drainFault' \/ list'[userID[h]] = <<>>
        BY <3>1, DeleteListEffect
      <4>2. DOMAIN list = Users
        BY DEF TypeOK
      <4> QED
        BY <1>1, <4>1, <4>2
    <3>2. CASE WriteOffline(h)
      BY <3>2, WriteOfflineEffect DEF Reading
    <3>3. CASE ~DeleteList(h) /\ ~WriteOffline(h)
      BY <1>2, <2>1, <3>3, ReadListEffect, GoRecvEffect, GoRecvFailsEffect, GoWriteEffect,
         SendOnStreamEffect DEF MessageStep, Reading
    <3> QED
      BY <3>1, <3>2, <3>3
  <2>2. CASE g # h
    <3>1. ConnStep(g)
      BY <1>2 DEF MessageStep, ConnStep, HandlerStep, GoStep
    <3> QED
      BY <2>2, <3>1, OthersKept DEF LocalsKept, Reading
  <2> QED
    BY <2>1, <2>2
<1>3. CASE Crash
  <2>1. h \in Draining(userID[h])
    BY DEF Draining, Reading
  <2> QED
    BY <1>1, <1>3, <2>1, CrashEffect
<1> QED
  BY <1>1, <1>2, <1>3, Kinds, QueueOfflineEffect DEF Quiet, Reading

LEMMA PassedOnceStep ==
  ASSUME TypeOK, TypeOK', Shapes, MessagesKnown, PassedOnce, [Next]_vars
  PROVE  PassedOnce'
<1>1. ASSUME NEW g \in Conns, NEW h \in Conns, g # h, NEW m \in Passed(g)', m \in Passed(h),
             m \in Passed(h)'
      PROVE  to'[m] \in drainFault'
  <2>1. m \in Messages /\ m < nextMsg /\ to[m] = userID[h] /\ to'[m] = to[m]
    BY <1>1, TypedKnown, KnownKept DEF MessagesKnown
  <2>2. CASE m \in Passed(g)
    <3>1. to[m] \in drainFault
      BY <1>1, <2>2 DEF PassedOnce
    <3> QED
      BY <2>1, <3>1, Grows
  <2>3. CASE /\ ReadList(g) /\ m \in SeqRange(list[userID[g]])
             /\ Draining(userID[g]) = {} \/ userID[g] \in drainFault'
    <3>1. userID[g] \in Users
      BY <1>1, Taken DEF Shapes, ConnShape
    <3>2. to[m] = userID[g]
      BY <2>3, <3>1 DEF MessagesKnown
    <3>3. userID[g] \in drainFault \/ h \in Draining(userID[g])
      BY <1>1, <2>3, <3>1 DEF PassedOnce
    <3> QED
      BY <2>1, <2>3, <3>2, <3>3, Grows
  <2>4. CASE m = nextMsg
    <3>1. nextMsg \in Nat
      BY NextNat
    <3> QED
      BY <2>1, <2>4, <3>1
  <2> QED
    BY <1>1, <2>2, <2>3, <2>4, Taken
<1>2. ASSUME NEW g \in Conns, NEW h \in Conns, g # h, NEW m \in Passed(g)', m \in Passed(h)'
      PROVE  m \in Passed(g) \/ m \in Passed(h)
  <2>1. ASSUME NEW f \in Conns, ConnStep(f), NEW e \in Conns, e # f, m \in Passed(e)' PROVE m \in Passed(e)
    BY <2>1, OthersKept, KeepsPassed
  <2>2. ASSUME ReadList(g) \/ SendOnStream(g) PROVE ConnStep(g)
    BY <2>2 DEF ConnStep, HandlerStep
  <2> QED
    BY <1>2, <2>1, <2>2, Taken
<1>3. ASSUME NEW g \in Conns, NEW h \in Conns, g # h, NEW m \in Passed(g)', m \in Passed(h)'
      PROVE  to'[m] \in drainFault'
  BY <1>1, <1>2, <1>3
<1>4. ASSUME NEW u \in Users, NEW h \in Conns, NEW m \in SeqRange(list'[u]), m \in Passed(h)'
      PROVE  u \in drainFault' \/ h \in Draining(u)'
  <2>0. nextMsg \in Nat /\ userID'[h] = userID[h] /\ userID[h] \in Users
    BY <1>4, Taken, NextNat DEF Shapes, ConnShape
  <2>1. CASE m \in SeqRange(list[u]) /\ m \in Passed(h)
    <3>1. u \in drainFault \/ h \in Draining(u)
      BY <2>1 DEF PassedOnce
    <3>2. CASE h \in Draining(u)
      <4>1. Reading(h) /\ userID[h] = u
        BY <3>2 DEF Draining, Reading
      <4>2. list'[u] # <<>>
        BY <1>4, RangeEmpty
      <4>3. userID'[h] = u /\ (Reading(h)' \/ u \in drainFault')
        BY <4>1, <4>2, DrainEnds
      <4> QED
        BY <4>3 DEF Reading, Draining
    <3> QED
      BY <3>1, <3>2, Grows
  <2>2. CASE m \in SeqRange(list[u]) /\ m \notin Passed(h)
    <3>1. m < nextMsg /\ m \in Messages /\ to[m] = u
      BY <2>2, TypedKnown DEF MessagesKnown
    <3>2. m # nextMsg
      BY <2>0, <3>1
    <3>3. ReadList(h) /\ pc'[h] = "write offline" /\ m \in SeqRange(list[userID[h]])
      BY <1>4, <2>2, <3>2, Taken
    <3>4. to[m] = userID[h]
      BY <2>0, <3>3 DEF MessagesKnown
    <3> QED
      BY <2>0, <3>1, <3>3, <3>4 DEF Draining
  <2>3. CASE QueueOffline(u) /\ m = nextMsg
    <3>1. m \in Passed(h)
      BY <1>4, <2>3, ElseKept, KeepsPassed
    <3>2. m < nextMsg
      BY <3>1 DEF MessagesKnown
    <3> QED
      BY <2>0, <2>3, <3>2
  <2> QED
    BY <1>4, <2>1, <2>2, <2>3, Listed
<1> QED
  BY <1>3, <1>4 DEF PassedOnce, SeqRange

-----------------------------------------------------------------------------
(* No message disappears.                                                  *)

LEMMA WrittenGrows ==
  ASSUME TypeOK, Shapes, [Next]_vars, NEW g \in Conns
  PROVE  SeqRange(written[g]) \subseteq SeqRange(written'[g])
<1>1. ASSUME NEW h \in Conns, MessageStep(h)
      PROVE  SeqRange(written[g]) \subseteq SeqRange(written'[g])
  <2>1. CASE h # g
    <3>1. ConnStep(h)
      BY <1>1 DEF MessageStep, ConnStep, HandlerStep, GoStep
    <3> QED
      BY <2>1, <3>1, OthersKept DEF LocalsKept
  <2>2. CASE h = g /\ WriteOffline(g)
    <3>1. written[g] \in Seq(Messages) /\ offlineMessages[g] \in Seq(Messages) /\ offlineMessages[g] # <<>>
      BY <2>2 DEF WriteOffline, Shapes, ConnShape, TypeOK
    <3>2. Head(offlineMessages[g]) \in Messages
      BY <3>1, RangeTail
    <3>3. SeqRange(Append(written[g], Head(offlineMessages[g])))
            = SeqRange(written[g]) \cup {Head(offlineMessages[g])}
      BY <3>1, <3>2, RangeAppend
    <3> QED
      BY <2>2, <3>3, WriteOfflineEffect
  <2>3. CASE h = g /\ GoWrite(g)
    <3>1. written[g] \in Seq(Messages) /\ Head(resp[g]) \in Messages
      BY <2>3, RangeSingle, GoWriteEffect DEF TypeOK
    <3>2. SeqRange(Append(written[g], Head(resp[g]))) = SeqRange(written[g]) \cup {Head(resp[g])}
      BY <3>1, RangeAppend
    <3> QED
      BY <2>3, <3>2, GoWriteEffect
  <2>4. CASE h = g /\ ~WriteOffline(g) /\ ~GoWrite(g)
    BY <1>1, <2>4, ReadListEffect, DeleteListEffect, GoRecvEffect, GoRecvFailsEffect,
       SendOnStreamEffect DEF MessageStep
  <2> QED
    BY <2>1, <2>2, <2>3, <2>4
<1> QED
  BY <1>1, Kinds, QueueOfflineEffect, CrashEffect DEF Quiet

\* What has been read from the list is written or, the client being gone, lost.
LEMMA DrainGoesOn ==
  ASSUME TypeOK, Shapes, [Next]_vars, NEW h \in Conns, Reading(h), Reading(h)',
         NEW m \in SeqRange(offlineMessages[h])
  PROVE  m \in atRisk' \/ m \in SeqRange(offlineMessages'[h]) \/ m \in SeqRange(written'[h])
<1>1. ASSUME NEW g \in Conns, MessageStep(g), ~(g = h /\ WriteOffline(h))
      PROVE  offlineMessages'[h] = offlineMessages[h]
  <2>1. CASE g = h
    BY <1>1, <2>1, ReadListEffect, DeleteListEffect, GoRecvEffect, GoRecvFailsEffect, GoWriteEffect,
       SendOnStreamEffect DEF MessageStep, Reading
  <2>2. CASE g # h
    <3>1. ConnStep(g)
      BY <1>1 DEF MessageStep, ConnStep, HandlerStep, GoStep
    <3> QED
      BY <2>2, <3>1, OthersKept DEF LocalsKept
  <2> QED
    BY <2>1, <2>2
<1>2. CASE WriteOffline(h)
  <2>1. written[h] \in Seq(Messages) /\ offlineMessages[h] \in Seq(Messages) /\ offlineMessages[h] # <<>>
    BY <1>2 DEF WriteOffline, Shapes, ConnShape, TypeOK
  <2>2. /\ Head(offlineMessages[h]) \in Messages
        /\ SeqRange(offlineMessages[h])
             = {Head(offlineMessages[h])} \cup SeqRange(Tail(offlineMessages[h]))
    BY <2>1, RangeTail
  <2>3. SeqRange(Append(written[h], Head(offlineMessages[h])))
          = SeqRange(written[h]) \cup {Head(offlineMessages[h])}
    BY <2>1, <2>2, RangeAppend
  <2> QED
    BY <1>2, <2>2, <2>3, WriteOfflineEffect
<1>3. CASE ~WriteOffline(h)
  BY <1>1, <1>3, Kinds, QueueOfflineEffect, CrashEffect DEF Quiet
<1> QED
  BY <1>2, <1>3

LEMMA DrainsAllStep ==
  ASSUME TypeOK, Shapes, Shapes', DrainsAll, [Next]_vars
  PROVE  DrainsAll'
<1> SUFFICES ASSUME NEW h \in Conns, Reading(h)', NEW m \in SeqRange(list'[userID'[h]])
             PROVE  \/ m \in atRisk' \/ m \in SeqRange(offlineMessages'[h])
                    \/ m \in SeqRange(written'[h])
  BY DEF DrainsAll, Reading, SeqRange
<1>1. CASE Reading(h)
  <2>1. userID'[h] = userID[h] /\ userID[h] \in Users
    BY <1>1, DrainEnds
  <2>2. CASE m \in SeqRange(list[userID[h]])
    <3>1. m \in atRisk \/ m \in SeqRange(offlineMessages[h]) \/ m \in SeqRange(written[h])
      BY <1>1, <2>2 DEF DrainsAll, Reading
    <3> QED
      BY <1>1, <3>1, Grows, WrittenGrows, DrainGoesOn
  <2>3. CASE QueueOffline(userID[h]) /\ m = nextMsg
    <3>1. Draining(userID[h]) # {}
      BY <1>1 DEF Draining, Reading
    <3> QED
      BY <2>1, <2>3, <3>1, QueueOfflineEffect
  <2> QED
    BY <2>1, <2>2, <2>3, Listed
<1>2. CASE ReadList(h)
  <2>1. offlineMessages'[h] = list[userID[h]] /\ list' = list /\ userID' = userID
    BY <1>2, ReadListEffect DEF Reading
  <2> QED
    BY <2>1
<1> QED
  BY <1>1, <1>2, DrainBegins

\* A message on its way stays there, arrives, or goes down with its stream.
LEMMA Carried ==
  ASSUME TypeOK, Shapes, [Next]_vars, NEW g \in Conns,
         NEW m \in SeqRange(stream[g]) \cup SeqRange(resp[g]) \cup SeqRange(written[g])
  PROVE  \/ m \in atRisk'
         \/ m \in SeqRange(stream'[g]) \cup SeqRange(resp'[g]) \cup SeqRange(written'[g])
<1> DEFINE Goal == \/ m \in atRisk'
                   \/ m \in SeqRange(stream'[g]) \cup SeqRange(resp'[g]) \cup SeqRange(written'[g])
<1>1. CASE m \in SeqRange(written[g])
  BY <1>1, WrittenGrows
<1>2. stream[g] \in Seq(Messages) /\ resp[g] \in Seq(Messages) /\ written[g] \in Seq(Messages)
  BY DEF TypeOK
<1>3. ASSUME NEW h \in Conns, MessageStep(h), m \notin SeqRange(written[g]) PROVE Goal
  <2>1. CASE h # g
    <3>1. ConnStep(h)
      BY <1>3 DEF MessageStep, ConnStep, HandlerStep, GoStep
    <3> QED
      BY <2>1, <3>1, OthersKept DEF LocalsKept
  <2>2. CASE h = g /\ GoRecv(g)
    <3>1. /\ Head(stream[g]) \in Messages
          /\ SeqRange(stream[g]) = {Head(stream[g])} \cup SeqRange(Tail(stream[g]))
      BY <1>2, <2>2, RangeTail, GoRecvEffect
    <3>2. SeqRange(resp'[g]) = {Head(stream[g])} /\ SeqRange(stream'[g]) = SeqRange(Tail(stream[g]))
      BY <2>2, RangeOne, GoRecvEffect
    <3>3. SeqRange(resp[g]) = {}
      BY <2>2, GoRecvEffect, RangeEmpty
    <3> QED
      BY <1>3, <3>1, <3>2, <3>3
  <2>3. CASE h = g /\ GoRecvFails(g)
    BY <1>3, <2>3, GoRecvFailsEffect
  <2>4. CASE h = g /\ GoWrite(g)
    <3>1. Head(resp[g]) \in Messages /\ SeqRange(resp[g]) = {Head(resp[g])}
      BY <1>2, <2>4, RangeSingle, GoWriteEffect
    <3>2. SeqRange(Append(written[g], Head(resp[g]))) = SeqRange(written[g]) \cup {Head(resp[g])}
      BY <1>2, <3>1, RangeAppend
    <3> QED
      BY <1>3, <2>4, <3>1, <3>2, GoWriteEffect
  <2>5. CASE h = g /\ SendOnStream(g)
    <3>1. nextMsg \in Messages
      BY <2>5, SendOnStreamEffect DEF NewMessage
    <3>2. SeqRange(Append(stream[g], nextMsg)) = SeqRange(stream[g]) \cup {nextMsg}
      BY <1>2, <3>1, RangeAppend
    <3> QED
      BY <1>3, <2>5, <3>2, SendOnStreamEffect
  <2>6. CASE h = g /\ (ReadList(g) \/ WriteOffline(g) \/ DeleteList(g))
    BY <1>3, <2>6, ReadListEffect, WriteOfflineEffect, DeleteListEffect
  <2> QED
    BY <1>3, <2>1, <2>2, <2>3, <2>4, <2>5, <2>6 DEF MessageStep
<1>4. CASE Crash
  BY <1>1, <1>4, CrashEffect
<1>5. CASE Quiet \/ (\E u \in Users : QueueOffline(u))
  BY <1>5, QueueOfflineEffect DEF Quiet
<1> QED
  BY <1>1, <1>3, <1>4, <1>5, Kinds

LEMMA UserKept ==
  ASSUME TypeOK, Shapes, [Next]_vars, NEW g \in Conns, pc[g] # "idle"
  PROVE  userID'[g] = userID[g]
<1>1. ASSUME NEW h \in Conns, MessageStep(h) PROVE userID' = userID
  BY <1>1, ReadListEffect, WriteOfflineEffect, DeleteListEffect, GoRecvEffect,
     GoRecvFailsEffect, GoWriteEffect, SendOnStreamEffect DEF MessageStep
<1> QED
  BY <1>1, Kinds, QueueOfflineEffect, CrashEffect DEF Quiet

\* A DEL takes away nothing but what its connection has written, or what was
\* queued too late.
LEMMA ListKept ==
  ASSUME TypeOK, Shapes, DrainsAll, [Next]_vars, NEW u \in Users, NEW m \in SeqRange(list[u])
  PROVE  \/ m \in SeqRange(list'[u]) \/ m \in atRisk'
         \/ \E h \in Conns : userID'[h] = u /\ m \in SeqRange(written'[h])
<1> DEFINE Goal == \/ m \in SeqRange(list'[u]) \/ m \in atRisk'
                   \/ \E h \in Conns : userID'[h] = u /\ m \in SeqRange(written'[h])
<1>1. ASSUME NEW h \in Conns, DeleteList(h) PROVE Goal
  <2>1. /\ list' = list \/ list' = [list EXCEPT ![userID[h]] = <<>>]
        /\ userID' = userID /\ pc[h] = "delete list"
    BY <1>1, DeleteListEffect
  <2>2. CASE userID[h] = u
    <3>1. m \in atRisk \/ m \in SeqRange(offlineMessages[h]) \/ m \in SeqRange(written[h])
      BY <2>1, <2>2 DEF DrainsAll
    <3>2. SeqRange(offlineMessages[h]) = {}
      BY <2>1, RangeEmpty DEF Shapes, ConnShape
    <3> QED
      BY <2>1, <2>2, <3>1, <3>2, Grows, WrittenGrows
  <2>3. CASE userID[h] # u
    BY <2>1, <2>3 DEF TypeOK
  <2> QED
    BY <2>2, <2>3
<1>2. ASSUME NEW h \in Conns, MessageStep(h), ~DeleteList(h) PROVE Goal
  BY <1>2, ReadListEffect, WriteOfflineEffect, GoRecvEffect, GoRecvFailsEffect,
     GoWriteEffect, SendOnStreamEffect DEF MessageStep
<1>3. ASSUME NEW v \in Users, QueueOffline(v) PROVE Goal
  <2>1. list' = [list EXCEPT ![v] = Append(list[v], nextMsg)] /\ nextMsg \in Messages
        /\ list[v] \in Seq(Messages) /\ DOMAIN list = Users
    BY <1>3, QueueOfflineEffect DEF NewMessage, TypeOK
  <2>2. SeqRange(Append(list[v], nextMsg)) = SeqRange(list[v]) \cup {nextMsg}
    BY <2>1, RangeAppend
  <2> QED
    BY <2>1, <2>2
<1> QED
  BY <1>1, <1>2, <1>3, Kinds, CrashEffect DEF Quiet

LEMMA AccountingStep ==
  ASSUME TypeOK, TypeOK', Shapes, MessagesKnown, DrainsAll, MessageAccounting, [Next]_vars
  PROVE  MessageAccounting'
<1> DEFINE Way(h) == SeqRange(stream[h]) \cup SeqRange(resp[h]) \cup SeqRange(written[h])
           NewWay(h) == SeqRange(stream'[h]) \cup SeqRange(resp'[h]) \cup SeqRange(written'[h])
           Somewhere(m) == \/ m \in atRisk'
                           \/ m \in SeqRange(list'[to'[m]])
                           \/ \E h \in Conns : userID'[h] = to'[m] /\ m \in NewWay(h)
<1>1. ASSUME NEW m \in 1 .. nextMsg' - 1
      PROVE  m \in Messages /\ m < nextMsg' /\ (m < nextMsg => m \in 1 .. nextMsg - 1)
  <2>1. nextMsg' \in 1 .. MaxMessages + 1 /\ nextMsg \in 1 .. MaxMessages + 1
    BY DEF TypeOK
  <2> QED
    BY <1>1, <2>1, GivenOut DEF Messages
<1>2. ASSUME NEW m \in Messages, m \in 1 .. nextMsg - 1, m < nextMsg PROVE Somewhere(m)
  <2>1. to'[m] = to[m] /\ to[m] \in Users
    BY <1>2, KnownKept DEF MessagesKnown
  <2>2. CASE m \in atRisk
    BY <2>2, Grows
  <2>3. CASE m \in SeqRange(list[to[m]])
    <3>1. \/ m \in SeqRange(list'[to[m]]) \/ m \in atRisk'
          \/ \E h \in Conns : userID'[h] = to[m] /\ m \in SeqRange(written'[h])
      BY <2>1, <2>3, ListKept
    <3> QED
      BY <2>1, <3>1
  <2>4. ASSUME NEW h \in Conns, userID[h] = to[m], m \in Way(h) PROVE Somewhere(m)
    <3>1. pc[h] # "idle"
      <4>1. pc[h] = "idle" => userID[h] = None
        BY DEF Shapes, ConnShape
      <4> QED
        BY <2>1, <2>4, <4>1, NoUser
    <3>2. userID'[h] = to'[m]
      BY <2>1, <2>4, <3>1, UserKept
    <3>3. m \in atRisk' \/ m \in NewWay(h)
      BY <2>4, Carried
    <3> QED
      BY <3>2, <3>3
  <2> QED
    BY <1>2, <2>2, <2>3, <2>4 DEF MessageAccounting
<1>3. ASSUME ~UNCHANGED chatVars PROVE Somewhere(nextMsg)
  <2>1. ASSUME NEW u \in Users, QueueOffline(u), NewMessage(u) PROVE Somewhere(nextMsg)
    <3>1. list'[u] = Append(list[u], nextMsg) /\ list[u] \in Seq(Messages)
      BY <2>1, QueueOfflineEffect DEF TypeOK
    <3>2. nextMsg \in Messages /\ to'[nextMsg] = u
      BY <2>1, NewNumber
    <3>3. nextMsg \in SeqRange(list'[u])
      BY <3>1, <3>2, RangeAppend
    <3> QED
      BY <3>2, <3>3
  <2>2. ASSUME NEW h \in Conns, SendOnStream(h), userID[h] \in Users, NewMessage(userID[h])
        PROVE  Somewhere(nextMsg)
    <3>1. stream'[h] = Append(stream[h], nextMsg) /\ stream[h] \in Seq(Messages) /\ userID' = userID
      BY <2>2, SendOnStreamEffect DEF TypeOK
    <3>2. nextMsg \in Messages /\ to'[nextMsg] = userID[h]
      BY <2>2, NewNumber
    <3>3. nextMsg \in SeqRange(stream'[h])
      BY <3>1, <3>2, RangeAppend
    <3> QED
      BY <3>1, <3>2, <3>3
  <2> QED
    BY <1>3, <2>1, <2>2, Numbered
<1>4. ASSUME NEW m \in 1 .. nextMsg' - 1 PROVE Somewhere(m)
  BY <1>1, <1>2, <1>3, KnownKept
<1> QED
  BY <1>4 DEF MessageAccounting, SeqRange

-----------------------------------------------------------------------------
(* Lists and connections are in order.                                     *)

InOrder(w, r, s) ==
  /\ Increasing(w) /\ Increasing(s)
  /\ Below(SeqRange(w), SeqRange(r) \cup SeqRange(s))
  /\ Below(SeqRange(r), SeqRange(s))

LEMMA Numbers ==
  ASSUME NEW q \in Seq(Messages)
  PROVE  q \in Seq(Nat)
<1>1. Messages \subseteq Nat
  BY Constants
<1> QED
  BY <1>1, SeqMonotonic

LEMMA OrderEmptied ==
  ASSUME NEW w, NEW r, NEW s, InOrder(w, r, s)
  PROVE  InOrder(w, <<>>, s) /\ InOrder(w, <<>>, <<>>) /\ InOrder(w, r, <<>>)
BY RangeEmpty, IncreasingEmpty DEF InOrder, Below

LEMMA OrderReceived ==
  ASSUME NEW w, NEW s \in Seq(Nat), s # <<>>, InOrder(w, <<>>, s)
  PROVE  InOrder(w, <<Head(s)>>, Tail(s))
<1>1. Increasing(Tail(s)) /\ Below({Head(s)}, SeqRange(Tail(s)))
  BY IncreasingTail DEF InOrder
<1>2. SeqRange(s) = {Head(s)} \cup SeqRange(Tail(s)) /\ SeqRange(<<Head(s)>>) = {Head(s)}
  BY RangeTail, RangeOne
<1>3. Below(SeqRange(w), SeqRange(s)) /\ Increasing(w)
  BY DEF InOrder, Below
<1> QED
  BY <1>1, <1>2, <1>3 DEF InOrder

LEMMA OrderWritten ==
  ASSUME NEW w \in Seq(Nat), NEW r \in Seq(Nat), NEW s, Len(r) = 1, InOrder(w, r, s)
  PROVE  InOrder(Append(w, Head(r)), <<>>, s)
<1>1. Head(r) \in Nat /\ SeqRange(r) = {Head(r)}
  BY RangeSingle
<1>2. SeqRange(Append(w, Head(r))) = SeqRange(w) \cup {Head(r)}
  BY <1>1, RangeAppend
<1>3. Increasing(Append(w, Head(r)))
  <2>1. Increasing(w) /\ \A n \in SeqRange(w) : n < Head(r)
    BY <1>1 DEF InOrder, Below
  <2> QED
    BY <1>1, <2>1, IncreasingAppend
<1>4. Below(SeqRange(w) \cup {Head(r)}, SeqRange(s)) /\ Increasing(s)
  BY <1>1 DEF InOrder, Below
<1>5. SeqRange(<<>>) = {}
  BY RangeEmpty
<1> QED
  BY <1>2, <1>3, <1>4, <1>5 DEF InOrder, Below

LEMMA OrderSent ==
  ASSUME NEW w, NEW r, NEW s \in Seq(Nat), NEW n \in Nat, InOrder(w, r, s),
         \A m \in SeqRange(w) \cup SeqRange(r) \cup SeqRange(s) : m < n
  PROVE  InOrder(w, r, Append(s, n))
<1>1. SeqRange(Append(s, n)) = SeqRange(s) \cup {n}
  BY RangeAppend
<1>2. Increasing(s) /\ \A m \in SeqRange(s) : m < n
  BY DEF InOrder
<1>3. Increasing(Append(s, n))
  BY <1>2, IncreasingAppend
<1> QED
  BY <1>1, <1>3 DEF InOrder, Below

LEMMA OrderDrained ==
  ASSUME NEW w \in Seq(Nat), NEW o \in Seq(Nat), o # <<>>, Increasing(w), Increasing(o),
         Below(SeqRange(w), SeqRange(o))
  PROVE  /\ InOrder(Append(w, Head(o)), <<>>, <<>>) /\ Increasing(Tail(o))
         /\ Below(SeqRange(w), SeqRange(Tail(o)))
         /\ Below(SeqRange(Append(w, Head(o))), SeqRange(Tail(o)))
<1>1. Head(o) \in Nat /\ SeqRange(o) = {Head(o)} \cup SeqRange(Tail(o))
  BY RangeTail
<1>2. Increasing(Tail(o)) /\ Below({Head(o)}, SeqRange(Tail(o)))
  BY IncreasingTail
<1>3. SeqRange(Append(w, Head(o))) = SeqRange(w) \cup {Head(o)}
  BY <1>1, RangeAppend
<1>4. Increasing(Append(w, Head(o)))
  <2>1. \A n \in SeqRange(w) : n < Head(o)
    BY <1>1 DEF Below
  <2> QED
    BY <1>1, <2>1, IncreasingAppend
<1>5. Below(SeqRange(w), SeqRange(Tail(o))) /\ Below(SeqRange(w) \cup {Head(o)}, SeqRange(Tail(o)))
  BY <1>1, <1>2 DEF Below
<1>6. SeqRange(<<>>) = {} /\ Increasing(<<>>)
  BY RangeEmpty, IncreasingEmpty
<1> QED
  BY <1>2, <1>3, <1>4, <1>5, <1>6 DEF InOrder, Below

LEMMA ListOrderStep ==
  ASSUME TypeOK, Shapes, MessagesKnown, AllInOrder, [Next]_vars, NEW u \in Users
  PROVE  Increasing(list'[u])
<1>1. Increasing(list[u]) /\ list[u] \in Seq(Messages) /\ list[u] \in Seq(Nat)
  BY Numbers DEF AllInOrder, TypeOK
<1>2. ASSUME NEW h \in Conns, MessageStep(h) PROVE list'[u] = list[u] \/ list'[u] = <<>>
  <2>1. list' = list \/ list' = [list EXCEPT ![userID[h]] = <<>>]
    BY <1>2, ReadListEffect, WriteOfflineEffect, DeleteListEffect, GoRecvEffect,
       GoRecvFailsEffect, GoWriteEffect, SendOnStreamEffect DEF MessageStep
  <2> QED
    BY <2>1 DEF TypeOK
<1>3. ASSUME NEW v \in Users, QueueOffline(v) PROVE Increasing(list'[u])
  <2>1. list' = [list EXCEPT ![v] = Append(list[v], nextMsg)] /\ DOMAIN list = Users
    BY <1>3, QueueOfflineEffect DEF TypeOK
  <2>2. \A m \in SeqRange(list[u]) : m < nextMsg
    BY DEF MessagesKnown
  <2>3. Increasing(Append(list[u], nextMsg))
    BY <1>1, <2>2, NextNat, IncreasingAppend
  <2> QED
    BY <1>1, <2>1, <2>3
<1> QED
  BY <1>1, <1>2, <1>3, Kinds, CrashEffect, IncreasingEmpty DEF Quiet

\* WayInOrder, by its parts.
LEMMA WayParts ==
  ASSUME NEW h \in Conns
  PROVE  /\ WayInOrder(h) <=>
              /\ InOrder(written[h], resp[h], stream[h])
              /\ pc[h] = "write offline" =>
                   /\ Increasing(offlineMessages[h])
                   /\ Below(SeqRange(written[h]), SeqRange(offlineMessages[h]))
         /\ WayInOrder(h)' <=>
              /\ InOrder(written'[h], resp'[h], stream'[h])
              /\ pc'[h] = "write offline" =>
                   /\ Increasing(offlineMessages'[h])
                   /\ Below(SeqRange(written'[h]), SeqRange(offlineMessages'[h]))
BY DEF WayInOrder, InOrder, Increasing, Below, SeqRange

LEMMA OwnOrder ==
  ASSUME TypeOK, Shapes, MessagesKnown, AllInOrder, [Next]_vars, NEW h \in Conns, MessageStep(h)
  PROVE  WayInOrder(h)'
<1>1. /\ InOrder(written[h], resp[h], stream[h])
      /\ pc[h] = "write offline" =>
           /\ Increasing(offlineMessages[h])
           /\ Below(SeqRange(written[h]), SeqRange(offlineMessages[h]))
  BY WayParts DEF AllInOrder
<1>2. /\ written[h] \in Seq(Nat) /\ resp[h] \in Seq(Nat) /\ stream[h] \in Seq(Nat)
      /\ offlineMessages[h] \in Seq(Nat)
  BY Numbers DEF TypeOK
<1>3. CASE ReadList(h)
  <2>1. userID[h] \in Users /\ written[h] = <<>>
    BY <1>3 DEF ReadList, Shapes, ConnShape
  <2>2. Increasing(list[userID[h]])
    BY <2>1 DEF AllInOrder
  <2>3. Below(SeqRange(<<>>), SeqRange(list[userID[h]]))
    BY RangeEmpty DEF Below
  <2> QED
    BY <1>1, <1>3, <2>1, <2>2, <2>3, ReadListEffect, WayParts
<1>4. CASE WriteOffline(h)
  <2>1. /\ pc[h] = "write offline" /\ offlineMessages[h] # <<>>
        /\ stream[h] = <<>> /\ resp[h] = <<>>
    BY <1>4 DEF WriteOffline, Shapes, ConnShape, BeforeGo
  <2>2. Increasing(written[h])
    BY <1>1 DEF InOrder
  <2>3. /\ InOrder(Append(written[h], Head(offlineMessages[h])), <<>>, <<>>)
        /\ Increasing(Tail(offlineMessages[h]))
        /\ Below(SeqRange(written[h]), SeqRange(Tail(offlineMessages[h])))
        /\ Below(SeqRange(Append(written[h], Head(offlineMessages[h]))), SeqRange(Tail(offlineMessages[h])))
    BY <1>1, <1>2, <2>1, <2>2, OrderDrained
  <2> QED
    BY <1>1, <1>4, <2>1, <2>3, WriteOfflineEffect, WayParts
<1>5. CASE DeleteList(h)
  BY <1>1, <1>5, DeleteListEffect, WayParts
<1>6. CASE GoRecv(h)
  <2>1. InOrder(written[h], <<Head(stream[h])>>, Tail(stream[h]))
    BY <1>1, <1>2, <1>6, GoRecvEffect, OrderReceived
  <2> QED
    BY <1>1, <1>6, <2>1, GoRecvEffect, WayParts
<1>7. CASE GoRecvFails(h)
  <2>1. InOrder(written[h], resp[h], <<>>)
    BY <1>1, OrderEmptied
  <2> QED
    BY <1>1, <1>7, <2>1, GoRecvFailsEffect, WayParts
<1>8. CASE GoWrite(h)
  <2>1. InOrder(written[h], <<>>, stream[h]) /\ InOrder(written[h], <<>>, <<>>)
    BY <1>1, OrderEmptied
  <2>2. InOrder(Append(written[h], Head(resp[h])), <<>>, stream[h])
    BY <1>1, <1>2, <1>8, GoWriteEffect, OrderWritten
  <2>3. pc'[h] # "write offline"
    BY <1>8, GoWriteEffect DEF BeforeGo
  <2> QED
    BY <1>8, <2>1, <2>2, <2>3, GoWriteEffect, WayParts
<1>9. CASE SendOnStream(h)
  <2>1. \A m \in SeqRange(written[h]) \cup SeqRange(resp[h]) \cup SeqRange(stream[h]) : m < nextMsg
    BY DEF MessagesKnown, Passed
  <2>2. InOrder(written[h], resp[h], Append(stream[h], nextMsg))
    BY <1>1, <1>2, <2>1, NextNat, OrderSent
  <2> QED
    BY <1>1, <1>9, <2>2, SendOnStreamEffect, WayParts
<1> QED
  BY <1>3, <1>4, <1>5, <1>6, <1>7, <1>8, <1>9 DEF MessageStep

LEMMA OrderStep ==
  ASSUME TypeOK, Shapes, MessagesKnown, AllInOrder, [Next]_vars
  PROVE  AllInOrder'
<1>1. ASSUME NEW g \in Conns PROVE WayInOrder(g)'
  <2>1. WayInOrder(g)
    BY DEF AllInOrder
  <2>2. ASSUME NEW h \in Conns, MessageStep(h), h # g PROVE LocalsKept(g)
    <3>1. ConnStep(h)
      BY <2>2 DEF MessageStep, ConnStep, HandlerStep, GoStep
    <3> QED
      BY <2>2, <3>1, OthersKept
  <2>3. CASE LocalsKept(g)
    BY <2>1, <2>3, WayParts DEF LocalsKept
  <2>4. CASE Quiet
    BY <2>1, <2>4, WayParts DEF Quiet
  <2>5. CASE Crash
    BY <2>1, <2>5, CrashEffect, WayParts, OrderEmptied
  <2> QED
    BY <2>2, <2>3, <2>4, <2>5, Kinds, OwnOrder, ElseKept
<1>2. \A u \in Users : Increasing(list'[u])
  BY ListOrderStep
<1> QED
  BY <1>1, <1>2 DEF AllInOrder, Increasing

-----------------------------------------------------------------------------
(* Presence.                                                               *)

\* What a step of a connection does to the mark of its user.
LEMMA PresenceKinds ==
  ASSUME TypeOK, Shapes, NEW h \in Conns, ConnStep(h)
  PROVE  \/ UNCHANGED <<isOnline, presenceFault, pc, userID>>
         \/ Connect(h) \/ SetOnline(h) \/ SetOffline(h) \/ Close(h)
         \/ /\ pc[h] \in Serving /\ pc'[h] \in Serving
            /\ UNCHANGED <<isOnline, presenceFault, userID>>
<1>1. DOMAIN pc = Conns
  BY DEF TypeOK
<1> USE <1>1 DEF Goto, handlerVars, goVars, historyVars, Serving
<1>2. CASE ReadList(h)
  BY <1>2 DEF ReadList
<1>3. CASE WriteOffline(h)
  BY <1>3 DEF WriteOffline
<1>4. CASE DeleteList(h)
  BY <1>4 DEF DeleteList
<1>5. CASE Start(h)
  BY <1>5 DEF Start
<1>6. CASE ReadFrame(h)
  BY <1>6 DEF ReadFrame
<1>7. CASE Forward(h)
  BY <1>7 DEF Forward
<1>8. CASE Reply(h)
  BY <1>8 DEF Reply
<1>9. CASE ReadFails(h)
  BY <1>9 DEF ReadFails
<1>10. CASE HandlerPanics(h)
  BY <1>10 DEF HandlerPanics, Colliding
<1>11. CASE GoConnect(h)
  BY <1>11 DEF GoConnect
<1>12. CASE GoRecv(h)
  BY <1>12 DEF GoRecv
<1>13. CASE GoRecvFails(h)
  BY <1>13 DEF GoRecvFails
<1>14. CASE GoWrite(h)
  BY <1>14 DEF GoWrite
<1>15. CASE SendOnStream(h)
  BY <1>15 DEF SendOnStream
<1>16. CASE ClientGone(h)
  BY <1>16 DEF ClientGone
<1> QED
  BY <1>2, <1>3, <1>4, <1>5, <1>6, <1>7, <1>8, <1>9, <1>10, <1>11, <1>12, <1>13, <1>14, <1>15,
     <1>16 DEF ConnStep, HandlerStep, GoStep

LEMMA ConnectEffect ==
  ASSUME TypeOK, Shapes, NEW h \in Conns, Connect(h)
  PROVE  /\ UNCHANGED <<isOnline, presenceFault>>
         /\ pc[h] = "idle" /\ userID[h] = None /\ pc'[h] = "set online"
BY DEF Connect, Goto, historyVars, TypeOK, Shapes, ConnShape

LEMMA SetOnlineEffect ==
  ASSUME TypeOK, Shapes, NEW h \in Conns, SetOnline(h)
  PROVE  /\ pc[h] = "set online" /\ userID' = userID /\ userID[h] \in Users
         /\ \A u \in Users : u # userID[h] => isOnline'[u] = isOnline[u]
         /\ presenceFault \subseteq presenceFault'
         /\ \/ pc'[h] = "read list" /\ isOnline'[userID[h]] = TRUE
            \/ pc'[h] = "close" /\ userID[h] \in presenceFault'
<1>1. DOMAIN pc = Conns /\ DOMAIN isOnline = Users
  BY DEF TypeOK
<1>2. userID[h] \in Users /\ pc[h] = "set online"
  BY DEF SetOnline, Shapes, ConnShape
<1> QED
  BY <1>1, <1>2 DEF SetOnline, Goto

LEMMA SetOfflineEffect ==
  ASSUME TypeOK, Shapes, NEW h \in Conns, SetOffline(h)
  PROVE  /\ pc[h] = "set offline" /\ userID' = userID /\ userID[h] \in Users
         /\ \A u \in Users : u # userID[h] => isOnline'[u] = isOnline[u]
         /\ presenceFault \subseteq presenceFault'
         /\ pc'[h] = "close"
         /\ isOnline'[userID[h]] = FALSE \/ userID[h] \in presenceFault'
<1>1. DOMAIN pc = Conns /\ DOMAIN isOnline = Users
  BY DEF TypeOK
<1>2. userID[h] \in Users /\ pc[h] = "set offline"
  BY DEF SetOffline, Shapes, ConnShape
<1> QED
  BY <1>1, <1>2 DEF SetOffline, Goto

LEMMA CloseEffect ==
  ASSUME TypeOK, NEW h \in Conns, Close(h)
  PROVE  /\ UNCHANGED <<isOnline, presenceFault, userID>>
         /\ pc[h] = "close" /\ pc'[h] = "done"
BY DEF Close, Goto, historyVars, TypeOK

LEMMA PresenceCrash ==
  ASSUME TypeOK, Crash
  PROVE  /\ UNCHANGED <<isOnline, userID, doneBefore>>
         /\ presenceFault \subseteq presenceFault'
         /\ \A h \in Conns : /\ pc'[h] \in {"idle", "done"}
                             /\ Started(h) => userID[h] \in presenceFault'
BY DEF Crash, Started, TypeOK

LEMMA ElsePresence ==
  ASSUME (\E u \in Users : QueueOffline(u)) \/ UNCHANGED vars
  PROVE  UNCHANGED <<isOnline, presenceFault, pc, userID, doneBefore>>
BY DEF QueueOffline, vars, handlerVars, historyVars

LEMMA OnlineForStep ==
  ASSUME TypeOK, Shapes, OnlineFor, [Next]_vars
  PROVE  OnlineFor'
<1> SUFFICES ASSUME NEW u \in Users, u \notin presenceFault', isOnline'[u]
             PROVE  \/ \E h \in Conns : userID'[h] = u /\ pc'[h] \in Serving
                    \/ \A h \in Conns : userID'[h] = u => pc'[h] = "set online"
  BY DEF OnlineFor
<1> DEFINE Before == \/ \E h \in Conns : userID[h] = u /\ pc[h] \in Serving
                     \/ \A h \in Conns : userID[h] = u => pc[h] = "set online"
           After == \/ \E h \in Conns : userID'[h] = u /\ pc'[h] \in Serving
                    \/ \A h \in Conns : userID'[h] = u => pc'[h] = "set online"
<1>1. u \notin presenceFault /\ isOnline[u] => Before
  BY DEF OnlineFor
<1>2. CASE UNCHANGED <<isOnline, presenceFault, pc, userID>>
  BY <1>1, <1>2
<1>3. ASSUME NEW h \in Conns, ConnStep(h), ~UNCHANGED <<isOnline, presenceFault, pc, userID>> PROVE After
  <2>1. \A g \in Conns \ {h} : pc'[g] = pc[g] /\ userID'[g] = userID[g]
    BY <1>3, OthersKept DEF LocalsKept
  <2>2. CASE Connect(h)
    <3>1. pc[h] \notin Serving /\ userID[h] = None /\ pc'[h] = "set online" /\ Before
      BY <1>1, <2>2, ConnectEffect DEF Serving
    <3> QED
      BY <2>1, <3>1
  <2>3. CASE SetOnline(h)
    <3>1. CASE userID[h] = u
      BY <2>3, <3>1, SetOnlineEffect DEF Serving
    <3>2. CASE userID[h] # u
      <4>1. Before /\ userID' = userID
        BY <1>1, <2>3, <3>2, SetOnlineEffect
      <4> QED
        BY <2>1, <3>2, <4>1
    <3> QED
      BY <3>1, <3>2
  <2>4. CASE SetOffline(h)
    <3>1. userID[h] # u
      BY <2>4, SetOfflineEffect
    <3>2. Before /\ userID' = userID
      BY <1>1, <2>4, <3>1, SetOfflineEffect
    <3> QED
      BY <2>1, <3>1, <3>2
  <2>5. CASE Close(h)
    <3>1. Before /\ userID' = userID /\ pc[h] \notin Serving /\ pc[h] # "set online"
      BY <1>1, <2>5, CloseEffect DEF Serving
    <3> QED
      BY <2>1, <3>1
  <2>6. CASE pc[h] \in Serving /\ pc'[h] \in Serving /\ UNCHANGED <<isOnline, presenceFault, userID>>
    <3>1. Before /\ userID' = userID
      BY <1>1, <2>6
    <3>2. pc[h] # "set online"
      BY <2>6 DEF Serving
    <3> QED
      BY <2>1, <2>6, <3>1, <3>2
  <2> QED
    BY <1>3, <2>2, <2>3, <2>4, <2>5, <2>6, PresenceKinds
<1>4. CASE Crash
  <2>1. \A h \in Conns : userID[h] = u => ~Started(h)
    BY <1>4, PresenceCrash
  <2>2. Before /\ userID' = userID
    BY <1>1, <1>4, PresenceCrash
  <2>3. \A h \in Conns : pc[h] \in Serving \/ pc[h] = "set online" => Started(h)
    BY DEF Serving, Started
  <2> QED
    BY <2>1, <2>2, <2>3
<1> QED
  BY <1>2, <1>3, <1>4, Steps, ElsePresence

LEMMA SoleStep ==
  ASSUME TypeOK, Shapes, SolePresence, [Next]_vars
  PROVE  SolePresence'
<1> SUFFICES ASSUME NEW h \in Conns, pc'[h] \in Serving, userID'[h] \notin presenceFault',
                    \A g \in Conns \ {h} : userID'[g] = userID'[h] => g \in doneBefore'[h]
             PROVE  isOnline'[userID'[h]]
  BY DEF SolePresence
<1> DEFINE Sole == \A g \in Conns \ {h} : userID[g] = userID[h] => g \in doneBefore[h]
<1>1. pc[h] \in Serving /\ userID[h] \notin presenceFault /\ Sole => isOnline[userID[h]]
  BY DEF SolePresence
<1>2. /\ doneBefore[h] \subseteq {g \in Conns : pc[g] = "done"}
      /\ pc[h] \in Serving => userID[h] \in Users
  BY DEF Shapes, ConnShape, Serving
<1>3. CASE UNCHANGED <<isOnline, presenceFault, pc, userID, doneBefore>>
  BY <1>1, <1>3
<1>4. ASSUME NEW f \in Conns, f # h, ConnStep(f) PROVE isOnline'[userID'[h]]
  <2>1. pc'[h] = pc[h] /\ userID'[h] = userID[h] /\ doneBefore'[h] = doneBefore[h]
    BY <1>4, OthersKept DEF LocalsKept
  <2>2. pc[h] \in Serving /\ userID[h] \in Users /\ userID[h] # None
    BY <1>2, <2>1, NoUser
  <2>3. \A g \in Conns \ {f} : userID'[g] = userID[g]
    BY <1>4, OthersKept DEF LocalsKept
  <2>4. userID'[f] = userID[h] => pc[f] = "done"
    BY <1>2, <1>4, <2>1
  <2>5. userID[f] = userID[h] => userID'[f] = userID[h]
    <3>1. pc[f] = "idle" => userID[f] = None
      BY DEF Shapes, ConnShape
    <3> QED
      BY <2>2, <3>1, UserKept
  <2>6. Sole
    BY <1>4, <2>1, <2>3, <2>5
  <2>7. presenceFault \subseteq presenceFault' /\ isOnline'[userID[h]] = isOnline[userID[h]]
    <3>1. CASE SetOnline(f) \/ SetOffline(f)
      <4>1. userID[f] # userID[h]
        BY <2>4, <2>5, <3>1, SetOnlineEffect, SetOfflineEffect
      <4> QED
        BY <2>2, <3>1, <4>1, SetOnlineEffect, SetOfflineEffect
    <3>2. CASE ~SetOnline(f) /\ ~SetOffline(f)
      BY <1>4, <3>2, PresenceKinds, ConnectEffect, CloseEffect
    <3> QED
      BY <3>1, <3>2
  <2> QED
    BY <1>1, <2>1, <2>2, <2>6, <2>7
<1>5. ASSUME ConnStep(h) PROVE isOnline'[userID'[h]]
  <2>1. \A g \in Conns \ {h} : userID'[g] = userID[g]
    BY <1>5, OthersKept DEF LocalsKept
  <2>2. CASE SetOnline(h)
    BY <2>2, SetOnlineEffect DEF Serving
  <2>3. CASE Connect(h) \/ SetOffline(h) \/ Close(h)
    BY <2>3, ConnectEffect, SetOfflineEffect, CloseEffect DEF Serving
  <2>4. CASE ~Connect(h) /\ UNCHANGED <<isOnline, presenceFault, userID>> /\ pc[h] \in Serving
    <3>1. doneBefore' = doneBefore
      BY <1>5, <2>4
      DEF ConnStep, HandlerStep, GoStep, HandlerPanics, SendOnStream, ClientGone, SetOnline,
          ReadList, WriteOffline, DeleteList, Start, ReadFrame, Forward, Reply, ReadFails,
          SetOffline, Close, GoConnect, GoRecv, GoRecvFails, GoWrite, handlerVars
    <3> QED
      BY <1>1, <2>1, <2>4, <3>1
  <2> QED
    BY <1>5, <2>2, <2>3, <2>4, PresenceKinds
<1>6. CASE Crash
  BY <1>6, PresenceCrash DEF Serving
<1> QED
  BY <1>3, <1>4, <1>5, <1>6, Steps, ElsePresence

-----------------------------------------------------------------------------
(* The invariant and what follows from it.                                 *)

LEMMA WsInvInit == Init => WsInv
<1> SUFFICES ASSUME Init PROVE WsInv
  OBVIOUS
<1>1. TypeOK
  BY TypeInit
<1>2. \A h \in Conns : ConnShape(h)
  BY DEF Init, ConnShape, BeforeGo
<1>3. \A h \in Conns : Passed(h) = {}
  BY RangeEmpty DEF Init, Passed, FromList
<1>4. \A u \in Users : SeqRange(list[u]) = {}
  BY RangeEmpty DEF Init
<1>5. nextMsg = 1
  BY DEF Init
<1>6. MessagesKnown
  BY <1>3, <1>4, <1>5 DEF MessagesKnown, Messages
<1>7. DrainsAll /\ SolePresence
  BY DEF Init, DrainsAll, SolePresence, Serving
<1>8. MessageAccounting
  BY <1>5 DEF MessageAccounting
<1>9. AllInOrder
  BY RangeEmpty, IncreasingEmpty DEF Init, AllInOrder, WayInOrder, Below
<1>10. PassedOnce
  BY <1>3 DEF PassedOnce
<1>11. OnlineFor
  <2>1. \A h \in Conns : userID[h] = None
    BY DEF Init
  <2> QED
    BY <2>1, NoUser DEF OnlineFor
<1> QED
  BY <1>1, <1>2, <1>6, <1>7, <1>8, <1>9, <1>10, <1>11 DEF WsInv

LEMMA WsInvStep ==
  ASSUME WsInv, [Next]_vars
  PROVE  WsInv'
<1>1. /\ TypeOK /\ Shapes /\ MessagesKnown /\ DrainsAll /\ MessageAccounting /\ AllInOrder
      /\ PassedOnce /\ OnlineFor /\ SolePresence
  BY DEF WsInv, Shapes
<1>2. TypeOK' /\ Shapes'
  BY <1>1, TypeStep, ShapesStep
<1>3. MessagesKnown' /\ DrainsAll' /\ MessageAccounting'
  BY <1>1, <1>2, KnownStep, DrainsAllStep, AccountingStep
<1>4. AllInOrder' /\ PassedOnce'
  BY <1>1, <1>2, OrderStep, PassedOnceStep
<1>5. OnlineFor' /\ SolePresence'
  BY <1>1, OnlineForStep, SoleStep
<1> QED
  BY <1>2, <1>3, <1>4, <1>5 DEF WsInv, Shapes

\* WsHandler and its goroutine: the invariant that follows every message from
\* the offline list or the stream to the socket holds in every reachable state.
THEOREM ConnectionsFollowed == Spec => []WsInv
<1>1. WsInv /\ [Next]_vars => WsInv'
  BY WsInvStep
<1> QED
  BY <1>1, WsInvInit, PTL DEF Spec

\* No message that the chat service has for a user disappears in WsHandler, but
\* for one queued between its LRANGE and its DEL or taken to a client or stream
\* that was gone.
THEOREM NothingDisappears == Spec => []MessageAccounting
<1>1. WsInv => MessageAccounting
  BY DEF WsInv
<1> QED
  BY <1>1, ConnectionsFollowed, PTL

\* What WsHandler writes on one connection is in the order of the chat service,
\* the offline list and the stream together.
THEOREM ClientInOrder == Spec => []ConnectionInOrder
<1>1. WsInv => ConnectionInOrder
  BY DEF WsInv, AllInOrder, WayInOrder, Increasing, ConnectionInOrder
<1> QED
  BY <1>1, ConnectionsFollowed, PTL

\* Two connections of a user are never both handed the same message, unless their
\* handlers drained the list at the same time, a DEL failed or the gateway died
\* before it.
THEOREM HandedOutOnce == Spec => []WrittenOnce
<1>1. WsInv => WrittenOnce
  BY DEF WsInv, PassedOnce, Passed, WrittenOnce
<1> QED
  BY <1>1, ConnectionsFollowed, PTL

\* A user all of whose connections are over is offline, however the handlers
\* interleaved their updates of is_online, if none failed.
THEOREM OfflineInTheEnd == Spec => []PresenceSettles
<1>1. WsInv => PresenceSettles
  <2> SUFFICES ASSUME WsInv, NEW u \in Users, u \notin presenceFault, NEW h \in Conns,
                      userID[h] = u, \A g \in Conns : userID[g] = u => pc[g] = "done"
               PROVE  ~isOnline[u]
    BY DEF PresenceSettles
  <2>1. ~(\E g \in Conns : userID[g] = u /\ pc[g] \in Serving) /\ pc[h] # "set online"
    BY DEF Serving
  <2> QED
    BY <2>1 DEF WsInv, OnlineFor
<1> QED
  BY <1>1, ConnectionsFollowed, PTL

\* A user whose only connection is being served is online.
THEOREM OnlineWhileServed == Spec => []SolePresence
<1>1. WsInv => SolePresence
  BY DEF WsInv
<1> QED
  BY <1>1, ConnectionsFollowed, PTL

=============================================================================
