--------------------------- MODULE History_proofs ---------------------------
(* Theorems about History for every value of its constants.                *)
EXTENDS History, SequenceTheorems, FiniteSetTheorems, TLAPS

LEMMA Constants ==
  /\ Ids \subseteq Nat \ {0} /\ PathIds \subseteq Int
  /\ ReceiverLists \subseteq Seq(Int) \ {<<>>} /\ MaxTime \in Nat
  /\ None \notin Ids /\ None \notin {ToInt32(p) : p \in PathIds}
BY HistoryAssumption

Sendings == \A c \in Sends : SendShape(c)
Readings == \A r \in Reads : ReadShape(r) /\ LateOnes(r)

SendStep(c) == SendMessage(c) \/ Loop(c) \/ CreateMessages(c)
ReadStep(r) ==
  \/ ListMessage(r) \/ ListMessageBySender(r) \/ SenderName(r)
  \/ ReadFails(r) \/ SelectMessages(r) \/ SelectLatest(r)

LEMMA Steps ==
  ASSUME [Next]_vars
  PROVE  \/ \E c \in Sends : SendStep(c)
         \/ \E r \in Reads : ReadStep(r)
         \/ Tick
         \/ UNCHANGED vars
BY DEF Next, SendStep, ReadStep

-----------------------------------------------------------------------------
(* Rows and their numbers.                                                 *)

LEMMA RowAppended ==
  ASSUME NEW S, NEW q \in Seq(S), NEW x \in S
  PROVE  {Append(q, x)[n] : n \in 1 .. Len(Append(q, x))} = {q[n] : n \in 1 .. Len(q)} \cup {x}
<1>1. /\ Len(Append(q, x)) = Len(q) + 1 /\ Append(q, x)[Len(q) + 1] = x
      /\ \A n \in 1 .. Len(q) : Append(q, x)[n] = q[n]
  OBVIOUS
<1>2. 1 .. Len(q) + 1 = (1 .. Len(q)) \cup {Len(q) + 1}
  OBVIOUS
<1> QED
  BY <1>1, <1>2

LEMMA TurnTyped ==
  ASSUME NEW q, NEW S, NEW p \in Seq(S), q \in Seq(Int), Len(p) < Len(q)
  PROVE  /\ Len(p) + 1 \in Nat \ {0} /\ q[Len(p) + 1] \in Int
         /\ Len(p) + 1 <= Len(q)
<1>1. Len(p) \in Nat /\ Len(q) \in Nat
  OBVIOUS
<1>2. Len(p) + 1 \in 1 .. Len(q)
  BY <1>1
<1> QED
  BY <1>1, <1>2

LEMMA AppendTyped ==
  ASSUME NEW S, NEW q \in Seq(S), NEW x \in S
  PROVE  Append(q, x) \in Seq(S) /\ Len(Append(q, x)) = Len(q) + 1
OBVIOUS

\* The row that a turn of the loop makes.
LEMMA RowTyped ==
  ASSUME TypeOK, Sendings, NEW c \in Sends, Loop(c)
  PROVE  /\ Message(c, Len(pending[c]) + 1) \in MessageRows
         /\ Message(c, Len(pending[c]) + 1).call = c
         /\ Message(c, Len(pending[c]) + 1).createdAt = now
         /\ Len(pending[c]) + 1 <= Len(receiverIDs[c])
         /\ pending[c] \in Seq(MessageRows)
         /\ pending' = [pending EXCEPT ![c] = Append(pending[c], Message(c, Len(pending[c]) + 1))]
<1>1. /\ sendPc[c] = "loop" /\ Len(pending[c]) < Len(receiverIDs[c])
      /\ pending' = [pending EXCEPT ![c] = Append(pending[c], Message(c, Len(pending[c]) + 1))]
  BY DEF Loop
<1>2. sender[c] \in Ids /\ receiverIDs[c] # <<>>
  BY <1>1 DEF Sendings, SendShape
<1>3. receiverIDs[c] \in Seq(Int)
  <2>1. receiverIDs[c] \in ReceiverLists \cup {<<>>}
    BY DEF TypeOK
  <2> QED
    BY <1>2, <2>1, Constants
<1>4. pending[c] \in Seq(MessageRows) /\ now \in 0 .. MaxTime
  BY DEF TypeOK
<1>5. /\ Len(pending[c]) + 1 \in Nat \ {0} /\ receiverIDs[c][Len(pending[c]) + 1] \in Int
      /\ Len(pending[c]) + 1 <= Len(receiverIDs[c])
  BY <1>1, <1>3, <1>4, TurnTyped
<1> QED
  BY <1>1, <1>2, <1>4, <1>5 DEF Message, MessageRows

\* The answers that Postgres may give.
LEMMA ListingTyped ==
  ASSUME NEW S, S \subseteq MessageRows, IsFiniteSet(S), NEW q \in Listings(S)
  PROVE  /\ q \in Seq(MessageRows) /\ InOrder(q)
         /\ Len(q) \in Nat /\ DOMAIN q = 1 .. Len(q)
         /\ {q[i] : i \in DOMAIN q} = S
<1>1. Cardinality(S) \in Nat
  BY FS_CardinalityType
<1>2. /\ q \in [1 .. Cardinality(S) -> S] /\ InOrder(q)
      /\ \A m \in S : \E i \in DOMAIN q : q[i] = m
  BY DEF Listings
<1>3. q \in Seq(S)
  BY <1>1, <1>2
<1>4. q \in Seq(MessageRows)
  BY <1>3, SeqMonotonic
<1> QED
  BY <1>2, <1>3, <1>4, LenProperties

LEMMA AskedTyped ==
  ASSUME TypeOK, NEW S, S \subseteq messages
  PROVE  S \subseteq MessageRows /\ IsFiniteSet(S)
BY FS_Subset DEF TypeOK

-----------------------------------------------------------------------------
(* Type correctness.                                                       *)

LEMMA TypeInit == Init => TypeOK
<1> SUFFICES ASSUME Init PROVE TypeOK
  OBVIOUS
<1>1. 0 \in 0 .. MaxTime
  BY Constants
<1>2. IsFiniteSet({}) /\ Len(<<>>) = 0 /\ <<>> \in Seq(MessageRows)
  BY FS_EmptySet, EmptySeq
<1>3. \A c \in Sends : Len(pending[c]) <= Len(receiverIDs[c])
  BY <1>2 DEF Init
<1> QED
  BY <1>1, <1>2, <1>3 DEF Init, TypeOK

LEMMA TypeSend ==
  ASSUME TypeOK, Sendings, NEW c \in Sends, SendStep(c)
  PROVE  TypeOK'
<1>0. UNCHANGED <<now, readPc, userID, senderId, listed, latest, readBefore, inFlight>>
  BY DEF SendStep, SendMessage, Loop, CreateMessages, readVars, answerVars
<1>1. CASE SendMessage(c)
  <2>1. sendPc' \in [Sends -> {"idle", "loop", "ok", "failed"}]
    BY <1>1 DEF SendMessage, TypeOK
  <2>2. sender' \in [Sends -> Ids \cup {None}]
    BY <1>1 DEF SendMessage, TypeOK
  <2>3. receiverIDs' \in [Sends -> ReceiverLists \cup {<<>>}]
    BY <1>1 DEF SendMessage, TypeOK
  <2>4. returnedBefore' \in [Sends -> SUBSET Sends]
    BY <1>1 DEF SendMessage, TypeOK
  <2>5. UNCHANGED <<pending, messages>>
    BY <1>1 DEF SendMessage
  <2>6. \A d \in Sends : Len(pending'[d]) <= Len(receiverIDs'[d])
    <3>1. pending[c] = <<>>
      BY <1>1 DEF SendMessage, Sendings, SendShape
    <3>2. PICK rs \in ReceiverLists : receiverIDs' = [receiverIDs EXCEPT ![c] = rs]
      BY <1>1 DEF SendMessage
    <3>3. Len(rs) \in Nat /\ Len(<<>>) = 0
      <4>1. rs \in Seq(Int)
        BY <3>2, Constants
      <4> QED
        BY <4>1, LenProperties, EmptySeq
    <3>4. Len(pending'[c]) <= Len(receiverIDs'[c])
      <4>1. receiverIDs'[c] = rs /\ pending'[c] = <<>>
        BY <2>5, <3>1, <3>2 DEF TypeOK
      <4> QED
        BY <3>3, <4>1
    <3>5. \A d \in Sends : Len(pending[d]) <= Len(receiverIDs[d])
      BY DEF TypeOK
    <3>6. \A d \in Sends \ {c} : receiverIDs'[d] = receiverIDs[d] /\ pending'[d] = pending[d]
      BY <2>5, <3>2 DEF TypeOK
    <3> QED
      BY <3>4, <3>5, <3>6
  <2> QED
    BY <1>0, <2>1, <2>2, <2>3, <2>4, <2>5, <2>6 DEF TypeOK
<1>2. CASE Loop(c)
  <2>1. /\ Append(pending[c], Message(c, Len(pending[c]) + 1)) \in Seq(MessageRows)
        /\ Len(Append(pending[c], Message(c, Len(pending[c]) + 1))) = Len(pending[c]) + 1
    BY <1>2, RowTyped, AppendTyped
  <2>2. pending' \in [Sends -> Seq(MessageRows)]
    <3>1. pending' = [pending EXCEPT ![c] = Append(pending[c], Message(c, Len(pending[c]) + 1))]
      BY <1>2, RowTyped
    <3>2. pending \in [Sends -> Seq(MessageRows)]
      BY DEF TypeOK
    <3> QED
      BY <2>1, <3>1, <3>2
  <2>3. UNCHANGED <<sendPc, sender, receiverIDs, returnedBefore, messages>>
    BY <1>2 DEF Loop
  <2>4. \A d \in Sends : Len(pending'[d]) <= Len(receiverIDs'[d])
    <3>1. Len(pending'[c]) <= Len(receiverIDs[c])
      BY <1>2, <2>1, RowTyped DEF TypeOK
    <3>2. \A d \in Sends \ {c} : pending'[d] = pending[d]
      BY <1>2 DEF Loop, TypeOK
    <3>3. \A d \in Sends : Len(pending[d]) <= Len(receiverIDs[d])
      BY DEF TypeOK
    <3> QED
      BY <2>3, <3>1, <3>2, <3>3
  <2> QED
    BY <1>0, <2>2, <2>3, <2>4 DEF TypeOK
<1>3. CASE CreateMessages(c)
  <2>1. sendPc' \in [Sends -> {"idle", "loop", "ok", "failed"}]
    BY <1>3 DEF CreateMessages, TypeOK
  <2>2. UNCHANGED <<sender, receiverIDs, pending, returnedBefore>>
    BY <1>3 DEF CreateMessages
  <2>3. messages' = messages \/ messages' = messages \cup Rows(c)
    BY <1>3 DEF CreateMessages, Insert
  <2>4. Rows(c) \subseteq MessageRows
    BY ElementOfSeq DEF TypeOK, Rows
  <2>5. IsFiniteSet(Rows(c)) /\ IsFiniteSet(messages) /\ messages \subseteq MessageRows
    BY DEF TypeOK, Sendings, SendShape
  <2>6. messages' \subseteq MessageRows /\ IsFiniteSet(messages')
    BY <2>3, <2>4, <2>5, FS_Union
  <2> QED
    BY <1>0, <2>1, <2>2, <2>6 DEF TypeOK
<1> QED
  BY <1>1, <1>2, <1>3 DEF SendStep

LEMMA TypeRead ==
  ASSUME TypeOK, NEW r \in Reads, ReadStep(r)
  PROVE  TypeOK'
<1>0. UNCHANGED <<now, sendPc, sender, receiverIDs, pending, returnedBefore, messages>>
  BY DEF ReadStep, ListMessage, ListMessageBySender, SenderName, ReadFails, SelectMessages,
         SelectLatest, BeginRead, Answer, sendVars
<1>1. readPc' \in [Reads -> {"idle", "name", "messages", "latest", "answered", "failed"}]
  <2>1. \E l \in {"idle", "name", "messages", "latest", "answered", "failed"} :
          readPc' = [readPc EXCEPT ![r] = l]
    BY DEF ReadStep, ListMessage, ListMessageBySender, SenderName, ReadFails, SelectMessages,
           SelectLatest, Answer
  <2> QED
    BY <2>1 DEF TypeOK
<1>2. userID' \in [Reads -> Ids \cup {None}]
  <2>1. userID' = userID \/ \E u \in Ids : userID' = [userID EXCEPT ![r] = u]
    BY DEF ReadStep, ListMessage, ListMessageBySender, SenderName, ReadFails, SelectMessages,
           SelectLatest, BeginRead, Answer
  <2> QED
    BY <2>1 DEF TypeOK
<1>3. senderId' \in [Reads -> {ToInt32(p) : p \in PathIds} \cup {None}]
  <2>1. senderId' = senderId \/ \E p \in PathIds : senderId' = [senderId EXCEPT ![r] = ToInt32(p)]
    BY DEF ReadStep, ListMessage, ListMessageBySender, SenderName, ReadFails, SelectMessages,
           SelectLatest, Answer
  <2> QED
    BY <2>1 DEF TypeOK
<1>4. listed' \in [Reads -> Seq(MessageRows)]
  <2>1. \/ listed' = listed
        \/ \E q \in Listings(From(SentTo(userID[r]), senderId[r])) : listed' = [listed EXCEPT ![r] = q]
    BY DEF ReadStep, ListMessage, ListMessageBySender, SenderName, ReadFails, SelectMessages,
           SelectLatest, BeginRead, answerVars
  <2>2. From(SentTo(userID[r]), senderId[r]) \subseteq messages
    BY DEF From, SentTo
  <2>3. \A q \in Listings(From(SentTo(userID[r]), senderId[r])) : q \in Seq(MessageRows)
    BY <2>2, AskedTyped, ListingTyped
  <2> QED
    BY <2>1, <2>3 DEF TypeOK
<1>5. latest' \in [Reads -> SUBSET MessageRows]
  <2>1. \/ latest' = latest
        \/ \E T \in LatestOfSenders(SentTo(userID[r])) : latest' = [latest EXCEPT ![r] = T]
    BY DEF ReadStep, ListMessage, ListMessageBySender, SenderName, ReadFails, SelectMessages,
           SelectLatest, BeginRead, answerVars
  <2>2. \A T \in LatestOfSenders(SentTo(userID[r])) : T \subseteq MessageRows
    BY DEF LatestOfSenders, FirstOfSender, SentTo, TypeOK
  <2> QED
    BY <2>1, <2>2 DEF TypeOK
<1>6. readBefore' \in [Reads -> SUBSET Reads]
  <2>1. readBefore' = readBefore \/ \E X \in SUBSET Reads : readBefore' = [readBefore EXCEPT ![r] = X]
    BY DEF ReadStep, ListMessage, ListMessageBySender, SenderName, ReadFails, SelectMessages,
           SelectLatest, BeginRead, Answer
  <2> QED
    BY <2>1 DEF TypeOK
<1>7. inFlight' \in [Reads -> SUBSET Sends]
  <2>1. inFlight' = inFlight \/ \E X \in SUBSET Sends : inFlight' = [inFlight EXCEPT ![r] = X]
    BY DEF ReadStep, ListMessage, ListMessageBySender, SenderName, ReadFails, SelectMessages,
           SelectLatest, BeginRead, Answer, answerVars
  <2> QED
    BY <2>1 DEF TypeOK
<1> QED
  BY <1>0, <1>1, <1>2, <1>3, <1>4, <1>5, <1>6, <1>7 DEF TypeOK

LEMMA TypeStep ==
  ASSUME TypeOK, Sendings, [Next]_vars
  PROVE  TypeOK'
<1>1. CASE Tick
  <2>1. /\ now' = now + 1 /\ now < MaxTime
        /\ UNCHANGED <<sendPc, sender, receiverIDs, pending, returnedBefore, messages, readPc,
                       userID, senderId, listed, latest, readBefore, inFlight>>
    BY <1>1 DEF Tick, sendVars, readVars, answerVars
  <2>2. now' \in 0 .. MaxTime
    BY <2>1, Constants DEF TypeOK
  <2> QED
    BY <2>1, <2>2 DEF TypeOK
<1>2. CASE UNCHANGED vars
  BY <1>2 DEF vars, sendVars, readVars, answerVars, TypeOK
<1> QED
  BY <1>1, <1>2, Steps, TypeSend, TypeRead

-----------------------------------------------------------------------------
(* What a step does to the rows.                                           *)

LEMMA RowsStep ==
  ASSUME TypeOK, Sendings, [Next]_vars, NEW c \in Sends
  PROVE  \/ Rows(c)' = Rows(c)
         \/ /\ Loop(c) /\ sendPc[c] = "loop"
            /\ Rows(c)' = Rows(c) \cup {Message(c, Len(pending[c]) + 1)}
<1>1. CASE Loop(c)
  <2>1. /\ pending' = [pending EXCEPT ![c] = Append(pending[c], Message(c, Len(pending[c]) + 1))]
        /\ pending[c] \in Seq(MessageRows) /\ Message(c, Len(pending[c]) + 1) \in MessageRows
    BY <1>1, RowTyped
  <2>2. pending'[c] = Append(pending[c], Message(c, Len(pending[c]) + 1))
    BY <2>1 DEF TypeOK
  <2>3. Rows(c)' = {Append(pending[c], Message(c, Len(pending[c]) + 1))[n] :
                      n \in 1 .. Len(Append(pending[c], Message(c, Len(pending[c]) + 1)))}
    BY <2>2 DEF Rows
  <2> QED
    BY <1>1, <2>1, <2>3, RowAppended DEF Rows, Loop
<1>2. CASE ~Loop(c)
  <2>1. pending'[c] = pending[c]
    <3>1. ASSUME NEW d \in Sends, Loop(d) PROVE pending'[c] = pending[c]
      BY <1>2, <3>1 DEF Loop, TypeOK
    <3> QED
      BY <3>1
      DEF Next, vars, sendVars, SendMessage, CreateMessages, ListMessage, ListMessageBySender,
          SenderName, ReadFails, SelectMessages, SelectLatest, BeginRead, Answer, Tick
  <2> QED
    BY <2>1 DEF Rows
<1> QED
  BY <1>1, <1>2

LEMMA RowsGrow ==
  ASSUME TypeOK, Sendings, [Next]_vars, NEW c \in Sends
  PROVE  Rows(c) \subseteq Rows(c)'
BY RowsStep

\* A step of a call is a step of nobody else.
LEMMA SendKept ==
  ASSUME TypeOK, [Next]_vars, NEW c \in Sends, ~SendStep(c)
  PROVE  /\ sendPc'[c] = sendPc[c] /\ sender'[c] = sender[c]
         /\ receiverIDs'[c] = receiverIDs[c] /\ pending'[c] = pending[c]
         /\ returnedBefore'[c] = returnedBefore[c]
<1>1. ASSUME NEW d \in Sends, SendStep(d), d # c
      PROVE  /\ sendPc'[c] = sendPc[c] /\ sender'[c] = sender[c]
             /\ receiverIDs'[c] = receiverIDs[c] /\ pending'[c] = pending[c]
             /\ returnedBefore'[c] = returnedBefore[c]
  <2>1. CASE SendMessage(d)
    BY <1>1, <2>1 DEF SendMessage, TypeOK
  <2>2. CASE Loop(d)
    BY <1>1, <2>2 DEF Loop, TypeOK
  <2>3. CASE CreateMessages(d)
    BY <1>1, <2>3 DEF CreateMessages, TypeOK
  <2> QED
    BY <1>1, <2>1, <2>2, <2>3 DEF SendStep
<1>2. ASSUME NEW r \in Reads, ReadStep(r) PROVE UNCHANGED sendVars
  BY <1>2 DEF ReadStep, ListMessage, ListMessageBySender, SenderName, ReadFails, SelectMessages,
              SelectLatest, BeginRead, Answer
<1> QED
  BY <1>1, <1>2, Steps DEF Tick, vars, sendVars

LEMMA ReturnedKept ==
  ASSUME TypeOK, [Next]_vars, NEW c \in Sends, Returned(c)
  PROVE  Returned(c)' /\ returnedBefore'[c] = returnedBefore[c] /\ ~SendStep(c)
<1>1. ~SendStep(c)
  BY DEF SendStep, SendMessage, Loop, CreateMessages, Returned
<1> QED
  BY <1>1, SendKept DEF Returned

LEMMA MessagesStep ==
  ASSUME TypeOK, Sendings, [Next]_vars
  PROVE  \/ messages' = messages
         \/ \E c \in Sends : /\ CreateMessages(c) /\ sendPc[c] = "loop" /\ Returned(c)'
                             /\ messages' = messages \cup Rows(c) /\ Rows(c)' = Rows(c)
<1>1. ASSUME NEW c \in Sends, CreateMessages(c), messages' # messages
      PROVE  /\ sendPc[c] = "loop" /\ Returned(c)' /\ messages' = messages \cup Rows(c)
             /\ Rows(c)' = Rows(c)
  <2>1. Returned(c)'
    BY <1>1 DEF CreateMessages, Returned, TypeOK
  <2>2. Rows(c)' = Rows(c)
    BY <1>1 DEF CreateMessages, Rows
  <2> QED
    BY <1>1, <2>1, <2>2 DEF CreateMessages, Insert
<1>2. ASSUME NEW r \in Reads, ReadStep(r) PROVE messages' = messages
  BY <1>2 DEF ReadStep, ListMessage, ListMessageBySender, SenderName, ReadFails, SelectMessages,
              SelectLatest, BeginRead, Answer
<1> QED
  BY <1>1, <1>2, Steps DEF SendStep, SendMessage, Loop, Tick, vars

LEMMA NowGrows ==
  ASSUME TypeOK, [Next]_vars
  PROVE  now \in Nat /\ now' \in Nat /\ now <= now'
<1>1. now \in Nat
  BY DEF TypeOK
<1>2. now' = now \/ now' = now + 1
  BY Steps DEF SendStep, SendMessage, Loop, CreateMessages, ReadStep, ListMessage,
     ListMessageBySender, SenderName, ReadFails, SelectMessages, SelectLatest, BeginRead, Answer,
     Tick, vars
<1> QED
  BY <1>1, <1>2

LEMMA RowNumbers ==
  ASSUME TypeOK, NEW c \in Sends
  PROVE  Rows(c) \subseteq MessageRows /\ \A m \in Rows(c) : m.createdAt \in Nat
<1>1. Rows(c) \subseteq MessageRows
  BY ElementOfSeq DEF TypeOK, Rows
<1>2. \A m \in MessageRows : m.createdAt \in Nat
  BY DEF MessageRows
<1> QED
  BY <1>1, <1>2

LEMMA SendingsStep ==
  ASSUME TypeOK, TypeOK', Sendings, [Next]_vars
  PROVE  Sendings'
<1> SUFFICES ASSUME NEW c \in Sends PROVE SendShape(c)'
  BY DEF Sendings
<1>1. SendShape(c)
  BY DEF Sendings
<1>2. IsFiniteSet(Rows(c)')
  BY <1>1, RowsStep, FS_AddElement DEF SendShape
<1>3. ASSUME NEW m \in Rows(c)' PROVE m.call = c /\ m.createdAt <= now'
  <2>1. CASE m \in Rows(c)
    <3>1. m.call = c /\ m.createdAt <= now /\ m.createdAt \in Nat
      BY <1>1, <2>1, RowNumbers DEF SendShape
    <3> QED
      BY <3>1, NowGrows
  <2>2. CASE Loop(c) /\ m = Message(c, Len(pending[c]) + 1)
    BY <2>2, RowTyped, NowGrows
  <2> QED
    BY <1>3, <2>1, <2>2, RowsStep
<1>4. returnedBefore'[c] \subseteq {d \in Sends : Returned(d)'}
  <2>1. returnedBefore'[c] \subseteq {d \in Sends : Returned(d)}
    <3>1. returnedBefore'[c] = returnedBefore[c] \/ returnedBefore'[c] = {d \in Sends : Returned(d)}
      <4>1. CASE SendStep(c)
        BY <4>1 DEF SendStep, SendMessage, Loop, CreateMessages, TypeOK
      <4> QED
        BY <4>1, SendKept
    <3> QED
      BY <1>1, <3>1 DEF SendShape
  <2> QED
    BY <2>1, ReturnedKept
<1>5. /\ sendPc'[c] = "idle" => pending'[c] = <<>>
      /\ sendPc'[c] = "loop" => receiverIDs'[c] # <<>> /\ sender'[c] \in Ids
  <2>1. CASE SendMessage(c)
    <3>1. PICK rs \in ReceiverLists : receiverIDs' = [receiverIDs EXCEPT ![c] = rs]
      BY <2>1 DEF SendMessage
    <3>2. rs # <<>>
      BY <3>1, Constants
    <3> QED
      BY <2>1, <3>1, <3>2 DEF SendMessage, TypeOK
  <2>2. CASE Loop(c)
    BY <1>1, <2>2 DEF Loop, SendShape
  <2>3. CASE CreateMessages(c)
    BY <2>3 DEF CreateMessages, TypeOK
  <2>4. CASE ~SendStep(c)
    BY <1>1, <2>4, SendKept DEF SendShape
  <2> QED
    BY <2>1, <2>2, <2>3, <2>4 DEF SendStep
<1> QED
  BY <1>2, <1>3, <1>4, <1>5 DEF SendShape, Rows, Returned

LEMMA CommittedStep ==
  ASSUME TypeOK, Sendings, RowsCommitted, [Next]_vars
  PROVE  RowsCommitted'
<1> SUFFICES ASSUME NEW m \in messages' PROVE m \in Rows(m.call)' /\ Returned(m.call)'
  BY DEF RowsCommitted, Rows, Returned
<1>1. CASE m \in messages
  <2>1. m \in Rows(m.call) /\ Returned(m.call) /\ m.call \in Sends
    BY <1>1 DEF RowsCommitted, TypeOK, MessageRows
  <2> QED
    BY <2>1, RowsGrow, ReturnedKept
<1>2. ASSUME NEW c \in Sends, m \in Rows(c), Returned(c)', Rows(c)' = Rows(c)
      PROVE  m \in Rows(m.call)' /\ Returned(m.call)'
  <2>1. m.call = c
    BY <1>2 DEF Sendings, SendShape
  <2> QED
    BY <1>2, <2>1
<1> QED
  BY <1>1, <1>2, MessagesStep

LEMMA TurnStep ==
  ASSUME TypeOK, Sendings, SentInTurn, [Next]_vars
  PROVE  SentInTurn'
<1> SUFFICES ASSUME NEW c \in Sends, NEW d \in Sends, d \in returnedBefore'[c],
                    NEW m \in Rows(c)', NEW k \in Rows(d)'
             PROVE  k.createdAt <= m.createdAt
  BY DEF SentInTurn, Rows
<1>1. CASE SendMessage(c)
  <2>1. pending'[c] = <<>>
    BY <1>1 DEF SendMessage, Sendings, SendShape
  <2>2. Rows(c)' = {}
    BY <2>1 DEF Rows
  <2> QED
    BY <2>2
<1>2. CASE ~SendMessage(c)
  <2>1. d \in returnedBefore[c]
    BY <1>2, SendKept DEF SendStep, Loop, CreateMessages
  <2>2. Returned(d)
    BY <2>1 DEF Sendings, SendShape
  <2>3. k \in Rows(d) /\ k.createdAt \in Nat
    <3>1. ~Loop(d)
      BY <2>2 DEF Returned, Loop
    <3> QED
      BY <3>1, RowsStep, RowNumbers
  <2>4. CASE m \in Rows(c)
    BY <2>1, <2>3, <2>4 DEF SentInTurn
  <2>5. CASE Loop(c) /\ m = Message(c, Len(pending[c]) + 1)
    <3>1. m.createdAt = now /\ k.createdAt <= now
      BY <2>3, <2>5, RowTyped DEF Sendings, SendShape
    <3> QED
      BY <3>1
  <2> QED
    BY <2>4, <2>5, RowsStep
<1> QED
  BY <1>1, <1>2

-----------------------------------------------------------------------------
(* What a step does to the reads.                                          *)

ReadKept(r) ==
  /\ readPc'[r] = readPc[r] /\ userID'[r] = userID[r] /\ senderId'[r] = senderId[r]
  /\ listed'[r] = listed[r] /\ latest'[r] = latest[r]
  /\ readBefore'[r] = readBefore[r] /\ inFlight'[r] = inFlight[r]

LEMMA OtherReadsKept ==
  ASSUME TypeOK, [Next]_vars, NEW r \in Reads, ~ReadStep(r)
  PROVE  ReadKept(r)
<1>1. ASSUME NEW s \in Reads, ReadStep(s), s # r PROVE ReadKept(r)
  <2>1. /\ DOMAIN readPc = Reads /\ DOMAIN userID = Reads /\ DOMAIN senderId = Reads
        /\ DOMAIN listed = Reads /\ DOMAIN latest = Reads /\ DOMAIN readBefore = Reads
        /\ DOMAIN inFlight = Reads
    BY DEF TypeOK
  <2> USE <2>1 DEF ReadKept, BeginRead, Answer, answerVars
  <2>2. CASE ListMessage(s)
    BY <1>1, <2>2 DEF ListMessage
  <2>3. CASE ListMessageBySender(s)
    BY <1>1, <2>3 DEF ListMessageBySender
  <2>4. CASE SenderName(s)
    BY <1>1, <2>4 DEF SenderName
  <2>5. CASE ReadFails(s)
    BY <1>1, <2>5 DEF ReadFails
  <2>6. CASE SelectMessages(s)
    BY <1>1, <2>6 DEF SelectMessages
  <2>7. CASE SelectLatest(s)
    BY <1>1, <2>7 DEF SelectLatest
  <2> QED
    BY <1>1, <2>2, <2>3, <2>4, <2>5, <2>6, <2>7 DEF ReadStep
<1>2. ASSUME NEW c \in Sends, SendStep(c) PROVE UNCHANGED readVars
  BY <1>2 DEF SendStep, SendMessage, Loop, CreateMessages
<1> QED
  BY <1>1, <1>2, Steps DEF Tick, vars, readVars, answerVars, ReadKept

LEMMA AnsweredKept ==
  ASSUME TypeOK, [Next]_vars, NEW r \in Reads, Answered(r)
  PROVE  ReadKept(r) /\ Answered(r)'
<1>1. ~ReadStep(r)
  BY DEF ReadStep, ListMessage, ListMessageBySender, BeginRead, SenderName, ReadFails,
         SelectMessages, SelectLatest, Answered
<1> QED
  BY <1>1, OtherReadsKept DEF ReadKept, Answered

LEMMA ReadOnly ==
  ASSUME NEW r \in Reads, ReadStep(r)
  PROVE  UNCHANGED <<now, sendVars, messages>>
BY DEF ReadStep, ListMessage, ListMessageBySender, SenderName, ReadFails, SelectMessages,
       SelectLatest, BeginRead, Answer

LEMMA SelectMessagesEffect ==
  ASSUME TypeOK, Readings, NEW r \in Reads, SelectMessages(r)
  PROVE  /\ readPc[r] = "messages" /\ readPc'[r] = "answered"
         /\ UNCHANGED <<messages, userID, senderId, latest, readBefore, sendVars>>
         /\ userID[r] \in Ids /\ senderId[r] # None /\ latest[r] = {}
         /\ listed'[r] \in Seq(MessageRows) /\ InOrder(listed'[r])
         /\ Len(listed'[r]) \in Nat /\ DOMAIN listed'[r] = 1 .. Len(listed'[r])
         /\ Shown(r)' = Asked(r) /\ Asked(r)' = Asked(r)
         /\ inFlight'[r] = {c \in Sends : sendPc[c] = "loop"}
<1>1. /\ readPc[r] = "messages" /\ userID[r] \in Ids /\ senderId[r] # None /\ latest[r] = {}
  BY DEF SelectMessages, Readings, ReadShape
<1>2. /\ readPc'[r] = "answered"
      /\ UNCHANGED <<messages, userID, senderId, latest, readBefore, sendVars>>
      /\ inFlight'[r] = {c \in Sends : sendPc[c] = "loop"}
  BY DEF SelectMessages, Answer, TypeOK
<1>3. PICK q \in Listings(Asked(r)) : listed' = [listed EXCEPT ![r] = q]
  BY DEF SelectMessages, Asked
<1>4. Asked(r) \subseteq messages
  BY DEF Asked, From, SentTo
<1>5. /\ q \in Seq(MessageRows) /\ InOrder(q) /\ Len(q) \in Nat /\ DOMAIN q = 1 .. Len(q)
      /\ {q[i] : i \in DOMAIN q} = Asked(r)
  BY <1>3, <1>4, AskedTyped, ListingTyped
<1>6. listed'[r] = q
  BY <1>3 DEF TypeOK
<1>7. Shown(r)' = Asked(r)
  BY <1>5, <1>6 DEF Shown
<1>8. Asked(r)' = Asked(r)
  BY <1>2 DEF Asked, From, SentTo
<1> QED
  BY <1>1, <1>2, <1>5, <1>6, <1>7, <1>8

LEMMA SelectLatestEffect ==
  ASSUME TypeOK, Readings, NEW r \in Reads, SelectLatest(r)
  PROVE  /\ readPc[r] = "latest" /\ readPc'[r] = "answered"
         /\ UNCHANGED <<messages, userID, senderId, listed, readBefore, sendVars>>
         /\ userID[r] \in Ids /\ senderId[r] = None /\ listed[r] = <<>>
         /\ latest'[r] \subseteq SentTo(userID[r])
         /\ \A u \in Ids : \A m \in From(SentTo(userID[r]), u) :
              \E k \in From(latest'[r], u) : m.createdAt <= k.createdAt
         /\ inFlight'[r] = {c \in Sends : sendPc[c] = "loop"}
<1>1. readPc[r] = "latest" /\ userID[r] \in Ids /\ senderId[r] = None /\ listed[r] = <<>>
  BY DEF SelectLatest, Readings, ReadShape
<1>2. /\ readPc'[r] = "answered"
      /\ UNCHANGED <<messages, userID, senderId, listed, readBefore, sendVars>>
      /\ inFlight'[r] = {c \in Sends : sendPc[c] = "loop"}
  BY DEF SelectLatest, Answer, TypeOK
<1>3. PICK T \in LatestOfSenders(SentTo(userID[r])) : latest' = [latest EXCEPT ![r] = T]
  BY DEF SelectLatest
<1>4. latest'[r] = T
  BY <1>3 DEF TypeOK
<1>5. /\ T \subseteq FirstOfSender(SentTo(userID[r]))
      /\ {m.from : m \in T} = {m.from : m \in SentTo(userID[r])} \cap Ids
  BY <1>3 DEF LatestOfSenders
<1>6. \A m \in messages : m.createdAt \in Nat
  BY DEF TypeOK, MessageRows
<1>7. ASSUME NEW u \in Ids, NEW m \in From(SentTo(userID[r]), u)
      PROVE  \E k \in From(T, u) : m.createdAt <= k.createdAt
  <2>1. m \in SentTo(userID[r]) /\ m.from = u /\ m \in messages
    BY <1>7 DEF From, SentTo
  <2>2. PICK k \in T : k.from = u
    BY <1>5, <2>1
  <2>3. k \in FirstOfSender(SentTo(userID[r])) /\ k \in messages
    BY <1>5, <2>2 DEF FirstOfSender, SentTo
  <2>4. k.createdAt >= m.createdAt
    BY <1>7, <2>2, <2>3 DEF FirstOfSender
  <2>5. m.createdAt <= k.createdAt
    BY <1>6, <2>1, <2>3, <2>4
  <2> QED
    BY <2>2, <2>5 DEF From
<1>8. latest'[r] \subseteq SentTo(userID[r])
  BY <1>4, <1>5 DEF FirstOfSender
<1> QED
  BY <1>1, <1>2, <1>4, <1>7, <1>8

LEMMA MessagesGrow ==
  ASSUME TypeOK, Sendings, [Next]_vars
  PROVE  messages \subseteq messages'
BY MessagesStep

LEMMA ShapeStep ==
  ASSUME TypeOK, Sendings, Readings, [Next]_vars, NEW r \in Reads
  PROVE  ReadShape(r)'
<1>1. ReadShape(r) /\ messages \subseteq messages'
  BY MessagesGrow DEF Readings
<1>2. \A s \in Reads : Answered(s) => Answered(s)'
  BY AnsweredKept
<1>3. CASE ReadKept(r)
  <2>1. Shown(r)' = Shown(r)
    BY <1>3 DEF ReadKept, Shown
  <2>2. Asked(r) \subseteq Asked(r)' /\ SentTo(userID[r]) \subseteq SentTo(userID[r])'
    BY <1>1, <1>3 DEF ReadKept, Asked, From, SentTo
  <2>3. SentTo(userID[r]) \subseteq {m \in messages' : m.to = userID'[r]}
    BY <1>1, <1>3 DEF ReadKept, SentTo
  <2>4. Shown(r)' \subseteq Asked(r)' /\ latest'[r] \subseteq {m \in messages' : m.to = userID'[r]}
    BY <1>1, <1>3, <2>1, <2>2, <2>3 DEF ReadShape, ReadKept
  <2>5. readBefore'[r] \subseteq {s \in Reads : Answered(s)'}
    BY <1>1, <1>2, <1>3 DEF ReadShape, ReadKept
  <2>6. InOrder(listed[r])'
    BY <1>1, <1>3 DEF ReadShape, ReadKept, InOrder
  <2> QED
    BY <1>1, <1>3, <2>4, <2>5, <2>6 DEF ReadShape, ReadKept, SentTo, Answered
<1>4. CASE SelectMessages(r)
  <2>1. Shown(r)' \subseteq Asked(r)'
    BY <1>4, SelectMessagesEffect
  <2>2. readBefore'[r] \subseteq {s \in Reads : Answered(s)'}
    BY <1>1, <1>2, <1>4, SelectMessagesEffect DEF ReadShape
  <2>3. InOrder(listed[r])'
    BY <1>4, SelectMessagesEffect DEF InOrder
  <2> QED
    BY <1>4, <2>1, <2>2, <2>3, SelectMessagesEffect DEF ReadShape, Answered
<1>5. CASE SelectLatest(r)
  <2>1. Shown(r)' = {} /\ listed'[r] = <<>>
    BY <1>5, SelectLatestEffect DEF Shown
  <2>2. readBefore'[r] \subseteq {s \in Reads : Answered(s)'}
    BY <1>1, <1>2, <1>5, SelectLatestEffect DEF ReadShape
  <2>3. InOrder(listed[r])'
    BY <2>1 DEF InOrder
  <2>4. latest'[r] \subseteq SentTo(userID[r])'
    BY <1>5, SelectLatestEffect DEF SentTo
  <2> QED
    BY <1>5, <2>1, <2>2, <2>3, <2>4, SelectLatestEffect DEF ReadShape, Answered, SentTo
<1>6. CASE ListMessage(r) \/ ListMessageBySender(r) \/ SenderName(r) \/ ReadFails(r)
  <2>0. readPc[r] # "answered" /\ messages' = messages
    BY <1>6 DEF ListMessage, ListMessageBySender, SenderName, ReadFails, BeginRead
  <2>1. listed[r] = <<>> /\ latest[r] = {}
    BY <1>1, <2>0 DEF ReadShape
  <2>2. listed'[r] = <<>> /\ latest'[r] = {}
    BY <1>6, <2>1 DEF ListMessage, ListMessageBySender, SenderName, ReadFails, BeginRead, answerVars
  <2>3. Shown(r)' = {} /\ InOrder(listed[r])'
    BY <2>2 DEF Shown, InOrder
  <2>4. readBefore'[r] \subseteq {s \in Reads : Answered(s)'}
    <3>1. readBefore'[r] = readBefore[r] \/ readBefore'[r] = {s \in Reads : Answered(s)}
      BY <1>6 DEF ListMessage, ListMessageBySender, SenderName, ReadFails, BeginRead, TypeOK
    <3> QED
      BY <1>1, <1>2, <3>1 DEF ReadShape
  <2>5. CASE ListMessage(r)
    <3>1. readPc'[r] = "latest" /\ userID'[r] \in Ids /\ senderId'[r] = None
      BY <1>1, <2>5 DEF ListMessage, BeginRead, ReadShape, TypeOK
    <3> QED
      BY <2>2, <2>3, <2>4, <3>1 DEF ReadShape, Answered
  <2>6. CASE ListMessageBySender(r)
    <3>1. PICK p \in PathIds : senderId' = [senderId EXCEPT ![r] = ToInt32(p)]
      BY <2>6 DEF ListMessageBySender
    <3>2. senderId'[r] # None
      <4>1. ToInt32(p) # None
        BY <3>1, Constants
      <4> QED
        BY <3>1, <4>1 DEF TypeOK
    <3>3. readPc'[r] \in {"failed", "name"} /\ userID'[r] \in Ids
      BY <2>6 DEF ListMessageBySender, BeginRead, TypeOK
    <3> QED
      BY <2>2, <2>3, <2>4, <3>2, <3>3 DEF ReadShape, Answered
  <2>7. CASE SenderName(r)
    <3>1. /\ readPc'[r] = "messages" /\ readPc[r] = "name"
          /\ UNCHANGED <<userID, senderId>>
      BY <2>7 DEF SenderName, TypeOK
    <3> QED
      BY <1>1, <2>2, <2>3, <2>4, <3>1 DEF ReadShape, Answered
  <2>8. CASE ReadFails(r)
    <3>1. readPc'[r] = "failed"
      BY <2>8 DEF ReadFails, TypeOK
    <3> QED
      BY <2>2, <2>3, <2>4, <3>1 DEF ReadShape, Answered
  <2> QED
    BY <1>6, <2>5, <2>6, <2>7, <2>8
<1> QED
  BY <1>3, <1>4, <1>5, <1>6, OtherReadsKept DEF ReadStep

-----------------------------------------------------------------------------
(* What an answer lacks.                                                   *)

\* The rows that a read has shown are of the past.
LEMMA ShownNumbers ==
  ASSUME TypeOK, Sendings, RowsCommitted, Readings, NEW r \in Reads, NEW k \in Shown(r)
  PROVE  /\ k \in messages /\ k.createdAt \in Nat /\ k.createdAt <= now
         /\ k.to = userID[r] /\ k.from = senderId[r]
<1>1. k \in messages /\ k.to = userID[r] /\ k.from = senderId[r]
  BY DEF Readings, ReadShape, Asked, From, SentTo
<1>2. k.call \in Sends /\ k.createdAt \in Nat
  BY <1>1 DEF TypeOK, MessageRows
<1>3. k \in Rows(k.call)
  BY <1>1 DEF RowsCommitted
<1> QED
  BY <1>1, <1>2, <1>3 DEF Sendings, SendShape

LEMMA LateStep ==
  ASSUME TypeOK, Sendings, RowsCommitted, Readings, [Next]_vars, NEW r \in Reads
  PROVE  LateOnes(r)'
<1> DEFINE Listed(m) == \/ m \in Shown(r)' \/ m.call \in inFlight'[r]
                        \/ \A k \in Shown(r)' : k.createdAt <= m.createdAt
           Running(c) == sendPc'[c] = "loop" =>
                           \A m \in Rows(c)', k \in Shown(r)' : k.createdAt <= m.createdAt
<1> SUFFICES ASSUME Answered(r)'
             PROVE  /\ \A m \in Asked(r)' : Listed(m)
                    /\ \A c \in Sends \ inFlight'[r] : Running(c)
  BY DEF LateOnes
<1>1. CASE SelectMessages(r)
  <2>1. \A m \in Asked(r)' : Listed(m)
    BY <1>1, SelectMessagesEffect
  <2>2. \A c \in Sends \ inFlight'[r] : Running(c)
    BY <1>1, SelectMessagesEffect DEF sendVars
  <2> QED
    BY <2>1, <2>2
<1>2. CASE SelectLatest(r)
  <2>1. Shown(r)' = {}
    BY <1>2, SelectLatestEffect DEF Shown
  <2> QED
    BY <2>1
<1>3. CASE Answered(r)
  <2>1. ReadKept(r) /\ Shown(r)' = Shown(r)
    BY <1>3, AnsweredKept DEF ReadKept, Shown
  <2>2. LateOnes(r)
    BY DEF Readings
  <2>3. ASSUME NEW m \in Asked(r)' PROVE Listed(m)
    <3>1. CASE m \in messages
      <4>1. m \in Asked(r)
        BY <2>1, <2>3, <3>1 DEF Asked, From, SentTo, ReadKept
      <4> QED
        BY <1>3, <2>1, <2>2, <4>1 DEF LateOnes, ReadKept
    <3>2. ASSUME NEW c \in Sends, sendPc[c] = "loop", m \in Rows(c) PROVE Listed(m)
      <4>1. m.call = c
        BY <3>2 DEF Sendings, SendShape
      <4>2. c \in inFlight[r] \/ \A k \in Shown(r) : k.createdAt <= m.createdAt
        BY <1>3, <2>2, <3>2 DEF LateOnes
      <4> QED
        BY <2>1, <4>1, <4>2 DEF ReadKept
    <3>3. m \in messages'
      BY <2>3 DEF Asked, From, SentTo
    <3> QED
      BY <3>1, <3>2, <3>3, MessagesStep
  <2>4. ASSUME NEW c \in Sends \ inFlight'[r], sendPc'[c] = "loop", NEW m \in Rows(c)', NEW k \in Shown(r)'
        PROVE  k.createdAt <= m.createdAt
    <3>1. c \notin inFlight[r] /\ k \in Shown(r)
      BY <2>1, <2>4 DEF ReadKept
    <3>2. CASE SendMessage(c)
      <4>1. pending'[c] = <<>>
        BY <3>2 DEF SendMessage, Sendings, SendShape
      <4>2. Rows(c)' = {}
        BY <4>1 DEF Rows
      <4> QED
        BY <2>4, <4>2
    <3>3. CASE Loop(c)
      <4>1. CASE m \in Rows(c)
        BY <1>3, <2>2, <3>1, <3>3, <4>1 DEF LateOnes, Loop
      <4>2. CASE m = Message(c, Len(pending[c]) + 1)
        BY <3>1, <3>3, <4>2, RowTyped, ShownNumbers
      <4> QED
        BY <2>4, <4>1, <4>2, RowsStep
    <3>4. CASE CreateMessages(c)
      BY <2>4, <3>4 DEF CreateMessages, TypeOK
    <3>5. CASE ~SendStep(c)
      <4>1. sendPc[c] = "loop" /\ m \in Rows(c)
        BY <2>4, <3>5, SendKept DEF Rows
      <4> QED
        BY <1>3, <2>2, <3>1, <4>1 DEF LateOnes
    <3> QED
      BY <3>2, <3>3, <3>4, <3>5 DEF SendStep
  <2> QED
    BY <2>3, <2>4
<1>4. CASE ~Answered(r) /\ ~SelectMessages(r) /\ ~SelectLatest(r)
  <2>1. ReadStep(r)
    BY <1>4, OtherReadsKept DEF ReadKept, Answered
  <2>2. readPc'[r] # "answered"
    BY <1>4, <2>1 DEF ReadStep, ListMessage, ListMessageBySender, SenderName, ReadFails, TypeOK
  <2> QED
    BY <2>2 DEF Answered
<1> QED
  BY <1>1, <1>2, <1>3, <1>4

LEMMA ReadingsStep ==
  ASSUME TypeOK, Sendings, RowsCommitted, Readings, [Next]_vars
  PROVE  Readings'
<1> SUFFICES ASSUME NEW r \in Reads PROVE ReadShape(r)' /\ LateOnes(r)'
  BY DEF Readings
<1> QED
  BY ShapeStep, LateStep

-----------------------------------------------------------------------------
(* One read after another.                                                 *)

\* When a read is answered, those before it had been.
LEMMA AnswerStep ==
  ASSUME TypeOK, Readings, [Next]_vars, NEW r \in Reads, NEW s \in Reads,
         r \in readBefore'[s], Answered(s)'
  PROVE  /\ Answered(r) /\ ReadKept(r) /\ r \in readBefore[s]
         /\ \/ Answered(s) /\ ReadKept(s)
            \/ SelectMessages(s) \/ SelectLatest(s)
<1>1. CASE Answered(s)
  <2>1. ReadKept(s) /\ r \in readBefore[s]
    BY <1>1, AnsweredKept DEF ReadKept
  <2>2. Answered(r)
    BY <2>1 DEF Readings, ReadShape
  <2> QED
    BY <1>1, <2>1, <2>2, AnsweredKept
<1>2. CASE SelectMessages(s) \/ SelectLatest(s)
  <2>1. r \in readBefore[s]
    BY <1>2, SelectMessagesEffect, SelectLatestEffect
  <2>2. Answered(r)
    BY <2>1 DEF Readings, ReadShape
  <2> QED
    BY <1>2, <2>1, <2>2, AnsweredKept
<1>3. CASE ~Answered(s) /\ ~SelectMessages(s) /\ ~SelectLatest(s)
  <2>1. ReadStep(s)
    BY <1>3, OtherReadsKept DEF ReadKept, Answered
  <2>2. readPc'[s] # "answered"
    BY <1>3, <2>1 DEF ReadStep, ListMessage, ListMessageBySender, SenderName, ReadFails, TypeOK
  <2> QED
    BY <2>2 DEF Answered
<1> QED
  BY <1>1, <1>2, <1>3

LEMMA StampTyped ==
  ASSUME TypeOK
  PROVE  \A m \in messages : m.createdAt \in Nat
BY DEF TypeOK, MessageRows

LEMMA NothingLostStep ==
  ASSUME TypeOK, TypeOK', Sendings, RowsCommitted, Readings, NothingShownIsLost, [Next]_vars
  PROVE  NothingShownIsLost'
<1> SUFFICES ASSUME NEW r \in Reads, NEW s \in Reads, r \in readBefore'[s], Answered(s)',
                    userID'[r] = userID'[s], senderId'[r] = senderId'[s]
             PROVE  /\ Shown(r)' \subseteq Shown(s)'
                    /\ \A i, j \in DOMAIN listed'[s] :
                         i < j /\ listed'[s][i] \notin Shown(r)' /\ listed'[s][j] \in Shown(r)' =>
                           \/ listed'[s][i].call \in inFlight'[r]
                           \/ listed'[s][i].createdAt = listed'[s][j].createdAt
  BY DEF NothingShownIsLost, Successive, Shown, Answered
<1>1. /\ Answered(r) /\ ReadKept(r) /\ r \in readBefore[s]
      /\ \/ Answered(s) /\ ReadKept(s)
         \/ SelectMessages(s) \/ SelectLatest(s)
  BY AnswerStep
<1>2. Shown(r)' = Shown(r)
  BY <1>1 DEF ReadKept, Shown
<1>3. CASE Answered(s) /\ ReadKept(s)
  <2>1. Successive(r, s) /\ Shown(s)' = Shown(s)
    BY <1>1, <1>3 DEF Successive, ReadKept, Shown
  <2> QED
    BY <1>1, <1>2, <1>3, <2>1 DEF NothingShownIsLost, ReadKept
<1>4. CASE SelectMessages(s)
  <2>1. userID[r] = userID[s] /\ senderId[r] = senderId[s] /\ inFlight'[r] = inFlight[r]
    BY <1>1, <1>4, SelectMessagesEffect DEF ReadKept
  <2>2. Shown(s)' = Asked(s) /\ Asked(r) = Asked(s)
    BY <1>4, <2>1, SelectMessagesEffect DEF Asked
  <2>3. Shown(r) \subseteq Asked(r) /\ LateOnes(r)
    BY DEF Readings, ReadShape
  <2>4. ASSUME NEW i \in DOMAIN listed'[s], NEW j \in DOMAIN listed'[s], i < j,
               listed'[s][i] \notin Shown(r), listed'[s][j] \in Shown(r)
        PROVE  \/ listed'[s][i].call \in inFlight'[r]
               \/ listed'[s][i].createdAt = listed'[s][j].createdAt
    <3>1. InOrder(listed'[s])
      BY <1>4, SelectMessagesEffect
    <3>2. listed'[s][i].createdAt <= listed'[s][j].createdAt
      BY <2>4, <3>1 DEF InOrder
    <3>3. listed'[s][i] \in Shown(s)' /\ listed'[s][j] \in Shown(s)'
      BY <2>4 DEF Shown
    <3>4. listed'[s][i] \in Asked(r) /\ listed'[s][j] \in Asked(r)
      BY <2>2, <3>3
    <3>5. listed'[s][i].createdAt \in Nat /\ listed'[s][j].createdAt \in Nat
      <4>1. listed'[s][i] \in messages /\ listed'[s][j] \in messages
        BY <3>4 DEF Asked, From, SentTo
      <4> QED
        BY <4>1, StampTyped
    <3>6. \/ listed'[s][i].call \in inFlight[r]
          \/ listed'[s][j].createdAt <= listed'[s][i].createdAt
      BY <1>1, <2>3, <2>4, <3>4 DEF LateOnes
    <3> QED
      BY <2>1, <3>2, <3>5, <3>6
  <2> QED
    BY <1>2, <2>2, <2>3, <2>4
<1>5. CASE SelectLatest(s)
  <2>1. senderId[r] = None
    BY <1>1, <1>5, SelectLatestEffect DEF ReadKept
  <2>2. Shown(r) = {}
    BY <2>1 DEF Readings, ReadShape, Shown
  <2> QED
    BY <1>2, <2>2
<1> QED
  BY <1>1, <1>3, <1>4, <1>5

\* What a read has shown as newest was in the table.
LEMMA NewestStored ==
  ASSUME TypeOK, Readings, NEW r \in Reads, NEW u \in Ids, NEW m \in NewestShown(r, u)
  PROVE  m \in From(SentTo(userID[r]), u) /\ m.createdAt \in Nat
<1>1. ReadShape(r)
  BY DEF Readings
<1>2. ASSUME m \in From(latest[r], u) PROVE m \in From(SentTo(userID[r]), u)
  BY <1>1, <1>2 DEF ReadShape, From
<1>3. ASSUME listed[r] # <<>>, senderId[r] = u, m = listed[r][Len(listed[r])]
      PROVE  m \in From(SentTo(userID[r]), u)
  <2>1. listed[r] \in Seq(MessageRows)
    BY DEF TypeOK
  <2>2. Len(listed[r]) \in DOMAIN listed[r]
    BY <1>3, <2>1, EmptySeq, LenProperties
  <2>3. m \in Shown(r)
    BY <1>3, <2>2 DEF Shown
  <2> QED
    BY <1>1, <1>3, <2>3 DEF ReadShape, Asked
<1>4. m \in From(SentTo(userID[r]), u)
  BY <1>2, <1>3 DEF NewestShown
<1>5. m.createdAt \in Nat
  BY <1>4, StampTyped DEF From, SentTo
<1> QED
  BY <1>4, <1>5

LEMMA NewestStep ==
  ASSUME TypeOK, TypeOK', Sendings, Readings, NewestNeverGoesBack, [Next]_vars
  PROVE  NewestNeverGoesBack'
<1> SUFFICES ASSUME NEW r \in Reads, NEW s \in Reads, NEW u \in Ids, r \in readBefore'[s],
                    Answered(s)', userID'[r] = userID'[s], senderId'[s] \in {None, u},
                    NEW m \in NewestShown(r, u)'
             PROVE  \E k \in NewestShown(s, u)' : m.createdAt <= k.createdAt
  BY DEF NewestNeverGoesBack, NewestShown, From, Answered
<1>1. /\ Answered(r) /\ ReadKept(r) /\ r \in readBefore[s]
      /\ \/ Answered(s) /\ ReadKept(s)
         \/ SelectMessages(s) \/ SelectLatest(s)
  BY AnswerStep
<1>2. NewestShown(r, u)' = NewestShown(r, u)
  BY <1>1 DEF ReadKept, NewestShown, From
<1>3. CASE Answered(s) /\ ReadKept(s)
  <2>1. NewestShown(s, u)' = NewestShown(s, u)
    BY <1>3 DEF ReadKept, NewestShown, From
  <2>2. r \in readBefore[s] /\ userID[r] = userID[s] /\ senderId[s] \in {None, u}
    BY <1>1, <1>3 DEF ReadKept
  <2>3. \A n \in NewestShown(r, u) : \E k \in NewestShown(s, u) : n.createdAt <= k.createdAt
    BY <1>3, <2>2 DEF NewestNeverGoesBack
  <2> QED
    BY <1>2, <2>1, <2>3
<1>4. m \in From(SentTo(userID[r]), u) /\ m.createdAt \in Nat
  BY <1>2, NewestStored
<1>5. CASE SelectMessages(s)
  <2>1. userID[r] = userID[s] /\ senderId[s] = u /\ senderId'[s] = u
    BY <1>1, <1>5, SelectMessagesEffect DEF ReadKept
  <2>2. m \in Shown(s)'
    BY <1>4, <1>5, <2>1, SelectMessagesEffect DEF Asked
  <2>3. PICK i \in DOMAIN listed'[s] : m = listed'[s][i]
    BY <2>2 DEF Shown
  <2>4. /\ listed'[s] \in Seq(MessageRows) /\ InOrder(listed'[s])
        /\ Len(listed'[s]) \in Nat /\ DOMAIN listed'[s] = 1 .. Len(listed'[s])
    BY <1>5, SelectMessagesEffect
  <2>5. Len(listed'[s]) \in DOMAIN listed'[s] /\ (i = Len(listed'[s]) \/ i < Len(listed'[s]))
    BY <2>3, <2>4
  <2>6. m.createdAt <= listed'[s][Len(listed'[s])].createdAt
    BY <1>4, <2>3, <2>4, <2>5 DEF InOrder
  <2>7. listed'[s] # <<>>
    <3>1. Len(listed'[s]) # 0
      BY <2>4, <2>5
    <3> QED
      BY <3>1, EmptySeq
  <2>8. listed'[s][Len(listed'[s])] \in NewestShown(s, u)'
    BY <2>1, <2>7 DEF NewestShown
  <2> QED
    BY <2>6, <2>8
<1>6. CASE SelectLatest(s)
  <2>1. userID[r] = userID[s]
    BY <1>1, <1>6, SelectLatestEffect DEF ReadKept
  <2>2. PICK k \in From(latest'[s], u) : m.createdAt <= k.createdAt
    BY <1>4, <1>6, <2>1, SelectLatestEffect
  <2>3. k \in NewestShown(s, u)'
    BY <2>2 DEF NewestShown, From
  <2> QED
    BY <2>2, <2>3
<1> QED
  BY <1>1, <1>3, <1>5, <1>6

-----------------------------------------------------------------------------
(* The invariant and what follows from it.                                 *)

LEMMA HistInit == Init => HistInv
<1> SUFFICES ASSUME Init PROVE HistInv
  OBVIOUS
<1>1. TypeOK
  BY TypeInit
<1>2. RowsCommitted /\ SentInTurn
  BY DEF Init, RowsCommitted, SentInTurn
<1>3. ASSUME NEW c \in Sends PROVE SendShape(c)
  <2>1. Rows(c) = {}
    BY DEF Init, Rows
  <2> QED
    BY <2>1, FS_EmptySet DEF Init, SendShape
<1>4. ASSUME NEW r \in Reads PROVE ReadShape(r) /\ LateOnes(r)
  <2>1. Shown(r) = {}
    BY DEF Init, Shown
  <2>2. InOrder(listed[r])
    BY DEF Init, InOrder
  <2> QED
    BY <2>1, <2>2 DEF Init, ReadShape, LateOnes, Answered
<1>5. NothingShownIsLost /\ NewestNeverGoesBack
  BY DEF Init, NothingShownIsLost, Successive, NewestNeverGoesBack
<1> QED
  BY <1>1, <1>2, <1>3, <1>4, <1>5 DEF HistInv

LEMMA HistStep ==
  ASSUME HistInv, [Next]_vars
  PROVE  HistInv'
<1>1. /\ TypeOK /\ RowsCommitted /\ SentInTurn /\ Sendings /\ Readings
      /\ NothingShownIsLost /\ NewestNeverGoesBack
  BY DEF HistInv, Sendings, Readings
<1>2. TypeOK'
  BY <1>1, TypeStep
<1>3. RowsCommitted' /\ SentInTurn' /\ Sendings' /\ Readings'
  BY <1>1, <1>2, CommittedStep, TurnStep, SendingsStep, ReadingsStep
<1>4. NothingShownIsLost' /\ NewestNeverGoesBack'
  BY <1>1, <1>2, NothingLostStep, NewestStep
<1> QED
  BY <1>2, <1>3, <1>4 DEF HistInv, Sendings, Readings

\* SendMessage and the two queries: the invariant that follows a row from its
\* created_at to the table and from there into the answers holds in every
\* reachable state.
THEOREM RowsFollowed == Spec => []HistInv
BY HistInit, HistStep, PTL DEF Spec

\* ListMessageBySender shows messages that were sent one after the other in that
\* order, unless the clock gave them the same time.
THEOREM ListingsInOrder == Spec => []HistoryInOrder
<1>1. HistInv => HistoryInOrder
  <2> SUFFICES ASSUME HistInv, NEW r \in Reads, NEW i \in DOMAIN listed[r], NEW j \in DOMAIN listed[r],
                      i < j, listed[r][j].call \in returnedBefore[listed[r][i].call]
               PROVE  listed[r][i].createdAt = listed[r][j].createdAt
    BY DEF HistoryInOrder
  <2>1. /\ TypeOK /\ RowsCommitted /\ SentInTurn /\ Sendings /\ Readings
    BY DEF HistInv, Sendings, Readings
  <2>2. listed[r][i] \in Shown(r) /\ listed[r][j] \in Shown(r)
    BY DEF Shown
  <2>3. /\ listed[r][i] \in messages /\ listed[r][i].createdAt \in Nat
        /\ listed[r][j] \in messages /\ listed[r][j].createdAt \in Nat
    BY <2>1, <2>2, ShownNumbers
  <2>4. listed[r][i].call \in Sends /\ listed[r][j].call \in Sends
    BY <2>1, <2>3 DEF TypeOK, MessageRows
  <2>5. listed[r][i].createdAt <= listed[r][j].createdAt
    BY <2>1 DEF Readings, ReadShape, InOrder
  <2>6. listed[r][j].createdAt <= listed[r][i].createdAt
    BY <2>1, <2>3, <2>4 DEF RowsCommitted, SentInTurn
  <2> QED
    BY <2>3, <2>5, <2>6
<1> QED
  BY <1>1, RowsFollowed, PTL

\* A later listing shows all that an earlier one has shown, and what turns up
\* before a message already shown was under way when the earlier one was made.
THEOREM NothingIsLost == Spec => []NothingShownIsLost
<1>1. HistInv => NothingShownIsLost
  BY DEF HistInv
<1> QED
  BY <1>1, RowsFollowed, PTL

\* ListMessage and ListMessageBySender agree on the newest message of a sender,
\* and it never goes back.
THEOREM NewestStays == Spec => []NewestNeverGoesBack
<1>1. HistInv => NewestNeverGoesBack
  BY DEF HistInv
<1> QED
  BY <1>1, RowsFollowed, PTL

=============================================================================
