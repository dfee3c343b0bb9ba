------------------------------ MODULE History ------------------------------
(***************************************************************************)
(* What users read of the messages table: ListMessage, the latest message  *)
(* of every sender, and ListMessageBySender, the messages of one sender    *)
(* (chat-service/app/service/chat_service.go).                             *)
(*                                                                         *)
(* SendMessage is reduced to what the table shows of it: every receiver's  *)
(* row gets its created_at when its turn in the loop comes, and all rows   *)
(* are inserted after the loop, by one statement.  A statement sees what   *)
(* is committed when it runs.                                              *)
(***************************************************************************)
EXTENDS ProtobufInt, Sequences, FiniteSets

CONSTANTS
  Ids,            \* ids of the rows of the users table
  PathIds,        \* the numbers that clients put into a path
  Sends,          \* executions of SendMessage
  Reads,          \* executions of ListMessage and ListMessageBySender
  ReceiverLists,  \* the receiver_id lists that requests carry
  MaxTime,        \* bound: the clock of the chat service
  None            \* no user

ASSUME HistoryAssumption ==
  /\ Ids \subseteq Nat \ {0}
  /\ PathIds \subseteq Int
  /\ ReceiverLists \subseteq Seq(Int) \ {<<>>}
  /\ MaxTime \in Nat
  /\ None \notin Ids \cup {ToInt32(p) : p \in PathIds}

VARIABLES
  now,                                  \* the clock
  sendPc, sender, receiverIDs, pending, \* locals of SendMessage
  messages,                             \* rows of the messages table
  readPc, userID, senderId,             \* locals of the two queries' handlers
  listed,                               \* answer of ListMessageBySender
  latest,                               \* answer of ListMessage
  returnedBefore,  \* history: sends that had returned when a send began
  readBefore,      \* history: reads that had been answered when a read began
  inFlight         \* history: sends that were under way when a read was made

sendVars == <<sendPc, sender, receiverIDs, pending, returnedBefore>>
answerVars == <<listed, latest, inFlight>>
readVars == <<readPc, userID, senderId, answerVars, readBefore>>
vars == <<now, sendVars, messages, readVars>>

Returned(c) == sendPc[c] \in {"ok", "failed"}
Answered(r) == readPc[r] = "answered"

Init ==
  /\ now = 0
  /\ sendPc = [c \in Sends |-> "idle"]
  /\ sender = [c \in Sends |-> None]
  /\ receiverIDs = [c \in Sends |-> <<>>]
  /\ pending = [c \in Sends |-> <<>>]
  /\ messages = {}
  /\ readPc = [r \in Reads |-> "idle"]
  /\ userID = [r \in Reads |-> None]
  /\ senderId = [r \in Reads |-> None]
  /\ listed = [r \in Reads |-> <<>>]
  /\ latest = [r \in Reads |-> {}]
  /\ returnedBefore = [c \in Sends |-> {}]
  /\ readBefore = [r \in Reads |-> {}]
  /\ inFlight = [r \in Reads |-> {}]

-----------------------------------------------------------------------------
(* SendMessage                                                             *)

SendMessage(c) ==
  /\ sendPc[c] = "idle"
  /\ sendPc' = [sendPc EXCEPT ![c] = "loop"]
  /\ \E u \in Ids, rs \in ReceiverLists :
       /\ sender' = [sender EXCEPT ![c] = u]
       /\ receiverIDs' = [receiverIDs EXCEPT ![c] = rs]
  /\ returnedBefore' = [returnedBefore EXCEPT ![c] = {d \in Sends : Returned(d)}]
  /\ UNCHANGED <<now, pending, messages, readVars>>

\* The row of the n-th receiver.
Message(c, n) ==
  [call |-> c, n |-> n, from |-> sender[c], to |-> receiverIDs[c][n], createdAt |-> now]

\* The loop's turn for one receiver, which ends when the copy is handed over.
Loop(c) ==
  /\ sendPc[c] = "loop"
  /\ Len(pending[c]) < Len(receiverIDs[c])
  /\ pending' = [pending EXCEPT ![c] = Append(@, Message(c, Len(@) + 1))]
  /\ UNCHANGED <<now, sendPc, sender, receiverIDs, returnedBefore, messages, readVars>>

Rows(c) == {pending[c][n] : n \in 1 .. Len(pending[c])}

InsertReplacing(c) ==         \* mutant: Save under a sender's and receiver's key
  messages' = Rows(c) \cup {m \in messages : \A k \in Rows(c) : <<m.from, m.to>> # <<k.from, k.to>>}
Insert(c) == messages' = messages \cup Rows(c)

\* db.Create; an insert that reports an error may have been committed.
CreateMessages(c) ==
  /\ sendPc[c] = "loop"
  /\ Len(pending[c]) = Len(receiverIDs[c])
  /\ \/ /\ Insert(c)
        /\ sendPc' = [sendPc EXCEPT ![c] = "ok"]
     \/ /\ Insert(c) \/ UNCHANGED messages
        /\ sendPc' = [sendPc EXCEPT ![c] = "failed"]
  /\ UNCHANGED <<now, sender, receiverIDs, pending, returnedBefore, readVars>>

\* Time passes, between two messages and within one.
Tick ==
  /\ now < MaxTime
  /\ now' = now + 1
  /\ UNCHANGED <<sendVars, messages, readVars>>

-----------------------------------------------------------------------------
(* The queries                                                             *)

SentTo(u) == {m \in messages : m.to = u}
From(S, u) == {m \in S : m.from = u}

\* The rows that DISTINCT ON (m.sender_id) may keep of each sender.
FirstOfSenderAscending(S) ==  \* mutant: ORDER BY created_at ASC
  {m \in S : \A k \in From(S, m.from) : m.createdAt <= k.createdAt}
FirstOfSender(S) == {m \in S : \A k \in From(S, m.from) : m.createdAt >= k.createdAt}

\* The JOIN leaves out senders that have no row in users.
LatestOfSenders(S) ==
  {T \in SUBSET FirstOfSender(S) :
     /\ \A m, k \in T : m.from = k.from => m = k
     /\ {m.from : m \in T} = {m.from : m \in S} \cap Ids}

\* May the sequence of rows come from ORDER BY created_at ASC?
InOrderDescending(q) ==       \* mutant: DESC
  \A i, j \in DOMAIN q : i < j => q[i].createdAt >= q[j].createdAt
InOrder(q) == \A i, j \in DOMAIN q : i < j => q[i].createdAt <= q[j].createdAt
Listings(S) ==
  {q \in [1 .. Cardinality(S) -> S] : InOrder(q) /\ \A m \in S : \E i \in DOMAIN q : q[i] = m}

\* The token names a row.
BeginRead(r) ==
  /\ readPc[r] = "idle"
  /\ userID' \in {[userID EXCEPT ![r] = u] : u \in Ids}
  /\ readBefore' = [readBefore EXCEPT ![r] = {s \in Reads : Answered(s)}]
  /\ UNCHANGED <<now, sendVars, messages, answerVars>>

ListMessage(r) ==
  /\ BeginRead(r)
  /\ readPc' = [readPc EXCEPT ![r] = "latest"]
  /\ UNCHANGED senderId

\* The id of the path is cut to int32, and 0 is refused.
ListMessageBySender(r) ==
  /\ BeginRead(r)
  /\ \E p \in PathIds :
       /\ senderId' = [senderId EXCEPT ![r] = ToInt32(p)]
       /\ readPc' = [readPc EXCEPT ![r] = IF ToInt32(p) = 0 THEN "failed" ELSE "name"]

\* The query for the sender's name, which finds no row for an unknown id.
SenderName(r) ==
  /\ readPc[r] = "name"
  /\ readPc' = [readPc EXCEPT ![r] = "messages"]
  /\ UNCHANGED <<now, sendVars, messages, userID, senderId, answerVars, readBefore>>

\* No valid token, or a query that fails.
ReadFails(r) ==
  /\ readPc[r] \in {"idle", "name", "messages", "latest"}
  /\ readPc' = [readPc EXCEPT ![r] = "failed"]
  /\ UNCHANGED <<now, sendVars, messages, userID, senderId, answerVars, readBefore>>

Answer(r) ==
  /\ readPc' = [readPc EXCEPT ![r] = "answered"]
  /\ inFlight' = [inFlight EXCEPT ![r] = {c \in Sends : sendPc[c] = "loop"}]
  /\ UNCHANGED <<now, sendVars, messages, userID, senderId, readBefore>>

SelectMessages(r) ==
  /\ readPc[r] = "messages"
  /\ \E q \in Listings(From(SentTo(userID[r]), senderId[r])) : listed' = [listed EXCEPT ![r] = q]
  /\ Answer(r)
  /\ UNCHANGED latest

SelectLatest(r) ==
  /\ readPc[r] = "latest"
  /\ \E T \in LatestOfSenders(SentTo(userID[r])) : latest' = [latest EXCEPT ![r] = T]
  /\ Answer(r)
  /\ UNCHANGED listed

Next ==
  \/ \E c \in Sends : SendMessage(c) \/ Loop(c) \/ CreateMessages(c)
  \/ \E r \in Reads : ListMessage(r) \/ ListMessageBySender(r) \/ SenderName(r)
                      \/ ReadFails(r) \/ SelectMessages(r) \/ SelectLatest(r)
  \/ Tick

Spec == Init /\ [][Next]_vars

-----------------------------------------------------------------------------
(* Properties                                                              *)

MessageRows == [call : Sends, n : Nat \ {0}, from : Ids, to : Int, createdAt : 0 .. MaxTime]

\* Every variable has its type.
TypeOK ==
  /\ now \in 0 .. MaxTime
  /\ sendPc \in [Sends -> {"idle", "loop", "ok", "failed"}]
  /\ sender \in [Sends -> Ids \cup {None}]
  /\ receiverIDs \in [Sends -> ReceiverLists \cup {<<>>}]
  /\ pending \in [Sends -> Seq(MessageRows)]
  /\ \A c \in Sends : Len(pending[c]) <= Len(receiverIDs[c])
  /\ messages \subseteq MessageRows /\ IsFiniteSet(messages)
  /\ readPc \in [Reads -> {"idle", "name", "messages", "latest", "answered", "failed"}]
  /\ userID \in [Reads -> Ids \cup {None}]
  /\ senderId \in [Reads -> {ToInt32(p) : p \in PathIds} \cup {None}]
  /\ listed \in [Reads -> Seq(MessageRows)]
  /\ latest \in [Reads -> SUBSET MessageRows]
  /\ returnedBefore \in [Sends -> SUBSET Sends]
  /\ readBefore \in [Reads -> SUBSET Reads]
  /\ inFlight \in [Reads -> SUBSET Sends]

\* A listing shows messages that were sent one after the other in that order,
\* unless the clock gave them the same time.
HistoryInOrder ==
  \A r \in Reads : \A i, j \in DOMAIN listed[r] :
    LET a == listed[r][i]  b == listed[r][j] IN
      i < j /\ b.call \in returnedBefore[a.call] => a.createdAt = b.createdAt

\* Two listings of the same messages, one after the other.
Successive(r, s) ==
  /\ r \in readBefore[s]
  /\ Answered(s)
  /\ userID[r] = userID[s]
  /\ senderId[r] = senderId[s]

Shown(r) == {listed[r][i] : i \in DOMAIN listed[r]}

\* A later listing shows all that an earlier one has shown, and a message that
\* turns up before one already shown was under way when the earlier was made.
NothingShownIsLost ==
  \A r, s \in Reads : Successive(r, s) =>
    /\ Shown(r) \subseteq Shown(s)
    /\ \A i, j \in DOMAIN listed[s] :
         LET m == listed[s][i]  k == listed[s][j] IN
           i < j /\ m \notin Shown(r) /\ k \in Shown(r) =>
             m.call \in inFlight[r] \/ m.createdAt = k.createdAt

\* The newest message of sender u that a read has shown.
NewestShown(r, u) ==
  From(latest[r], u)
    \cup (IF listed[r] # <<>> /\ senderId[r] = u THEN {listed[r][Len(listed[r])]} ELSE {})

\* The overview and the listings of one sender agree on the newest message, and
\* it never goes back: what one read showed as newest the next one shows, or a
\* newer one.
NewestNeverGoesBack ==
  \A r, s \in Reads : \A u \in Ids :
    /\ r \in readBefore[s]
    /\ Answered(s)
    /\ userID[r] = userID[s]
    /\ senderId[s] \in {None, u}
    => \A m \in NewestShown(r, u) : \E k \in NewestShown(s, u) : m.createdAt <= k.createdAt

(* What makes these inductive.                                             *)

\* A call's rows are its own and not of the future.
SendShape(c) ==
  /\ sendPc[c] = "idle" => pending[c] = <<>>
  /\ sendPc[c] = "loop" => receiverIDs[c] # <<>> /\ sender[c] \in Ids
  /\ IsFiniteSet(Rows(c))
  /\ \A m \in Rows(c) : m.call = c /\ m.createdAt <= now
  /\ returnedBefore[c] \subseteq {d \in Sends : Returned(d)}

RowsCommitted == \A m \in messages : m \in Rows(m.call) /\ Returned(m.call)

\* Calls made one after the other have stamped their rows in that order.
SentInTurn ==
  \A c, d \in Sends : d \in returnedBefore[c] =>
    \A m \in Rows(c), k \in Rows(d) : k.createdAt <= m.createdAt

\* The rows that a listing is made of.
Asked(r) == From(SentTo(userID[r]), senderId[r])

\* What a read knows at each of its steps, and what it has answered.
ReadShape(r) ==
  /\ readPc[r] \in {"name", "messages"} => userID[r] \in Ids /\ senderId[r] # None
  /\ readPc[r] = "latest" => userID[r] \in Ids
  /\ readPc[r] \in {"idle", "latest"} => senderId[r] = None
  /\ readPc[r] = "idle" => readBefore[r] = {}
  /\ readBefore[r] \subseteq {s \in Reads : Answered(s)}
  /\ readPc[r] # "answered" => listed[r] = <<>> /\ latest[r] = {}
  /\ senderId[r] = None => listed[r] = <<>>
  /\ senderId[r] # None => latest[r] = {}
  /\ Shown(r) \subseteq Asked(r) /\ latest[r] \subseteq SentTo(userID[r])
  /\ InOrder(listed[r])

\* What an answer lacks was under way when it was made, or is no older than
\* anything that it shows.
LateOnes(r) ==
  Answered(r) =>
    /\ \A m \in Asked(r) :
         \/ m \in Shown(r) \/ m.call \in inFlight[r]
         \/ \A k \in Shown(r) : k.createdAt <= m.createdAt
    /\ \A c \in Sends \ inFlight[r] : sendPc[c] = "loop" =>
         \A m \in Rows(c), k \in Shown(r) : k.createdAt <= m.createdAt

\* The inductive invariant: it follows a row from its stamp to the table and
\* from there into the answers.
HistInv == /\ TypeOK /\ RowsCommitted /\ SentInTurn
           /\ \A c \in Sends : SendShape(c)
           /\ \A r \in Reads : ReadShape(r) /\ LateOnes(r)
           /\ NothingShownIsLost /\ NewestNeverGoesBack

=============================================================================
