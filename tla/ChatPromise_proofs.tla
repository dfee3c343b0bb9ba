------------------------- MODULE ChatPromise_proofs -------------------------
(* Every copy of ChatService is followed from its sender to its end: it is *)
(* in one place, in turn, and the service keeps its promise, for every     *)
(* value of the constants.                                                 *)
EXTENDS ChatService_proofs, FiniteSetTheorems

-----------------------------------------------------------------------------
(* Sequences that are in turn, as a set of pairs allows it.                *)

Sorted(q, R) == \A m, n \in 1 .. Len(q) : m < n => <<q[m], q[n]>> \in R
Before(p, q, R) == \A k \in SeqRange(p), l \in SeqRange(q) : <<k, l>> \in R

LEMMA ElementsTyped ==
  ASSUME NEW S, NEW q \in Seq(S)
  PROVE  SeqRange(q) \subseteq S
BY DEF SeqRange

LEMMA SequenceOfOne ==
  ASSUME NEW S, NEW q \in Seq(S), Len(q) = 1
  PROVE  \E x \in S : q = <<x>>
<1>1. q[1] \in S
  OBVIOUS
<1>2. q = <<q[1]>>
  OBVIOUS
<1> QED
  BY <1>1, <1>2

LEMMA ConcatElements ==
  ASSUME NEW S, NEW p \in Seq(S), NEW q \in Seq(S)
  PROVE  p \o q \in Seq(S) /\ SeqRange(p \o q) = SeqRange(p) \cup SeqRange(q)
<1>1. ASSUME NEW y \in SeqRange(p) PROVE y \in SeqRange(p \o q)
  <2>1. PICK n \in 1 .. Len(p) : y = p[n]
    BY <1>1 DEF SeqRange
  <2>2. y = (p \o q)[n] /\ n \in 1 .. Len(p \o q)
    BY <2>1
  <2> QED
    BY <2>2 DEF SeqRange
<1>2. ASSUME NEW y \in SeqRange(q) PROVE y \in SeqRange(p \o q)
  <2>1. PICK n \in 1 .. Len(q) : y = q[n]
    BY <1>2 DEF SeqRange
  <2>2. y = (p \o q)[n + Len(p)] /\ n + Len(p) \in 1 .. Len(p \o q)
    BY <2>1
  <2> QED
    BY <2>2 DEF SeqRange
<1> QED
  BY <1>1, <1>2, ConcatRange

LEMMA SortedConcat ==
  ASSUME NEW S, NEW R, NEW p \in Seq(S), NEW q \in Seq(S)
  PROVE  Sorted(p \o q, R) <=> Sorted(p, R) /\ Sorted(q, R) /\ Before(p, q, R)
<1>1. ASSUME Sorted(p \o q, R) PROVE Sorted(p, R)
  BY <1>1 DEF Sorted
<1>2. ASSUME Sorted(p \o q, R) PROVE Sorted(q, R)
  <2>1. SUFFICES ASSUME NEW m \in 1 .. Len(q), NEW n \in 1 .. Len(q), m < n
                 PROVE  <<q[m], q[n]>> \in R
    BY DEF Sorted
  <2>2. /\ m + Len(p) \in 1 .. Len(p \o q) /\ n + Len(p) \in 1 .. Len(p \o q)
        /\ (p \o q)[m + Len(p)] = q[m] /\ (p \o q)[n + Len(p)] = q[n]
        /\ m + Len(p) < n + Len(p)
    BY <2>1
  <2> QED
    BY <1>2, <2>2 DEF Sorted
<1>3. ASSUME Sorted(p \o q, R) PROVE Before(p, q, R)
  <2>1. SUFFICES ASSUME NEW m \in 1 .. Len(p), NEW n \in 1 .. Len(q)
                 PROVE  <<p[m], q[n]>> \in R
    BY DEF Before, SeqRange
  <2>2. /\ m \in 1 .. Len(p \o q) /\ n + Len(p) \in 1 .. Len(p \o q)
        /\ (p \o q)[m] = p[m] /\ (p \o q)[n + Len(p)] = q[n]
        /\ m < n + Len(p)
    BY <2>1
  <2> QED
    BY <1>3, <2>2 DEF Sorted
<1>4. ASSUME Sorted(p, R), Sorted(q, R), Before(p, q, R) PROVE Sorted(p \o q, R)
  <2>1. SUFFICES ASSUME NEW m \in 1 .. Len(p) + Len(q), NEW n \in 1 .. Len(p) + Len(q), m < n
                 PROVE  <<(p \o q)[m], (p \o q)[n]>> \in R
    BY DEF Sorted
  <2>2. CASE n <= Len(p)
    BY <1>4, <2>1, <2>2 DEF Sorted
  <2>3. CASE m > Len(p)
    <3>1. /\ m - Len(p) \in 1 .. Len(q) /\ n - Len(p) \in 1 .. Len(q)
          /\ m - Len(p) < n - Len(p)
          /\ (p \o q)[m] = q[m - Len(p)] /\ (p \o q)[n] = q[n - Len(p)]
      BY <2>1, <2>3
    <3> QED
      BY <1>4, <3>1 DEF Sorted
  <2>4. CASE m <= Len(p) /\ n > Len(p)
    <3>1. m \in 1 .. Len(p) /\ (p \o q)[m] = p[m]
      BY <2>4
    <3>2. n - Len(p) \in 1 .. Len(q) /\ (p \o q)[n] = q[n - Len(p)]
      BY <2>4
    <3> QED
      BY <1>4, <3>1, <3>2 DEF Before, SeqRange
  <2>5. n <= Len(p) \/ m > Len(p) \/ (m <= Len(p) /\ n > Len(p))
    OBVIOUS
  <2> QED
    BY <2>2, <2>3, <2>4, <2>5
<1> QED
  BY <1>1, <1>2, <1>3, <1>4

LEMMA ShortSorted ==
  ASSUME NEW S, NEW R, NEW q \in Seq(S), Len(q) <= 1
  PROVE  Sorted(q, R)
BY DEF Sorted

\* A pipeline is in turn if and only if its four parts are, each by itself and
\* all of the earlier before the later.
SortedInParts(a, b, h, d, R) ==
  /\ Sorted(a, R) /\ Sorted(b, R) /\ Sorted(d, R)
  /\ Before(a, b, R) /\ Before(a, h, R) /\ Before(a, d, R)
  /\ Before(b, h, R) /\ Before(b, d, R) /\ Before(h, d, R)

LEMMA SortedParts ==
  ASSUME NEW S, NEW R, NEW a \in Seq(S), NEW b \in Seq(S), NEW h \in Seq(S), NEW d \in Seq(S),
         Len(h) <= 1
  PROVE  Sorted(a \o b \o h \o d, R) <=> SortedInParts(a, b, h, d, R)
<1> DEFINE p == a \o b
           q == p \o h
<1>1. /\ p \in Seq(S) /\ SeqRange(p) = SeqRange(a) \cup SeqRange(b)
      /\ Sorted(p, R) <=> Sorted(a, R) /\ Sorted(b, R) /\ Before(a, b, R)
  BY ConcatElements, SortedConcat
<1> HIDE DEF p
<1>2. /\ q \in Seq(S) /\ SeqRange(q) = SeqRange(p) \cup SeqRange(h)
      /\ Sorted(q, R) <=> Sorted(p, R) /\ Sorted(h, R) /\ Before(p, h, R)
  BY <1>1, ConcatElements, SortedConcat
<1> HIDE DEF q
<1>3. Sorted(q \o d, R) <=> Sorted(q, R) /\ Sorted(d, R) /\ Before(q, d, R)
  BY <1>2, SortedConcat
<1>4. /\ Before(p, h, R) <=> Before(a, h, R) /\ Before(b, h, R)
      /\ Before(q, d, R) <=> Before(a, d, R) /\ Before(b, d, R) /\ Before(h, d, R)
  BY <1>1, <1>2 DEF Before
<1>5. Sorted(h, R)
  BY ShortSorted
<1>6. Sorted(a \o b \o h \o d, R) <=> Sorted(q \o d, R)
  BY DEF p, q
<1> QED
  BY <1>1, <1>2, <1>3, <1>4, <1>5, <1>6 DEF SortedInParts

LEMMA SortedAppend ==
  ASSUME NEW S, NEW R, NEW q \in Seq(S), NEW x \in S,
         Sorted(q, R), \A k \in SeqRange(q) : <<k, x>> \in R
  PROVE  Sorted(Append(q, x), R)
<1>1. SUFFICES ASSUME NEW m \in 1 .. Len(q) + 1, NEW n \in 1 .. Len(q) + 1, m < n
               PROVE  <<Append(q, x)[m], Append(q, x)[n]>> \in R
  BY DEF Sorted
<1>2. m \in 1 .. Len(q) /\ Append(q, x)[m] = q[m]
  BY <1>1
<1>3. CASE n = Len(q) + 1
  <2>1. Append(q, x)[n] = x
    BY <1>3
  <2> QED
    BY <1>2, <2>1 DEF SeqRange
<1>4. CASE n # Len(q) + 1
  <2>1. n \in 1 .. Len(q) /\ Append(q, x)[n] = q[n]
    BY <1>4
  <2> QED
    BY <1>1, <1>2, <2>1 DEF Sorted
<1> QED
  BY <1>3, <1>4

\* The head comes before the rest; together they are the sequence.
LEMMA SortedTail ==
  ASSUME NEW S, NEW R, NEW q \in Seq(S), q # <<>>, Sorted(q, R)
  PROVE  /\ Head(q) \in S /\ Tail(q) \in Seq(S)
         /\ SeqRange(q) = {Head(q)} \cup SeqRange(Tail(q))
         /\ Sorted(Tail(q), R)
         /\ \A k \in SeqRange(Tail(q)) : <<Head(q), k>> \in R
<1>1. Head(q) \in S /\ Tail(q) \in Seq(S) /\ Len(Tail(q)) = Len(q) - 1 /\ Head(q) = q[1]
  OBVIOUS
<1>2. \A n \in 1 .. Len(q) - 1 : Tail(q)[n] = q[n + 1] /\ n + 1 \in 1 .. Len(q)
  OBVIOUS
<1>3. Sorted(Tail(q), R)
  <2>1. SUFFICES ASSUME NEW m \in 1 .. Len(q) - 1, NEW n \in 1 .. Len(q) - 1, m < n
                 PROVE  <<Tail(q)[m], Tail(q)[n]>> \in R
    BY <1>1 DEF Sorted
  <2>2. m + 1 \in 1 .. Len(q) /\ n + 1 \in 1 .. Len(q) /\ m + 1 < n + 1
    BY <2>1
  <2> QED
    BY <1>2, <2>1, <2>2 DEF Sorted
<1>4. ASSUME NEW k \in SeqRange(Tail(q)) PROVE <<Head(q), k>> \in R
  <2>1. PICK n \in 1 .. Len(q) - 1 : k = Tail(q)[n]
    BY <1>1, <1>4 DEF SeqRange
  <2>2. k = q[n + 1] /\ n + 1 \in 1 .. Len(q) /\ 1 \in 1 .. Len(q) /\ 1 < n + 1
    BY <1>2, <2>1
  <2> QED
    BY <1>1, <2>2 DEF Sorted
<1>5. ASSUME NEW y \in SeqRange(q) PROVE y \in {Head(q)} \cup SeqRange(Tail(q))
  <2>1. PICK n \in 1 .. Len(q) : y = q[n]
    BY <1>5 DEF SeqRange
  <2>2. CASE n = 1
    BY <1>1, <2>1, <2>2
  <2>3. CASE n # 1
    <3>1. n - 1 \in 1 .. Len(q) - 1 /\ y = Tail(q)[n - 1]
      BY <2>1, <2>3
    <3> QED
      BY <1>1, <3>1 DEF SeqRange
  <2> QED
    BY <2>2, <2>3
<1> QED
  BY <1>1, <1>3, <1>4, <1>5, TailRange

-----------------------------------------------------------------------------
(* The ways in which a pipeline changes keep it in turn.                   *)

\* SendToChannel
LEMMA PartsAppend ==
  ASSUME NEW S, NEW R, NEW a \in Seq(S), NEW b \in Seq(S), NEW h \in Seq(S), NEW d \in Seq(S),
         SortedInParts(a, b, h, d, R), NEW x \in S,
         \A k \in SeqRange(a) \cup SeqRange(b) \cup SeqRange(h) \cup SeqRange(d) : <<k, x>> \in R
  PROVE  SortedInParts(a, b, h, Append(d, x), R)
<1>1. Sorted(Append(d, x), R)
  BY SortedAppend DEF SortedInParts
<1>2. SeqRange(Append(d, x)) = SeqRange(d) \cup {x}
  BY AppendRange
<1> QED
  BY <1>1, <1>2 DEF SortedInParts, Before

\* TakeMessage
LEMMA PartsTake ==
  ASSUME NEW S, NEW R, NEW a \in Seq(S), NEW b \in Seq(S), NEW d \in Seq(S),
         SortedInParts(a, b, <<>>, d, R), d # <<>>
  PROVE  SortedInParts(a, b, <<Head(d)>>, Tail(d), R)
<1>1. /\ SeqRange(d) = {Head(d)} \cup SeqRange(Tail(d))
      /\ Sorted(Tail(d), R)
      /\ \A k \in SeqRange(Tail(d)) : <<Head(d), k>> \in R
  BY SortedTail DEF SortedInParts
<1>2. SeqRange(<<Head(d)>>) = {Head(d)}
  BY DEF SeqRange
<1> QED
  BY <1>1, <1>2 DEF SortedInParts, Before

\* StreamSend
LEMMA PartsSend ==
  ASSUME NEW S, NEW R, NEW a \in Seq(S), NEW b \in Seq(S), NEW h \in Seq(S), NEW d \in Seq(S),
         SortedInParts(a, b, h, d, R), Len(h) <= 1
  PROVE  SortedInParts(a, b \o h, <<>>, d, R)
<1>1. Sorted(b \o h, R)
  BY ShortSorted, SortedConcat DEF SortedInParts
<1>2. SeqRange(b \o h) = SeqRange(b) \cup SeqRange(h)
  BY ConcatElements
<1> QED
  BY <1>1, <1>2, EmptyRange DEF SortedInParts, Before

\* ClientRecv
LEMMA PartsRecv ==
  ASSUME NEW S, NEW R, NEW a \in Seq(S), NEW b \in Seq(S), NEW h \in Seq(S), NEW d \in Seq(S),
         SortedInParts(a, b, h, d, R), b # <<>>
  PROVE  SortedInParts(Append(a, Head(b)), Tail(b), h, d, R)
<1>1. /\ Head(b) \in S /\ Tail(b) \in Seq(S)
      /\ SeqRange(b) = {Head(b)} \cup SeqRange(Tail(b))
      /\ Sorted(Tail(b), R)
      /\ \A k \in SeqRange(Tail(b)) : <<Head(b), k>> \in R
  BY SortedTail DEF SortedInParts
<1>2. Sorted(Append(a, Head(b)), R)
  BY <1>1, SortedAppend DEF SortedInParts, Before
<1>3. SeqRange(Append(a, Head(b))) = SeqRange(a) \cup {Head(b)}
  BY <1>1, AppendRange
<1> QED
  BY <1>1, <1>2, <1>3 DEF SortedInParts, Before

\* StreamSendFails and Crash
LEMMA PartsLost ==
  ASSUME NEW R, NEW a, NEW b, NEW h, NEW d, SortedInParts(a, b, h, d, R)
  PROVE  SortedInParts(a, b, <<>>, d, R) /\ SortedInParts(a, b, <<>>, <<>>, R)
<1>1. Sorted(<<>>, R)
  BY DEF Sorted
<1> QED
  BY <1>1, EmptyRange DEF SortedInParts, Before

-----------------------------------------------------------------------------
(* What each step does to the copies.                                      *)

Still == UNCHANGED <<received, wire, hand, channel, redis, lost>>

\* The drain goroutine has nothing to push, and deletes a list that is empty.
LEMMA DrainPushStill ==
  ASSUME IInv, NEW s \in Streams, DrainPush(s)
  PROVE  Still /\ DrainDelete(s)
<1>1. DrainDelete(s) /\ owner[s] \in Users
  BY DEF DrainPush, IInv, DrainFindsNothing, StreamShape
<1>2. redis[DrainKey(owner[s])] = <<>> /\ DrainKey(owner[s]) \in Keys
  BY <1>1, KeyFacts DEF IInv, DrainFindsNothing
<1>3. UNCHANGED redis
  BY <1>1, <1>2 DEF DrainDelete, IInv, TypeOK
<1> QED
  BY <1>1, <1>3 DEF DrainDelete, streamVars, peerVars, Still

LEMMA StillSteps ==
  ASSUME IInv, [Next]_vars
  PROVE  \/ Still
         \/ \E c \in Calls : SendToChannel(c) \/ PushOffline(c)
         \/ \E s \in Streams : \/ TakeMessage(s) \/ StreamSend(s) \/ StreamSendFails(s)
                               \/ ClientRecv(s)
         \/ Crash
<1>1. ASSUME NEW c \in Calls, SendMessage(c) \/ RejectSend(c) \/ CallStep(c),
             ~SendToChannel(c), ~PushOffline(c)
      PROVE  Still
  BY <1>1 DEF SendMessage, RejectSend, CallStep, LockForLookup, Lookup, CreateMessages,
     streamVars, storeVars, peerVars, Still
<1>2. ASSUME NEW s \in Streams,
             \/ StreamMessages(s) \/ RejectStream(s) \/ LockToRegister(s) \/ Register(s)
             \/ LockToUnregister(s) \/ Unregister(s) \/ DrainRead(s) \/ DrainReadFails(s)
             \/ ClientGone(s)
      PROVE  Still
  BY <1>2 DEF StreamMessages, RejectStream, LockToRegister, Register, LockToUnregister,
     Unregister, DrainRead, DrainReadFails, ClientGone, streamVars, storeVars, peerVars, Still
<1>3. ASSUME NEW s \in Streams, DrainPush(s) PROVE Still
  BY <1>3, DrainPushStill
<1>4. (UNCHANGED vars) => Still
  BY DEF vars, streamVars, storeVars, peerVars, Still
<1> QED
  BY <1>1, <1>2, <1>3, <1>4 DEF Next, CallStep, StreamStep, DrainStep

-----------------------------------------------------------------------------
(* Where the copies are in a state of the invariant.                       *)

Turn == {x \in Copies \X Copies : MayFollow(x[1], x[2])}

LEMMA InTurnIsSorted ==
  TypeOK => /\ \A s \in Streams :
                 InTurn(Pipeline(s))
                   <=> SortedInParts(received[s], wire[s], hand[s], channel[s], Turn)
            /\ \A u \in Users :
                 InTurn(redis[OfflineKey(u)]) <=> Sorted(redis[OfflineKey(u)], Turn)
<1> SUFFICES ASSUME TypeOK
             PROVE  /\ \A s \in Streams :
                         InTurn(Pipeline(s))
                           <=> SortedInParts(received[s], wire[s], hand[s], channel[s], Turn)
                    /\ \A u \in Users :
                         InTurn(redis[OfflineKey(u)]) <=> Sorted(redis[OfflineKey(u)], Turn)
  OBVIOUS
<1>1. ASSUME NEW q \in Seq(Copies) PROVE InTurn(q) <=> Sorted(q, Turn)
  <2>1. ASSUME NEW m \in 1 .. Len(q), NEW n \in 1 .. Len(q)
        PROVE  MayFollow(q[m], q[n]) <=> <<q[m], q[n]>> \in Turn
    <3>1. q[m] \in Copies /\ q[n] \in Copies
      OBVIOUS
    <3> QED
      BY <3>1 DEF Turn
  <2> QED
    BY <2>1 DEF InTurn, Sorted
<1>2. ASSUME NEW s \in Streams
      PROVE  InTurn(Pipeline(s))
               <=> SortedInParts(received[s], wire[s], hand[s], channel[s], Turn)
  <2>1. /\ received[s] \in Seq(Copies) /\ wire[s] \in Seq(Copies)
        /\ hand[s] \in Seq(Copies) /\ channel[s] \in Seq(Copies) /\ Len(hand[s]) <= 1
    BY DEF TypeOK
  <2>2. Pipeline(s) \in Seq(Copies)
    BY <2>1 DEF Pipeline
  <2> QED
    BY <1>1, <2>1, <2>2, SortedParts DEF Pipeline
<1> QED
  BY <1>1, <1>2, KeyFacts DEF TypeOK

\* Every offline list is that of a user, and the loop is past whatever is held.
LEMMA HeldPassed ==
  ASSUME CopyInv
  PROVE  /\ \A s \in Streams : \A k \in CopiesOf(s) : k \in Copies /\ k[2] < idx[k[1]]
         /\ \A u \in Users : SeqRange(redis[OfflineKey(u)]) \subseteq InLists
         /\ InLists = UNION {SeqRange(redis[OfflineKey(u)]) : u \in Users}
         /\ \A k \in InLists : k \in Copies /\ k[2] < idx[k[1]]
         /\ \A k \in lost : k \in Copies /\ k[2] < idx[k[1]]
<1>1. TypeOK /\ CopiesPlaced /\ DrainFindsNothing /\ OnePlace
  BY DEF CopyInv, IInv
<1>2. ASSUME NEW s \in Streams, NEW k \in CopiesOf(s) PROVE k \in Copies /\ k[2] < idx[k[1]]
  <2>1. PlacedFor(k, owner[s])
    BY <1>1, <1>2 DEF CopiesPlaced
  <2>2. k \in Copies
    BY <1>1, <1>2, ElementsTyped DEF CopiesOf, TypeOK
  <2> QED
    BY <2>1, <2>2 DEF PlacedFor
<1>3. ASSUME NEW u \in Users PROVE SeqRange(redis[OfflineKey(u)]) \subseteq InLists
  BY KeyFacts DEF InLists
<1>4. ASSUME NEW k \in InLists PROVE \E u \in Users : k \in SeqRange(redis[OfflineKey(u)])
  <2>1. PICK key \in Keys : k \in SeqRange(redis[key])
    BY <1>4 DEF InLists
  <2>2. PICK u \in Users : key = OfflineKey(u) \/ key = DrainKey(u)
    BY DEF Keys, OfflineKey, DrainKey
  <2> QED
    BY <1>1, <2>1, <2>2, EmptyRange DEF DrainFindsNothing
<1>5. ASSUME NEW u \in Users, NEW k \in SeqRange(redis[OfflineKey(u)])
      PROVE  k \in Copies /\ k[2] < idx[k[1]]
  <2>1. PlacedFor(k, u)
    BY <1>1, <1>5 DEF CopiesPlaced
  <2>2. k \in Copies
    BY <1>1, <1>5, KeyFacts, ElementsTyped DEF TypeOK
  <2> QED
    BY <2>1, <2>2 DEF PlacedFor
<1>6. \A k \in lost : k \in Copies /\ k[2] < idx[k[1]]
  BY <1>1 DEF TypeOK, OnePlace
<1> QED
  BY <1>2, <1>3, <1>4, <1>5, <1>6

\* The parts of a pipeline have no copy in common, and none comes twice.
LEMMA PartsApart ==
  ASSUME CopyInv, NEW s \in Streams
  PROVE  /\ received[s] \in Seq(Copies) /\ wire[s] \in Seq(Copies)
         /\ hand[s] \in Seq(Copies) /\ channel[s] \in Seq(Copies) /\ Len(hand[s]) <= 1
         /\ SortedInParts(received[s], wire[s], hand[s], channel[s], Turn)
         /\ SeqRange(received[s]) \cap SeqRange(wire[s]) = {}
         /\ SeqRange(received[s]) \cap SeqRange(hand[s]) = {}
         /\ SeqRange(received[s]) \cap SeqRange(channel[s]) = {}
         /\ SeqRange(wire[s]) \cap SeqRange(hand[s]) = {}
         /\ SeqRange(wire[s]) \cap SeqRange(channel[s]) = {}
         /\ SeqRange(hand[s]) \cap SeqRange(channel[s]) = {}
         /\ wire[s] # <<>> => Head(wire[s]) \notin SeqRange(Tail(wire[s]))
<1>1. /\ received[s] \in Seq(Copies) /\ wire[s] \in Seq(Copies)
      /\ hand[s] \in Seq(Copies) /\ channel[s] \in Seq(Copies) /\ Len(hand[s]) <= 1
  BY DEF CopyInv, IInv, TypeOK
<1>2. SortedInParts(received[s], wire[s], hand[s], channel[s], Turn)
  BY InTurnIsSorted DEF CopyInv, IInv, EachInTurn
<1>3. \A k : <<k, k>> \notin Turn
  BY DEF Turn, MayFollow
<1>4. ASSUME NEW p, NEW q, Before(p, q, Turn) PROVE SeqRange(p) \cap SeqRange(q) = {}
  BY <1>3, <1>4 DEF Before
<1>5. ASSUME wire[s] # <<>> PROVE Head(wire[s]) \notin SeqRange(Tail(wire[s]))
  BY <1>1, <1>2, <1>3, <1>5, SortedTail DEF SortedInParts
<1> QED
  BY <1>1, <1>2, <1>4, <1>5 DEF SortedInParts

\* The copy that a call in its loop is about to place is nowhere yet.
LEMMA NewCopyFresh ==
  ASSUME CopyInv, NEW c \in Calls
  PROVE  /\ \A s \in Streams : Copy(c) \notin CopiesOf(s)
         /\ Copy(c) \notin InLists /\ Copy(c) \notin lost
<1>1. idx[c] \in Nat /\ Copy(c)[1] = c /\ Copy(c)[2] = idx[c]
  BY DEF CopyInv, IInv, TypeOK, Copy
<1>2. ~(idx[c] < idx[c])
  BY <1>1
<1> QED
  BY <1>1, <1>2, HeldPassed

-----------------------------------------------------------------------------
(* How the copies move.                                                    *)

\* ch <- msg puts one more copy on a stream.
LEMMA SendMoves ==
  ASSUME CopyInv, NEW c \in Calls, SendToChannel(c)
  PROVE  \E s \in Streams :
           /\ s = target[c] /\ Copy(c) \in Copies
           /\ channel' = [channel EXCEPT ![s] = Append(@, Copy(c))]
           /\ UNCHANGED <<received, wire, hand, redis, lost>>
           /\ CopiesOf(s)' = CopiesOf(s) \cup {Copy(c)}
           /\ \A t \in Streams \ {s} : CopiesOf(t)' = CopiesOf(t)
           /\ OnStreams' = OnStreams \cup {Copy(c)}
<1>1. TypeOK /\ CallShape /\ InLoop(c)
  BY DEF CopyInv, IInv, SendToChannel, InLoop
<1>2. Copy(c) \in Copies
  BY <1>1, ReceiverFacts
<1>3. PICK s \in Streams : s = target[c]
  BY <1>1 DEF CallShape, SendToChannel
<1>4. /\ channel' = [channel EXCEPT ![s] = Append(@, Copy(c))]
      /\ UNCHANGED <<received, wire, hand, redis, lost>>
  BY <1>3 DEF SendToChannel, peerVars, storeVars
<1>5. SeqRange(channel'[s]) = SeqRange(channel[s]) \cup {Copy(c)}
  BY <1>1, <1>2, <1>4, AppendRange DEF TypeOK
<1>6. \A t \in Streams \ {s} : channel'[t] = channel[t]
  BY <1>1, <1>4 DEF TypeOK
<1>7. /\ CopiesOf(s)' = CopiesOf(s) \cup {Copy(c)}
      /\ \A t \in Streams \ {s} : CopiesOf(t)' = CopiesOf(t)
  BY <1>4, <1>5, <1>6 DEF CopiesOf
<1>8. OnStreams' = OnStreams \cup {Copy(c)}
  BY <1>4, <1>5, <1>6 DEF OnStreams
<1> QED
  BY <1>2, <1>3, <1>4, <1>7, <1>8

\* RPush adds the copy to the list of its receiver, or loses it.
LEMMA PushMoves ==
  ASSUME CopyInv, NEW c \in Calls, PushOffline(c)
  PROVE  /\ Copy(c) \in Copies /\ Receiver(c) \in Users
         /\ UNCHANGED <<received, wire, hand, channel>>
         /\ \/ /\ redis' = [redis EXCEPT ![OfflineKey(Receiver(c))] = Append(@, Copy(c))]
               /\ InLists' = InLists \cup {Copy(c)}
               /\ UNCHANGED lost
            \/ /\ lost' = lost \cup {Copy(c)}
               /\ UNCHANGED redis /\ InLists' = InLists
<1>1. TypeOK /\ CallShape /\ InLoop(c)
  BY DEF CopyInv, IInv, PushOffline, InLoop
<1>2. Copy(c) \in Copies /\ Receiver(c) \in Users /\ OfflineKey(Receiver(c)) \in Keys
  BY <1>1, ReceiverFacts, KeyFacts
<1>3. UNCHANGED <<received, wire, hand, channel>>
  BY DEF PushOffline, streamVars, peerVars
<1>4. ASSUME redis' = [redis EXCEPT ![OfflineKey(Receiver(c))] = RPush(@, Copy(c))]
      PROVE  InLists' = InLists \cup {Copy(c)}
  <2>1. PICK key \in Keys : key = OfflineKey(Receiver(c))
    BY <1>2
  <2>2. redis[key] \in Seq(Copies) /\ redis'[key] = Append(redis[key], Copy(c))
    BY <1>1, <1>4, <2>1 DEF TypeOK, RPush
  <2>3. SeqRange(redis'[key]) = SeqRange(redis[key]) \cup {Copy(c)}
    BY <1>2, <2>2, AppendRange
  <2>4. \A l \in Keys \ {key} : redis'[l] = redis[l]
    BY <1>1, <1>4, <2>1 DEF TypeOK
  <2> QED
    BY <2>1, <2>3, <2>4 DEF InLists
<1>5. (UNCHANGED redis) => InLists' = InLists
  BY DEF InLists
<1> QED
  BY <1>2, <1>3, <1>4, <1>5 DEF PushOffline, RPush

\* Taking a message from the channel and sending it keep it on its stream.
LEMMA TakeMoves ==
  ASSUME CopyInv, NEW s \in Streams, TakeMessage(s)
  PROVE  /\ hand[s] = <<>> /\ channel[s] # <<>>
         /\ hand' = [hand EXCEPT ![s] = <<Head(channel[s])>>]
         /\ channel' = [channel EXCEPT ![s] = Tail(@)]
         /\ UNCHANGED <<received, wire, redis, lost>>
         /\ \A t \in Streams : CopiesOf(t)' = CopiesOf(t)
         /\ OnStreams' = OnStreams
<1>1. TypeOK /\ hand[s] = <<>>
  BY DEF CopyInv, IInv, AtWork, TakeMessage
<1>2. /\ channel[s] # <<>>
      /\ hand' = [hand EXCEPT ![s] = <<Head(channel[s])>>]
      /\ channel' = [channel EXCEPT ![s] = Tail(@)]
      /\ UNCHANGED <<received, wire, redis, lost>>
  BY DEF TakeMessage, peerVars, storeVars
<1>3. SeqRange(hand'[s]) = {Head(channel[s])}
  BY <1>1, <1>2 DEF TypeOK, SeqRange
<1>4. SeqRange(channel[s]) = {Head(channel[s])} \cup SeqRange(channel'[s])
  <2>1. channel[s] \in Seq(Copies) /\ Sorted(channel[s], Turn) /\ channel'[s] = Tail(channel[s])
    BY <1>1, <1>2, PartsApart DEF TypeOK, SortedInParts
  <2> QED
    BY <1>2, <2>1, SortedTail
<1>5. \A t \in Streams \ {s} : hand'[t] = hand[t] /\ channel'[t] = channel[t]
  BY <1>1, <1>2 DEF TypeOK
<1>6. \A t \in Streams : SeqRange(hand'[t]) \cup SeqRange(channel'[t])
                           = SeqRange(hand[t]) \cup SeqRange(channel[t])
  BY <1>1, <1>3, <1>4, <1>5, EmptyRange
<1>7. \A t \in Streams : CopiesOf(t)' = CopiesOf(t)
  BY <1>2, <1>6 DEF CopiesOf
<1>8. OnStreams' = OnStreams
  BY <1>2, <1>6, SMTT(30) DEF OnStreams
<1> QED
  BY <1>1, <1>2, <1>7, <1>8

LEMMA StreamSendMoves ==
  ASSUME CopyInv, NEW s \in Streams, StreamSend(s)
  PROVE  /\ wire' = [wire EXCEPT ![s] = @ \o hand[s]]
         /\ hand' = [hand EXCEPT ![s] = <<>>]
         /\ UNCHANGED <<received, channel, redis, lost>>
         /\ \A t \in Streams : CopiesOf(t)' = CopiesOf(t)
         /\ OnStreams' = OnStreams
<1>1. TypeOK
  BY DEF CopyInv, IInv
<1>2. /\ wire' = [wire EXCEPT ![s] = @ \o hand[s]]
      /\ hand' = [hand EXCEPT ![s] = <<>>]
      /\ UNCHANGED <<received, channel, redis, lost>>
  BY DEF StreamSend, storeVars
<1>3. SeqRange(wire'[s]) = SeqRange(wire[s]) \cup SeqRange(hand[s]) /\ SeqRange(hand'[s]) = {}
  BY <1>1, <1>2, ConcatElements, EmptyRange DEF TypeOK
<1>4. \A t \in Streams \ {s} : wire'[t] = wire[t] /\ hand'[t] = hand[t]
  BY <1>1, <1>2 DEF TypeOK
<1>5. \A t \in Streams : SeqRange(wire'[t]) \cup SeqRange(hand'[t])
                           = SeqRange(wire[t]) \cup SeqRange(hand[t])
  BY <1>3, <1>4
<1>6. \A t \in Streams : CopiesOf(t)' = CopiesOf(t)
  BY <1>2, <1>5 DEF CopiesOf
<1>7. OnStreams' = OnStreams
  BY <1>2, <1>5 DEF OnStreams
<1> QED
  BY <1>2, <1>6, <1>7

\* A failed Send loses the copy in hand and no other.
LEMMA SendFailsMoves ==
  ASSUME CopyInv, NEW s \in Streams, StreamSendFails(s)
  PROVE  \E k \in Copies :
           /\ hand[s] = <<k>>
           /\ hand' = [hand EXCEPT ![s] = <<>>]
           /\ UNCHANGED <<received, wire, channel, redis>>
           /\ lost' = lost \cup {k}
           /\ k \in CopiesOf(s) /\ CopiesOf(s)' = CopiesOf(s) \ {k}
           /\ \A t \in Streams \ {s} : CopiesOf(t)' = CopiesOf(t)
           /\ k \in OnStreams /\ OnStreams' = OnStreams \ {k}
<1>1. TypeOK /\ Len(hand[s]) = 1 /\ OnePlace
  BY DEF CopyInv, IInv, AtWork, StreamSendFails
<1>2. PICK k \in Copies : hand[s] = <<k>>
  BY <1>1, SequenceOfOne DEF TypeOK
<1>3. SeqRange(hand[s]) = {k}
  BY <1>2 DEF SeqRange
<1>4. /\ hand' = [hand EXCEPT ![s] = <<>>]
      /\ UNCHANGED <<received, wire, channel, redis>>
      /\ lost' = lost \cup {k}
  BY <1>3 DEF StreamSendFails, peerVars
<1>5. SeqRange(hand'[s]) = {} /\ \A t \in Streams \ {s} : hand'[t] = hand[t]
  BY <1>1, <1>4, EmptyRange DEF TypeOK
<1>6. /\ k \notin SeqRange(received[s]) /\ k \notin SeqRange(wire[s])
      /\ k \notin SeqRange(channel[s])
  BY <1>3, PartsApart
<1>7. /\ k \in CopiesOf(s) /\ CopiesOf(s)' = CopiesOf(s) \ {k}
      /\ \A t \in Streams \ {s} : CopiesOf(t)' = CopiesOf(t)
  BY <1>3, <1>4, <1>5, <1>6 DEF CopiesOf
<1>8. \A t \in Streams \ {s} : k \notin CopiesOf(t)
  BY <1>1, <1>7 DEF OnePlace
<1>9. k \in OnStreams
  BY <1>3 DEF OnStreams
<1>10. OnStreams' = OnStreams \ {k}
  <2>1. \A t \in Streams :
          SeqRange(wire'[t]) \cup SeqRange(hand'[t]) \cup SeqRange(channel'[t])
            = (SeqRange(wire[t]) \cup SeqRange(hand[t]) \cup SeqRange(channel[t])) \ {k}
    BY <1>3, <1>4, <1>5, <1>6, <1>8 DEF CopiesOf
  <2> QED
    BY <2>1 DEF OnStreams
<1> QED
  BY <1>2, <1>4, <1>7, <1>9, <1>10

\* The client receives the first copy on the wire.
LEMMA RecvMoves ==
  ASSUME CopyInv, NEW s \in Streams, ClientRecv(s)
  PROVE  \E k \in Copies :
           /\ wire[s] # <<>> /\ k = Head(wire[s])
           /\ received' = [received EXCEPT ![s] = Append(@, k)]
           /\ wire' = [wire EXCEPT ![s] = Tail(@)]
           /\ UNCHANGED <<hand, channel, redis, lost>>
           /\ \A t \in Streams : CopiesOf(t)' = CopiesOf(t)
           /\ k \in OnStreams /\ OnStreams' = OnStreams \ {k}
           /\ AtClients' = AtClients \cup {k}
<1>1. TypeOK /\ wire[s] # <<>> /\ OnePlace
  BY DEF CopyInv, IInv, ClientRecv
<1>2. wire[s] \in Seq(Copies) /\ received[s] \in Seq(Copies)
  BY <1>1 DEF TypeOK
<1>3. PICK k \in Copies : k = Head(wire[s])
  BY <1>1, <1>2
<1>4. /\ received' = [received EXCEPT ![s] = Append(@, k)]
      /\ wire' = [wire EXCEPT ![s] = Tail(@)]
      /\ UNCHANGED <<hand, channel, redis, lost>>
  BY <1>3 DEF ClientRecv, streamVars, storeVars
<1>5. /\ received'[s] = Append(received[s], k) /\ wire'[s] = Tail(wire[s])
      /\ \A t \in Streams \ {s} : received'[t] = received[t] /\ wire'[t] = wire[t]
  BY <1>1, <1>4 DEF TypeOK
<1>6. SeqRange(received'[s]) = SeqRange(received[s]) \cup {k}
  BY <1>2, <1>5, AppendRange
<1>7. SeqRange(wire[s]) = {k} \cup SeqRange(wire'[s]) /\ k \notin SeqRange(wire'[s])
  <2>1. Sorted(wire[s], Turn)
    BY PartsApart DEF SortedInParts
  <2>2. SeqRange(wire[s]) = {k} \cup SeqRange(wire'[s])
    BY <1>1, <1>2, <1>3, <1>5, <2>1, SortedTail
  <2>3. k \notin SeqRange(wire'[s])
    BY <1>1, <1>3, <1>5, PartsApart
  <2> QED
    BY <2>2, <2>3
<1>8. k \notin SeqRange(hand[s]) /\ k \notin SeqRange(channel[s])
  BY <1>7, PartsApart
<1>9. k \in CopiesOf(s) /\ \A t \in Streams : CopiesOf(t)' = CopiesOf(t)
  BY <1>4, <1>5, <1>6, <1>7 DEF CopiesOf
<1>10. \A t \in Streams \ {s} : k \notin CopiesOf(t)
  BY <1>1, <1>9 DEF OnePlace
<1>11. k \in OnStreams
  BY <1>7 DEF OnStreams
<1>12. OnStreams' = OnStreams \ {k}
  <2>1. \A t \in Streams :
          SeqRange(wire'[t]) \cup SeqRange(hand'[t]) \cup SeqRange(channel'[t])
            = (SeqRange(wire[t]) \cup SeqRange(hand[t]) \cup SeqRange(channel[t])) \ {k}
    BY <1>4, <1>5, <1>7, <1>8, <1>10 DEF CopiesOf
  <2> QED
    BY <2>1 DEF OnStreams
<1>13. AtClients' = AtClients \cup {k}
  BY <1>5, <1>6 DEF AtClients
<1> QED
  BY <1>1, <1>3, <1>4, <1>9, <1>11, <1>12, <1>13

\* A crash loses what is in the channels and in hand, and nothing else.
LEMMA CrashMoves ==
  ASSUME CopyInv, Crash
  PROVE  /\ hand' = [s \in Streams |-> <<>>] /\ channel' = [s \in Streams |-> <<>>]
         /\ UNCHANGED <<received, wire, redis>>
         /\ lost' = lost \cup InMemory
         /\ InMemory \subseteq OnStreams /\ OnStreams' = OnStreams \ InMemory
         /\ InMemory \subseteq UNION {CopiesOf(s) : s \in Streams}
         /\ \A s \in Streams : CopiesOf(s)' = CopiesOf(s) \ InMemory
<1>1. TypeOK /\ OnePlace
  BY DEF CopyInv, IInv
<1>2. /\ hand' = [s \in Streams |-> <<>>] /\ channel' = [s \in Streams |-> <<>>]
      /\ UNCHANGED <<received, wire, redis>>
      /\ lost' = lost \cup InMemory
  BY DEF Crash
<1>3. \A s \in Streams : SeqRange(hand'[s]) = {} /\ SeqRange(channel'[s]) = {}
  BY <1>2, EmptyRange
<1>4. ASSUME NEW s \in Streams, NEW k \in SeqRange(received[s]) \cup SeqRange(wire[s])
      PROVE  k \notin InMemory
  <2>1. SUFFICES ASSUME NEW t \in Streams, k \in SeqRange(channel[t]) \cup SeqRange(hand[t])
                 PROVE  FALSE
    BY DEF InMemory
  <2>2. k \in CopiesOf(s) /\ k \in CopiesOf(t)
    BY <1>4, <2>1 DEF CopiesOf
  <2>3. s = t
    BY <1>1, <2>2 DEF OnePlace
  <2> QED
    BY <1>4, <2>1, <2>3, PartsApart
<1>5. ASSUME NEW s \in Streams, NEW k \in SeqRange(channel[s]) \cup SeqRange(hand[s])
      PROVE  k \in InMemory
  BY <1>5 DEF InMemory
<1>6. \A s \in Streams : CopiesOf(s)' = CopiesOf(s) \ InMemory
  BY <1>2, <1>3, <1>4, <1>5 DEF CopiesOf
<1>7. InMemory \subseteq OnStreams /\ InMemory \subseteq UNION {CopiesOf(s) : s \in Streams}
  BY DEF InMemory, OnStreams, CopiesOf
<1>8. OnStreams' = OnStreams \ InMemory
  <2>1. \A s \in Streams :
          SeqRange(wire'[s]) \cup SeqRange(hand'[s]) \cup SeqRange(channel'[s])
            = (SeqRange(wire[s]) \cup SeqRange(hand[s]) \cup SeqRange(channel[s])) \ InMemory
    BY <1>2, <1>3, <1>4, <1>5
  <2> QED
    BY <2>1 DEF OnStreams
<1> QED
  BY <1>2, <1>6, <1>7, <1>8

-----------------------------------------------------------------------------
(* The invariant is inductive.                                             *)

LEMMA ReturnedStays ==
  ASSUME TypeOK, [Next]_vars, NEW d \in Calls, Returned(d)
  PROVE  Returned(d)'
<1> USE DEF TypeOK, Returned
<1>1. ASSUME NEW c \in Calls, SendMessage(c) \/ RejectSend(c) \/ CallStep(c)
      PROVE  Returned(d)'
  <2>1. c # d /\ \A e \in Calls \ {c} : callPc'[e] = callPc[e]
    BY <1>1 DEF SendMessage, RejectSend, CallStep, LockForLookup, Lookup, SendToChannel,
       PushOffline, CreateMessages, NextReceiver
  <2> QED
    BY <2>1
<1>2. ASSUME NEW s \in Streams,
             \/ StreamMessages(s) \/ RejectStream(s) \/ StreamStep(s) \/ DrainStep(s)
             \/ ClientRecv(s) \/ ClientGone(s)
      PROVE  UNCHANGED callPc
  BY <1>2 DEF StreamMessages, RejectStream, StreamStep, DrainStep, ClientRecv, ClientGone,
     LockToRegister, Register, TakeMessage, StreamSend, StreamSendFails, LockToUnregister,
     Unregister, DrainRead, DrainReadFails, DrainPush, DrainForward, DrainDelete, callVars
<1>3. Crash => Returned(d)'
  BY DEF Crash
<1>4. (UNCHANGED vars) => UNCHANGED callPc
  BY DEF vars, callVars
<1> QED
  BY <1>1, <1>2, <1>3, <1>4 DEF Next

\* Calls begin by SendMessage, and only then what they found finished is recorded.
LEMMA BeginStep ==
  ASSUME TypeOK, [Next]_vars
  PROVE  \/ UNCHANGED <<receivers, finishedBefore>>
         \/ \E c \in Calls : SendMessage(c)
<1>1. ASSUME NEW c \in Calls, RejectSend(c) \/ CallStep(c)
      PROVE  UNCHANGED <<receivers, finishedBefore>>
  BY <1>1 DEF RejectSend, CallStep, LockForLookup, Lookup, SendToChannel,
     PushOffline, CreateMessages
<1>2. ASSUME NEW s \in Streams,
             \/ StreamMessages(s) \/ RejectStream(s) \/ StreamStep(s) \/ DrainStep(s)
             \/ ClientRecv(s) \/ ClientGone(s)
      PROVE  UNCHANGED <<receivers, finishedBefore>>
  BY <1>2 DEF StreamMessages, RejectStream, StreamStep, DrainStep, ClientRecv, ClientGone,
     LockToRegister, Register, TakeMessage, StreamSend, StreamSendFails, LockToUnregister,
     Unregister, DrainRead, DrainReadFails, DrainPush, DrainForward, DrainDelete, callVars
<1>3. Crash => UNCHANGED <<receivers, finishedBefore>>
  BY DEF Crash
<1>4. (UNCHANGED vars) => UNCHANGED <<receivers, finishedBefore>>
  BY DEF vars, callVars
<1> QED
  BY <1>1, <1>2, <1>3, <1>4 DEF Next

LEMMA AtWorkStep ==
  ASSUME TypeOK, CallShape, StreamShape, AtWork, [Next]_vars
  PROVE  AtWork'
<1>1. ASSUME NEW c \in Calls, callPc'[c] \notin {"idle", "failed"} PROVE receivers'[c] # <<>>
  <2>1. CASE SendMessage(c)
    BY <2>1 DEF SendMessage, TypeOK
  <2>2. CASE ~SendMessage(c)
    <3>1. receivers'[c] = receivers[c]
      BY <2>2, BeginStep DEF SendMessage, TypeOK
    <3>2. callPc[c] \notin {"idle", "failed"}
      <4>1. ASSUME NEW d \in Calls, SendMessage(d) \/ RejectSend(d) \/ CallStep(d)
            PROVE  callPc[c] \notin {"idle", "failed"}
        BY <1>1, <2>2, <4>1 DEF SendMessage, RejectSend, CallStep, LockForLookup, Lookup,
           SendToChannel, PushOffline, CreateMessages, NextReceiver, TypeOK
      <4>2. Crash => callPc[c] \notin {"idle", "failed"}
        BY <1>1 DEF Crash
      <4>3. ASSUME NEW s \in Streams,
                   \/ StreamMessages(s) \/ RejectStream(s) \/ StreamStep(s) \/ DrainStep(s)
                   \/ ClientRecv(s) \/ ClientGone(s)
            PROVE  UNCHANGED callPc
        BY <4>3 DEF StreamMessages, RejectStream, StreamStep, DrainStep, ClientRecv, ClientGone,
           LockToRegister, Register, TakeMessage, StreamSend, StreamSendFails, LockToUnregister,
           Unregister, DrainRead, DrainReadFails, DrainPush, DrainForward, DrainDelete, callVars
      <4>4. (UNCHANGED vars) => UNCHANGED callPc
        BY DEF vars, callVars
      <4> QED
        BY <1>1, <4>1, <4>2, <4>3, <4>4 DEF Next
    <3> QED
      BY <3>1, <3>2 DEF AtWork
  <2> QED
    BY <2>1, <2>2
<1>2. ASSUME NEW c \in Calls, NEW d \in finishedBefore'[c] PROVE Returned(d)'
  <2>1. d \in finishedBefore[c] \/ d \in {e \in Calls : Returned(e)}
    BY <1>2, BeginStep DEF SendMessage, TypeOK
  <2>2. d \in Calls /\ Returned(d)
    BY <2>1 DEF AtWork, TypeOK
  <2> QED
    BY <2>2, ReturnedStays
<1>3. ASSUME NEW s \in Streams
      PROVE  IF streamPc'[s] = "send" THEN Len(hand'[s]) = 1 ELSE hand'[s] = <<>>
  <2> USE DEF TypeOK, AtWork
  <2>1. ASSUME NEW t \in Streams, TakeMessage(t)
        PROVE  IF streamPc'[s] = "send" THEN Len(hand'[s]) = 1 ELSE hand'[s] = <<>>
    BY <2>1 DEF TakeMessage
  <2>2. ASSUME NEW t \in Streams, StreamSend(t) \/ StreamSendFails(t)
        PROVE  IF streamPc'[s] = "send" THEN Len(hand'[s]) = 1 ELSE hand'[s] = <<>>
    BY <2>2 DEF StreamSend, StreamSendFails
  <2>3. ASSUME Crash
        PROVE  IF streamPc'[s] = "send" THEN Len(hand'[s]) = 1 ELSE hand'[s] = <<>>
    BY <2>3 DEF Crash
  <2>4. ASSUME UNCHANGED hand, (streamPc'[s] = "send") <=> (streamPc[s] = "send")
        PROVE  IF streamPc'[s] = "send" THEN Len(hand'[s]) = 1 ELSE hand'[s] = <<>>
    BY <2>4
  <2>5. ASSUME NEW c \in Calls, SendMessage(c) \/ RejectSend(c) \/ CallStep(c)
        PROVE  UNCHANGED hand /\ ((streamPc'[s] = "send") <=> (streamPc[s] = "send"))
    BY <2>5 DEF SendMessage, RejectSend, CallStep, LockForLookup, Lookup, SendToChannel,
       PushOffline, CreateMessages, streamVars
  <2>6. ASSUME NEW t \in Streams,
               \/ StreamMessages(t) \/ RejectStream(t) \/ LockToRegister(t) \/ Register(t)
               \/ LockToUnregister(t) \/ Unregister(t)
        PROVE  UNCHANGED hand /\ ((streamPc'[s] = "send") <=> (streamPc[s] = "send"))
    BY <2>6 DEF StreamMessages, RejectStream, LockToRegister, Register, LockToUnregister,
       Unregister
  <2>7. ASSUME NEW t \in Streams, DrainStep(t) \/ ClientRecv(t) \/ ClientGone(t)
        PROVE  UNCHANGED hand /\ ((streamPc'[s] = "send") <=> (streamPc[s] = "send"))
    BY <2>7 DEF DrainStep, ClientRecv, ClientGone, DrainRead, DrainReadFails, DrainPush,
       DrainForward, DrainDelete, streamVars
  <2>8. (UNCHANGED vars) => UNCHANGED <<hand, streamPc>>
    BY DEF vars, streamVars
  <2> QED
    BY <2>1, <2>2, <2>3, <2>4, <2>5, <2>6, <2>7, <2>8 DEF Next, StreamStep
<1> QED
  BY <1>1, <1>2, <1>3 DEF AtWork

\* Whatever happens, what was in turn stays in turn ...
LEMMA TurnStays ==
  ASSUME CopyInv, [Next]_vars, NEW k \in Copies, NEW l \in Copies,
         k[2] < idx[k[1]], <<k, l>> \in Turn
  PROVE  <<k, l>> \in Turn'
<1>1. TypeOK /\ CallShape
  BY DEF CopyInv, IInv
<1>2. k[1] \in Calls /\ k[2] \in Nat \ {0} /\ idx[k[1]] \in Nat
  BY <1>1 DEF Copies, TypeOK
<1>3. ASSUME NEW c \in Calls, SendMessage(c) PROVE finishedBefore'[k[1]] = finishedBefore[k[1]]
  <2>1. k[1] # c
    BY <1>1, <1>2, <1>3 DEF SendMessage, CallShape
  <2> QED
    BY <1>1, <1>2, <1>3, <2>1 DEF SendMessage, TypeOK
<1>4. finishedBefore'[k[1]] = finishedBefore[k[1]]
  BY <1>1, <1>3, BeginStep
<1> QED
  BY <1>4 DEF Turn, MayFollow, Precedes

\* ... and the copy that is placed next may follow all that were placed before:
\* its call has not returned, and is past the copies before it only.
LEMMA NewCopyInTurn ==
  ASSUME CopyInv, NEW c \in Calls, SendToChannel(c) \/ PushOffline(c),
         NEW k \in Copies, k[2] < idx[k[1]]
  PROVE  <<k, Copy(c)>> \in Turn'
<1>1. TypeOK /\ CallShape /\ InLoop(c) /\ ~Returned(c) /\ AtWork
  BY DEF CopyInv, IInv, SendToChannel, PushOffline, InLoop, Returned
<1>2. UNCHANGED finishedBefore
  BY DEF SendToChannel, PushOffline
<1>3. PICK n \in Copies : n = Copy(c)
  BY <1>1, ReceiverFacts
<1>4. n[1] = c /\ n[2] = idx[c] /\ idx[c] \in Nat
  BY <1>1, <1>3 DEF Copy, TypeOK
<1>5. k[1] \in Calls /\ k[2] \in Nat
  BY DEF Copies
<1>6. k # n
  BY <1>4
<1>7. ~Precedes(n, k)
  <2>1. n[1] \notin finishedBefore[k[1]]
    BY <1>1, <1>4, <1>5 DEF AtWork
  <2>2. ~(n[1] = k[1] /\ n[2] < k[2])
    BY <1>4, <1>5
  <2> QED
    BY <2>1, <2>2 DEF Precedes
<1>8. <<k, n>> \in Turn'
  BY <1>2, <1>6, <1>7 DEF Turn, MayFollow, Precedes
<1>9. Copy(c) = n
  BY <1>3
<1>10. PICK T : T = Turn'
  OBVIOUS
<1> QED
  BY <1>8, <1>9, <1>10

LEMMA EachInTurnStep ==
  ASSUME CopyInv, TypeOK', [Next]_vars
  PROVE  EachInTurn'
<1>1. TypeOK /\ EachInTurn
  BY DEF CopyInv, IInv
<1>2. PICK T : T = Turn'
  OBVIOUS
<1>3. ASSUME NEW q, NEW S, S \subseteq Copies, SeqRange(q) \subseteq S,
             \A k \in S : k[2] < idx[k[1]], Sorted(q, Turn)
      PROVE  Sorted(q, T)
  <2>1. SUFFICES ASSUME NEW m \in 1 .. Len(q), NEW n \in 1 .. Len(q), m < n
                 PROVE  <<q[m], q[n]>> \in T
    BY DEF Sorted
  <2>2. q[m] \in S /\ q[n] \in S /\ <<q[m], q[n]>> \in Turn
    BY <1>3, <2>1 DEF Sorted, SeqRange
  <2>3. PICK k \in Copies, l \in Copies : k = q[m] /\ l = q[n] /\ k[2] < idx[k[1]]
    BY <1>3, <2>2
  <2> QED
    BY <1>2, <2>2, <2>3, TurnStays
<1>4. ASSUME NEW p, NEW q, NEW S, S \subseteq Copies, SeqRange(p) \subseteq S,
             SeqRange(q) \subseteq S, \A k \in S : k[2] < idx[k[1]], Before(p, q, Turn)
      PROVE  Before(p, q, T)
  BY <1>2, <1>4, TurnStays DEF Before
<1>5. ASSUME NEW s \in Streams
      PROVE  SortedInParts(received[s], wire[s], hand[s], channel[s], T)
  <2>1. PICK S \in SUBSET Copies : S = CopiesOf(s)
    BY HeldPassed
  <2>2. /\ SeqRange(received[s]) \subseteq S /\ SeqRange(wire[s]) \subseteq S
        /\ SeqRange(hand[s]) \subseteq S /\ SeqRange(channel[s]) \subseteq S
    BY <2>1 DEF CopiesOf
  <2>3. \A k \in S : k[2] < idx[k[1]]
    BY <2>1, HeldPassed
  <2> QED
    BY <1>3, <1>4, <2>2, <2>3, PartsApart DEF SortedInParts
<1>6. ASSUME NEW u \in Users PROVE Sorted(redis[OfflineKey(u)], T)
  <2>1. InLists \in SUBSET Copies /\ SeqRange(redis[OfflineKey(u)]) \subseteq InLists
        /\ \A k \in InLists : k[2] < idx[k[1]]
    BY HeldPassed
  <2>2. Sorted(redis[OfflineKey(u)], Turn)
    BY <1>1, InTurnIsSorted DEF EachInTurn
  <2> QED
    BY <1>3, <2>1, <2>2
<1>7. ASSUME NEW s \in Streams
      PROVE  SortedInParts(received'[s], wire'[s], hand'[s], channel'[s], T)
  <2>1. /\ received[s] \in Seq(Copies) /\ wire[s] \in Seq(Copies)
        /\ hand[s] \in Seq(Copies) /\ channel[s] \in Seq(Copies) /\ Len(hand[s]) <= 1
    BY PartsApart
  <2>2. ASSUME /\ received'[s] = received[s] /\ wire'[s] = wire[s]
               /\ hand'[s] = hand[s] /\ channel'[s] = channel[s]
        PROVE  SortedInParts(received'[s], wire'[s], hand'[s], channel'[s], T)
    BY <1>5, <2>2
  <2>3. ASSUME NEW c \in Calls, SendToChannel(c)
        PROVE  SortedInParts(received'[s], wire'[s], hand'[s], channel'[s], T)
    <3>1. PICK t \in Streams : /\ Copy(c) \in Copies
                               /\ channel' = [channel EXCEPT ![t] = Append(@, Copy(c))]
                               /\ UNCHANGED <<received, wire, hand, redis, lost>>
      BY <2>3, SendMoves
    <3>2. CASE s = t
      <4>1. channel'[s] = Append(channel[s], Copy(c))
        BY <1>1, <3>1, <3>2 DEF TypeOK
      <4>2. \A k \in CopiesOf(s) : <<k, Copy(c)>> \in T
        BY <1>2, <2>3, HeldPassed, NewCopyInTurn
      <4>3. \A k \in SeqRange(received[s]) \cup SeqRange(wire[s]) \cup SeqRange(hand[s])
                     \cup SeqRange(channel[s]) : <<k, Copy(c)>> \in T
        BY <4>2 DEF CopiesOf
      <4>4. SortedInParts(received[s], wire[s], hand[s], Append(channel[s], Copy(c)), T)
        BY <1>5, <2>1, <3>1, <4>3, PartsAppend
      <4> QED
        BY <3>1, <4>1, <4>4
    <3>3. CASE s # t
      BY <1>1, <2>2, <3>1, <3>3 DEF TypeOK
    <3> QED
      BY <3>2, <3>3
  <2>4. ASSUME NEW t \in Streams, TakeMessage(t)
        PROVE  SortedInParts(received'[s], wire'[s], hand'[s], channel'[s], T)
    <3>1. /\ hand[t] = <<>> /\ channel[t] # <<>>
          /\ hand' = [hand EXCEPT ![t] = <<Head(channel[t])>>]
          /\ channel' = [channel EXCEPT ![t] = Tail(@)]
          /\ UNCHANGED <<received, wire>>
      BY <2>4, TakeMoves
    <3>2. CASE s = t
      <4>1. hand'[s] = <<Head(channel[s])>> /\ channel'[s] = Tail(channel[s])
        BY <1>1, <3>1, <3>2 DEF TypeOK
      <4> QED
        BY <1>5, <2>1, <3>1, <3>2, <4>1, PartsTake
    <3>3. CASE s # t
      BY <1>1, <2>2, <3>1, <3>3 DEF TypeOK
    <3> QED
      BY <3>2, <3>3
  <2>5. ASSUME NEW t \in Streams, StreamSend(t)
        PROVE  SortedInParts(received'[s], wire'[s], hand'[s], channel'[s], T)
    <3>1. /\ wire' = [wire EXCEPT ![t] = @ \o hand[t]] /\ hand' = [hand EXCEPT ![t] = <<>>]
          /\ UNCHANGED <<received, channel>>
      BY <2>5, StreamSendMoves
    <3>2. CASE s = t
      <4>1. wire'[s] = wire[s] \o hand[s] /\ hand'[s] = <<>>
        BY <1>1, <3>1, <3>2 DEF TypeOK
      <4>2. SortedInParts(received[s], wire[s] \o hand[s], <<>>, channel[s], T)
        BY <1>5, <2>1, PartsSend
      <4> QED
        BY <3>1, <4>1, <4>2
    <3>3. CASE s # t
      BY <1>1, <2>2, <3>1, <3>3 DEF TypeOK
    <3> QED
      BY <3>2, <3>3
  <2>6. ASSUME NEW t \in Streams, StreamSendFails(t)
        PROVE  SortedInParts(received'[s], wire'[s], hand'[s], channel'[s], T)
    <3>1. hand' = [hand EXCEPT ![t] = <<>>] /\ UNCHANGED <<received, wire, channel>>
      BY <2>6, SendFailsMoves
    <3>2. hand'[s] \in {hand[s], <<>>}
      BY <1>1, <3>1 DEF TypeOK
    <3> QED
      BY <1>5, <3>1, <3>2, PartsLost
  <2>7. ASSUME NEW t \in Streams, ClientRecv(t)
        PROVE  SortedInParts(received'[s], wire'[s], hand'[s], channel'[s], T)
    <3>1. /\ wire[t] # <<>>
          /\ received' = [received EXCEPT ![t] = Append(@, Head(wire[t]))]
          /\ wire' = [wire EXCEPT ![t] = Tail(@)]
          /\ UNCHANGED <<hand, channel>>
      BY <2>7, RecvMoves
    <3>2. CASE s = t
      <4>1. received'[s] = Append(received[s], Head(wire[s])) /\ wire'[s] = Tail(wire[s])
        BY <1>1, <3>1, <3>2 DEF TypeOK
      <4> QED
        BY <1>5, <2>1, <3>1, <3>2, <4>1, PartsRecv
    <3>3. CASE s # t
      BY <1>1, <2>2, <3>1, <3>3 DEF TypeOK
    <3> QED
      BY <3>2, <3>3
  <2>8. ASSUME Crash
        PROVE  SortedInParts(received'[s], wire'[s], hand'[s], channel'[s], T)
    <3>1. hand'[s] = <<>> /\ channel'[s] = <<>> /\ UNCHANGED <<received, wire>>
      BY <2>8, CrashMoves
    <3> QED
      BY <1>5, <3>1, PartsLost
  <2>9. Still \/ (\E c \in Calls : PushOffline(c))
         => UNCHANGED <<received, wire, hand, channel>>
    BY PushMoves DEF Still
  <2> QED
    BY <1>1, <2>2, <2>3, <2>4, <2>5, <2>6, <2>7, <2>8, <2>9, StillSteps DEF CopyInv
<1>8. ASSUME NEW u \in Users PROVE Sorted(redis'[OfflineKey(u)], T)
  <2>1. CASE redis'[OfflineKey(u)] = redis[OfflineKey(u)]
    BY <1>6, <2>1
  <2>2. CASE redis'[OfflineKey(u)] # redis[OfflineKey(u)]
    <3>1. ~UNCHANGED redis
      BY <2>2
    <3>2. PICK c \in Calls : PushOffline(c)
      BY <3>1, StillSteps, SendMoves, TakeMoves, StreamSendMoves, SendFailsMoves, RecvMoves,
         CrashMoves DEF CopyInv, Still
    <3>3. /\ Copy(c) \in Copies /\ Receiver(c) \in Users
          /\ redis' = [redis EXCEPT ![OfflineKey(Receiver(c))] = Append(@, Copy(c))]
      BY <3>1, <3>2, PushMoves
    <3>4. OfflineKey(u) = OfflineKey(Receiver(c))
      BY <1>1, <2>2, <3>3, KeyFacts DEF TypeOK
    <3>5. /\ redis[OfflineKey(u)] \in Seq(Copies)
          /\ redis'[OfflineKey(u)] = Append(redis[OfflineKey(u)], Copy(c))
      BY <1>1, <3>3, <3>4, KeyFacts DEF TypeOK
    <3>6. \A k \in SeqRange(redis[OfflineKey(u)]) : <<k, Copy(c)>> \in T
      <4>1. ASSUME NEW k \in InLists PROVE <<k, Copy(c)>> \in T
        BY <1>2, <3>2, <4>1, HeldPassed, NewCopyInTurn
      <4> QED
        BY <4>1, HeldPassed
    <3> QED
      BY <1>6, <3>3, <3>5, <3>6, SortedAppend
  <2> QED
    BY <2>1, <2>2
<1>9. /\ \A s \in Streams :
           InTurn(Pipeline(s))'
             <=> SortedInParts(received'[s], wire'[s], hand'[s], channel'[s], Turn')
      /\ \A u \in Users :
           InTurn(redis[OfflineKey(u)])' <=> Sorted(redis'[OfflineKey(u)], Turn')
  <2>1. (TypeOK => /\ \A s \in Streams :
                        InTurn(Pipeline(s))
                          <=> SortedInParts(received[s], wire[s], hand[s], channel[s], Turn)
                   /\ \A u \in Users :
                        InTurn(redis[OfflineKey(u)]) <=> Sorted(redis[OfflineKey(u)], Turn))'
    BY InTurnIsSorted, PTL
  <2> QED
    BY <2>1
<1> QED
  BY <1>2, <1>7, <1>8, <1>9 DEF EachInTurn

\* The index of a call moves only as it places a copy.
LEMMA IndexStep ==
  ASSUME TypeOK, [Next]_vars
  PROVE  \/ UNCHANGED idx
         \/ \E c \in Calls : SendToChannel(c) \/ PushOffline(c)
<1>1. ASSUME NEW c \in Calls, SendMessage(c) \/ RejectSend(c) \/ CallStep(c),
             ~SendToChannel(c), ~PushOffline(c)
      PROVE  UNCHANGED idx
  BY <1>1 DEF SendMessage, RejectSend, CallStep, LockForLookup, Lookup, CreateMessages
<1>2. ASSUME NEW s \in Streams,
             \/ StreamMessages(s) \/ RejectStream(s) \/ StreamStep(s) \/ DrainStep(s)
             \/ ClientRecv(s) \/ ClientGone(s)
      PROVE  UNCHANGED idx
  BY <1>2 DEF StreamMessages, RejectStream, StreamStep, DrainStep, ClientRecv, ClientGone,
     LockToRegister, Register, TakeMessage, StreamSend, StreamSendFails, LockToUnregister,
     Unregister, DrainRead, DrainReadFails, DrainPush, DrainForward, DrainDelete, callVars
<1>3. Crash => UNCHANGED idx
  BY DEF Crash
<1>4. (UNCHANGED vars) => UNCHANGED idx
  BY DEF vars, callVars
<1> QED
  BY <1>1, <1>2, <1>3, <1>4 DEF Next, CallStep

\* A copy that is held stays held, and the copy of the step is held after it.
LEMMA HeldStep ==
  ASSUME CopyInv, [Next]_vars
  PROVE  /\ Held \subseteq Held'
         /\ \A c \in Calls : SendToChannel(c) \/ PushOffline(c) => Copy(c) \in Held'
<1>1. ASSUME NEW c \in Calls, SendToChannel(c) PROVE Held' = Held \cup {Copy(c)}
  <2>1. InLists' = InLists /\ lost' = lost
    BY <1>1, SendMoves DEF InLists
  <2> QED
    BY <1>1, <2>1, SendMoves DEF Held
<1>2. ASSUME NEW c \in Calls, PushOffline(c) PROVE Held' = Held \cup {Copy(c)}
  <2>1. \A s \in Streams : CopiesOf(s)' = CopiesOf(s)
    BY <1>2, PushMoves DEF CopiesOf
  <2> QED
    BY <1>2, <2>1, PushMoves DEF Held
<1>3. ASSUME NEW s \in Streams, TakeMessage(s) \/ StreamSend(s) \/ ClientRecv(s)
      PROVE  Held' = Held
  <2>1. InLists' = InLists /\ lost' = lost
    BY <1>3, TakeMoves, StreamSendMoves, RecvMoves, ZenonT(60) DEF InLists
  <2>2. \A t \in Streams : CopiesOf(t)' = CopiesOf(t)
    BY <1>3, TakeMoves, StreamSendMoves, RecvMoves
  <2> QED
    BY <2>1, <2>2 DEF Held
<1>4. ASSUME NEW s \in Streams, StreamSendFails(s) PROVE Held' = Held
  <2>1. InLists' = InLists
    BY <1>4, SendFailsMoves DEF InLists
  <2> QED
    BY <1>4, <2>1, SendFailsMoves DEF Held
<1>5. ASSUME Crash PROVE Held' = Held
  <2>1. InLists' = InLists
    BY <1>5, CrashMoves DEF InLists
  <2> QED
    BY <1>5, <2>1, CrashMoves DEF Held
<1>6. Still => Held' = Held
  BY DEF Still, Held, CopiesOf, InLists
<1>7. Held \subseteq Held'
  BY <1>1, <1>2, <1>3, <1>4, <1>5, <1>6, StillSteps DEF CopyInv
<1> QED
  BY <1>1, <1>2, <1>7

LEMMA OnePlaceStep ==
  ASSUME CopyInv, TypeOK', [Next]_vars
  PROVE  OnePlace'
<1>1. TypeOK /\ CallShape /\ OnePlace
  BY DEF CopyInv, IInv
<1> DEFINE Apart == /\ \A s, t \in Streams : s # t => CopiesOf(s) \cap CopiesOf(t) = {}
                    /\ \A s \in Streams : CopiesOf(s) \cap (InLists \cup lost) = {}
                    /\ InLists \cap lost = {}
<1>2. Apart'
  <2>1. Apart
    BY <1>1 DEF OnePlace
  <2>2. ASSUME NEW c \in Calls, SendToChannel(c) PROVE Apart'
    <3>1. UNCHANGED <<InLists, lost>>
      BY <2>2, SendMoves DEF InLists
    <3>2. PICK s \in Streams, k \in Copies :
             /\ k = Copy(c) /\ CopiesOf(s)' = CopiesOf(s) \cup {k}
             /\ \A t \in Streams \ {s} : CopiesOf(t)' = CopiesOf(t)
      BY <2>2, SendMoves
    <3>3. (\A t \in Streams : k \notin CopiesOf(t)) /\ k \notin InLists /\ k \notin lost
      BY <3>2, NewCopyFresh
    <3> QED
      BY <2>1, <3>1, <3>2, <3>3
  <2>3. ASSUME NEW c \in Calls, PushOffline(c) PROVE Apart'
    <3>1. \A s \in Streams : CopiesOf(s)' = CopiesOf(s)
      BY <2>3, PushMoves DEF CopiesOf
    <3>2. PICK k \in Copies : k = Copy(c)
      BY <2>3, PushMoves
    <3>3. (\A t \in Streams : k \notin CopiesOf(t)) /\ k \notin InLists /\ k \notin lost
      BY <3>2, NewCopyFresh
    <3>4. \/ InLists' = InLists \cup {k} /\ lost' = lost
          \/ InLists' = InLists /\ lost' = lost \cup {k}
      BY <2>3, <3>2, PushMoves
    <3> QED
      BY <2>1, <3>1, <3>3, <3>4
  <2>4. ASSUME NEW s \in Streams, TakeMessage(s) \/ StreamSend(s) \/ ClientRecv(s)
        PROVE  Apart'
    <3>1. InLists' = InLists /\ lost' = lost
      BY <2>4, TakeMoves, StreamSendMoves, RecvMoves, ZenonT(60) DEF InLists
    <3>2. \A t \in Streams : CopiesOf(t)' = CopiesOf(t)
      BY <2>4, TakeMoves, StreamSendMoves, RecvMoves
    <3> QED
      BY <2>1, <3>1, <3>2
  <2>5. ASSUME NEW s \in Streams, StreamSendFails(s) PROVE Apart'
    <3>1. InLists' = InLists
      BY <2>5, SendFailsMoves DEF InLists
    <3>2. PICK k \in Copies :
             /\ k \in CopiesOf(s) /\ CopiesOf(s)' = CopiesOf(s) \ {k}
             /\ \A t \in Streams \ {s} : CopiesOf(t)' = CopiesOf(t)
             /\ lost' = lost \cup {k}
      BY <2>5, SendFailsMoves
    <3> QED
      BY <2>1, <3>1, <3>2
  <2>6. ASSUME Crash PROVE Apart'
    <3>1. InLists' = InLists
      BY <2>6, CrashMoves DEF InLists
    <3>2. /\ \A s \in Streams : CopiesOf(s)' = CopiesOf(s) \ InMemory
          /\ lost' = lost \cup InMemory
          /\ InMemory \subseteq UNION {CopiesOf(s) : s \in Streams}
      BY <2>6, CrashMoves
    <3> QED
      BY <2>1, <3>1, <3>2
  <2>7. Still => Apart'
    BY <2>1 DEF Still, CopiesOf, InLists
  <2> QED
    BY <2>2, <2>3, <2>4, <2>5, <2>6, <2>7, StillSteps DEF CopyInv
<1> HIDE DEF Apart
<1>3. \A c \in Calls : idx'[c] >= idx[c]
  <2>1. idx \in [Calls -> Nat \ {0}]
    BY <1>1 DEF TypeOK
  <2>2. ASSUME NEW d \in Calls, idx' = [idx EXCEPT ![d] = @ + 1], NEW c \in Calls
        PROVE  idx'[c] >= idx[c]
    BY <2>1, <2>2
  <2>3. ASSUME UNCHANGED idx, NEW c \in Calls PROVE idx'[c] >= idx[c]
    BY <2>1, <2>3
  <2> QED
    BY <1>1, <2>2, <2>3, IndexStep DEF SendToChannel, PushOffline, NextReceiver
<1>4. ASSUME NEW k \in lost' PROVE k[2] < idx'[k[1]]
  <2>1. k \in Copies
    BY <1>4 DEF TypeOK
  <2>2. k[1] \in Calls /\ k[2] \in Nat /\ idx[k[1]] \in Nat /\ idx'[k[1]] \in Nat
    BY <1>1, <2>1 DEF Copies, TypeOK
  <2>3. CASE k[2] < idx[k[1]]
    BY <1>3, <2>2, <2>3
  <2>4. CASE ~(k[2] < idx[k[1]])
    <3>1. k \notin lost /\ \A s \in Streams : k \notin CopiesOf(s)
      BY <2>4, HeldPassed
    <3>2. PICK c \in Calls : PushOffline(c) /\ k = Copy(c)
      <4>1. lost' # lost
        BY <1>4, <3>1
      <4>2. ASSUME NEW s \in Streams, StreamSendFails(s) PROVE FALSE
        BY <1>4, <3>1, <4>2, SendFailsMoves
      <4>3. ~Crash
        BY <1>4, <3>1, CrashMoves
      <4>4. PICK c \in Calls : PushOffline(c)
        BY <4>1, <4>2, <4>3, StillSteps, SendMoves, TakeMoves, StreamSendMoves, RecvMoves
           DEF CopyInv, Still
      <4> QED
        BY <1>4, <3>1, <4>1, <4>4, PushMoves
    <3>3. k[1] = c /\ k[2] = idx[c] /\ idx'[c] = idx[c] + 1
      BY <1>1, <3>2 DEF PushOffline, NextReceiver, Copy, TypeOK
    <3> QED
      BY <2>2, <3>3
  <2> QED
    BY <2>3, <2>4
<1>5. ASSUME NEW c \in Calls, NEW i \in 1 .. Len(receivers'[c]), i < idx'[c]
      PROVE  <<c, i>> \in Held'
  <2>1. CASE \E d \in Calls : SendMessage(d) /\ d = c
    BY <1>1, <1>5, <2>1 DEF SendMessage, CallShape
  <2>2. CASE ~SendMessage(c)
    <3>1. receivers'[c] = receivers[c]
      <4>1. ASSUME NEW d \in Calls, SendMessage(d) PROVE receivers'[c] = receivers[c]
        <5>1. d # c /\ DOMAIN receivers = Calls
          BY <1>1, <2>2, <4>1 DEF TypeOK
        <5> QED
          BY <4>1, <5>1 DEF SendMessage
      <4> QED
        BY <1>1, <4>1, BeginStep
    <3>2. i \in 1 .. Len(receivers[c]) /\ i \in Nat /\ idx[c] \in Nat /\ idx'[c] \in Nat
      BY <1>1, <1>5, <3>1 DEF TypeOK
    <3>3. CASE i < idx[c]
      <4>1. <<c, i>> \in Held
        BY <1>1, <3>2, <3>3 DEF OnePlace, Held
      <4> QED
        BY <4>1, HeldStep
    <3>4. CASE ~(i < idx[c])
      <4>1. idx'[c] # idx[c]
        BY <1>5, <3>2, <3>4
      <4>2. PICK d \in Calls : SendToChannel(d) \/ PushOffline(d)
        BY <1>1, <4>1, IndexStep
      <4>3. d = c /\ idx'[c] = idx[c] + 1
        BY <1>1, <4>1, <4>2 DEF SendToChannel, PushOffline, NextReceiver, TypeOK
      <4>4. i = idx[c]
        BY <1>5, <3>2, <3>4, <4>3
      <4>5. PICK k : k = <<c, i>>
        OBVIOUS
      <4>6. k = Copy(d)
        BY <4>3, <4>4, <4>5 DEF Copy
      <4>7. k \in Held'
        BY <4>2, <4>6, HeldStep
      <4> QED
        BY <4>5, <4>7
    <3> QED
      BY <3>3, <3>4
  <2> QED
    BY <2>1, <2>2
<1> QED
  BY <1>2, <1>4, <1>5 DEF OnePlace, Apart, Held

-----------------------------------------------------------------------------
(* Why a copy was dropped.                                                 *)

\* A push that failed has failed, and a client that has gone does not come back.
LEMMA ExcusedStays ==
  ASSUME CopyInv, [Next]_vars, NEW k, NEW u \in Users, Excused(k, u)
  PROVE  Excused(k, u)'
<1>1. TypeOK /\ StreamShape
  BY DEF CopyInv, IInv
<1>2. pushFailed \subseteq pushFailed'
  <2>1. ASSUME NEW c \in Calls, SendMessage(c) \/ RejectSend(c) \/ CallStep(c)
        PROVE  pushFailed \subseteq pushFailed'
    BY <2>1 DEF SendMessage, RejectSend, CallStep, LockForLookup, Lookup, SendToChannel,
       PushOffline, CreateMessages, storeVars
  <2>2. ASSUME NEW s \in Streams,
               \/ StreamMessages(s) \/ RejectStream(s) \/ StreamStep(s) \/ DrainStep(s)
               \/ ClientRecv(s) \/ ClientGone(s)
        PROVE  UNCHANGED pushFailed
    BY <2>2 DEF StreamMessages, RejectStream, StreamStep, DrainStep, ClientRecv, ClientGone,
       LockToRegister, Register, TakeMessage, StreamSend, StreamSendFails, LockToUnregister,
       Unregister, DrainRead, DrainReadFails, DrainPush, DrainForward, DrainDelete, storeVars
  <2>3. Crash \/ UNCHANGED vars => UNCHANGED pushFailed
    BY DEF Crash, vars, storeVars
  <2> QED
    BY <2>1, <2>2, <2>3 DEF Next
<1>3. ASSUME NEW s \in Streams, owner[s] = u, peer[s] = "gone"
      PROVE  owner'[s] = u /\ peer'[s] = "gone"
  <2>1. owner[s] # None
    BY <1>3, Constants
  <2>2. owner'[s] = u
    BY <1>1, <1>3, <2>1, OwnerStays
  <2>3. ASSUME NEW t \in Streams, StreamMessages(t) PROVE peer'[s] = "gone"
    <3>1. t # s
      BY <1>1, <2>1, <2>3 DEF StreamMessages, StreamShape
    <3> QED
      BY <1>1, <1>3, <2>3, <3>1 DEF StreamMessages, TypeOK
  <2>4. ASSUME NEW t \in Streams, ClientGone(t) PROVE peer'[s] = "gone"
    BY <1>1, <1>3, <2>4 DEF ClientGone, TypeOK
  <2>5. Crash => peer'[s] = "gone"
    BY <1>3 DEF Crash
  <2>6. ASSUME NEW c \in Calls, SendMessage(c) \/ RejectSend(c) \/ CallStep(c)
        PROVE  UNCHANGED peer
    BY <2>6 DEF SendMessage, RejectSend, CallStep, LockForLookup, Lookup, SendToChannel,
       PushOffline, CreateMessages, peerVars
  <2>7. ASSUME NEW t \in Streams,
               RejectStream(t) \/ StreamStep(t) \/ DrainStep(t) \/ ClientRecv(t)
        PROVE  UNCHANGED peer
    BY <2>7 DEF RejectStream, StreamStep, DrainStep, ClientRecv, LockToRegister, Register,
       TakeMessage, StreamSend, StreamSendFails, LockToUnregister, Unregister, DrainRead,
       DrainReadFails, DrainPush, DrainForward, DrainDelete, peerVars
  <2>8. (UNCHANGED vars) => UNCHANGED peer
    BY DEF vars, peerVars
  <2> QED
    BY <1>3, <2>2, <2>3, <2>4, <2>5, <2>6, <2>7, <2>8 DEF Next
<1> QED
  BY <1>2, <1>3 DEF Excused

\* A stream that knows its user has had a client.
LEMMA AbsentStep ==
  ASSUME CopyInv, [Next]_vars, NEW s \in Streams, peer'[s] = "absent"
  PROVE  owner'[s] = None
<1>1. TypeOK /\ (peer[s] = "absent" => owner[s] = None)
  BY DEF CopyInv, IInv, LossHasACause
<1>2. ASSUME NEW t \in Streams, StreamMessages(t) PROVE owner'[s] = None
  <2>1. t # s
    BY <1>1, <1>2 DEF StreamMessages, TypeOK
  <2> QED
    BY <1>1, <1>2, <2>1 DEF StreamMessages, TypeOK
<1>3. ASSUME NEW t \in Streams, ClientGone(t) PROVE owner'[s] = None
  BY <1>1, <1>3 DEF ClientGone, TypeOK, streamVars
<1>4. Crash => owner'[s] = None
  BY <1>1 DEF Crash
<1>5. ASSUME NEW c \in Calls, SendMessage(c) \/ RejectSend(c) \/ CallStep(c)
      PROVE  UNCHANGED <<peer, owner>>
  BY <1>5 DEF SendMessage, RejectSend, CallStep, LockForLookup, Lookup, SendToChannel,
     PushOffline, CreateMessages, peerVars, streamVars
<1>6. ASSUME NEW t \in Streams,
             RejectStream(t) \/ StreamStep(t) \/ DrainStep(t) \/ ClientRecv(t)
      PROVE  UNCHANGED <<peer, owner>>
  BY <1>6 DEF RejectStream, StreamStep, DrainStep, ClientRecv, LockToRegister, Register,
     TakeMessage, StreamSend, StreamSendFails, LockToUnregister, Unregister, DrainRead,
     DrainReadFails, DrainPush, DrainForward, DrainDelete, peerVars, streamVars
<1>7. (UNCHANGED vars) => UNCHANGED <<peer, owner>>
  BY DEF vars, peerVars, streamVars
<1> QED
  BY <1>1, <1>2, <1>3, <1>4, <1>5, <1>6, <1>7 DEF Next

\* What a stream holds is for the stream's user.
LEMMA HeldForOwner ==
  ASSUME CopyInv, NEW s \in Streams, NEW k \in CopiesOf(s)
  PROVE  k \in Copies /\ owner[s] \in Users /\ PlacedFor(k, owner[s])
<1>1. TypeOK /\ PlacedFor(k, owner[s]) /\ k \in Copies
  BY HeldPassed DEF CopyInv, IInv, CopiesPlaced
<1>2. receivers[k[1]] \in Seq(Users) /\ k[2] \in 1 .. Len(receivers[k[1]])
  BY <1>1 DEF PlacedFor, TypeOK, Copies
<1>3. ReceiverOf(k) \in Users
  BY <1>2 DEF ReceiverOf
<1> QED
  BY <1>1, <1>3 DEF PlacedFor

\* The steps that drop copies are a push that fails, a send to a client that has
\* gone, and a restart.
LEMMA LossStep ==
  ASSUME CopyInv, [Next]_vars
  PROVE  LossHasACause'
<1>1. TypeOK /\ CallShape /\ StreamShape /\ LossHasACause
  BY DEF CopyInv, IInv
<1>2. ASSUME NEW k \in Copies, NEW u \in Users, PlacedFor(k, u), Excused(k, u)
      PROVE  PlacedFor(k, u)' /\ Excused(k, u)'
  BY <1>1, <1>2, PlacedStays, ExcusedStays
<1>3. ASSUME NEW k \in lost PROVE \E u \in Users : PlacedFor(k, u)' /\ Excused(k, u)'
  <2>1. PICK u \in Users : PlacedFor(k, u) /\ Excused(k, u)
    BY <1>1 DEF LossHasACause
  <2> QED
    BY <1>1, <1>2, <2>1 DEF TypeOK
<1>4. ASSUME NEW c \in Calls, PushOffline(c), NEW k \in lost' \ lost
      PROVE  \E u \in Users : PlacedFor(k, u)' /\ Excused(k, u)'
  <2>1. k = Copy(c) /\ k \in pushFailed' /\ NextReceiver(c) /\ UNCHANGED receivers /\ InLoop(c)
    BY <1>4 DEF PushOffline, InLoop
  <2>2. k \in Copies /\ Receiver(c) \in Users
    BY <1>1, <2>1, ReceiverFacts
  <2>3. PICK u \in Users : u = Receiver(c)
    BY <2>2
  <2>4. PlacedFor(k, u)'
    BY <1>1, <2>1, <2>2, <2>3, NewCopyPlaced
  <2>5. Excused(k, u)'
    BY <2>1 DEF Excused
  <2> QED
    BY <2>4, <2>5
<1>5. ASSUME NEW s \in Streams, StreamSendFails(s), NEW k \in lost' \ lost
      PROVE  \E u \in Users : PlacedFor(k, u)' /\ Excused(k, u)'
  <2>1. k \in CopiesOf(s) /\ peer[s] = "gone"
    BY <1>5 DEF StreamSendFails, CopiesOf
  <2>2. PICK u \in Users : u = owner[s] /\ PlacedFor(k, u) /\ k \in Copies
    BY <2>1, HeldForOwner
  <2>3. Excused(k, u)
    BY <2>1, <2>2 DEF Excused
  <2> QED
    BY <1>2, <2>2, <2>3
<1>6. ASSUME Crash, NEW k \in lost' \ lost
      PROVE  \E u \in Users : PlacedFor(k, u)' /\ Excused(k, u)'
  <2>1. k \in InMemory
    BY <1>6 DEF Crash
  <2>2. PICK s \in Streams : k \in CopiesOf(s)
    BY <2>1 DEF InMemory, CopiesOf
  <2>3. PICK u \in Users : u = owner[s] /\ PlacedFor(k, u) /\ k \in Copies
    BY <2>2, HeldForOwner
  <2>4. PlacedFor(k, u)'
    BY <1>1, <2>3, PlacedStays
  <2>5. peer[s] # "absent"
    BY <1>1, <2>3, Constants DEF LossHasACause
  <2>6. owner'[s] = u /\ peer'[s] = "gone"
    BY <1>1, <1>6, <2>3, <2>5 DEF Crash, TypeOK
  <2>7. Excused(k, u)'
    BY <2>6 DEF Excused
  <2> QED
    BY <2>4, <2>7
<1>7. \/ lost' = lost
      \/ \E c \in Calls : PushOffline(c)
      \/ \E s \in Streams : StreamSendFails(s)
      \/ Crash
  <2>1. ASSUME NEW c \in Calls, SendToChannel(c) PROVE lost' = lost
    BY <2>1 DEF SendToChannel, storeVars
  <2>2. ASSUME NEW s \in Streams, TakeMessage(s) \/ StreamSend(s) \/ ClientRecv(s)
        PROVE  lost' = lost
    BY <2>2 DEF TakeMessage, StreamSend, ClientRecv, storeVars
  <2> QED
    BY <2>1, <2>2, StillSteps DEF CopyInv, Still
<1>8. ASSUME NEW k \in lost' PROVE \E u \in Users : PlacedFor(k, u)' /\ Excused(k, u)'
  BY <1>3, <1>4, <1>5, <1>6, <1>7, <1>8
<1> QED
  BY <1>8, AbsentStep DEF LossHasACause

-----------------------------------------------------------------------------
(* The theorems about single copies.                                       *)

LEMMA InitCopyInv == Init => CopyInv
<1> SUFFICES ASSUME Init PROVE CopyInv
  OBVIOUS
<1>1. IInv
  BY InitIInv
<1>2. AtWork
  BY DEF Init, AtWork
<1>3. \A s \in Streams : CopiesOf(s) = {}
  BY EmptyRange DEF Init, CopiesOf
<1>4. InLists = {} /\ lost = {}
  BY EmptyRange DEF Init, InLists
<1>5. EachInTurn
  <2>1. \A R : Sorted(<<>>, R) /\ SortedInParts(<<>>, <<>>, <<>>, <<>>, R)
    BY EmptyRange DEF Sorted, SortedInParts, Before
  <2>2. \A s \in Streams : /\ received[s] = <<>> /\ wire[s] = <<>>
                           /\ hand[s] = <<>> /\ channel[s] = <<>>
    BY DEF Init
  <2>3. \A u \in Users : redis[OfflineKey(u)] = <<>>
    BY KeyFacts DEF Init
  <2> QED
    BY <1>1, <2>1, <2>2, <2>3, InTurnIsSorted DEF EachInTurn, IInv
<1>6. OnePlace
  <2>1. \A c \in Calls : \A i \in 1 .. Len(receivers[c]) : FALSE
    BY DEF Init
  <2> QED
    BY <1>3, <1>4, <2>1 DEF OnePlace
<1>7. LossHasACause
  BY DEF Init, LossHasACause
<1> QED
  BY <1>1, <1>2, <1>5, <1>6, <1>7 DEF CopyInv

LEMMA NextCopyInv == CopyInv /\ [Next]_vars => CopyInv'
<1> SUFFICES ASSUME CopyInv, [Next]_vars PROVE CopyInv'
  OBVIOUS
<1>1. IInv /\ IInv'
  BY NextIInv DEF CopyInv
<1>2. AtWork' /\ EachInTurn' /\ OnePlace' /\ LossHasACause'
  BY <1>1, AtWorkStep, EachInTurnStep, OnePlaceStep, LossStep DEF CopyInv, IInv
<1> QED
  BY <1>1, <1>2 DEF CopyInv

\* Every copy can be followed: the invariant that the theorems of this module
\* rest on holds in every reachable state.
THEOREM CopiesFollowed == Spec => []CopyInv
BY InitCopyInv, NextCopyInv, PTL DEF Spec

\* An acknowledged message is stored for everybody, and everybody's copy is queued,
\* on its way or received, unless Redis did not take it or a client has gone.
THEOREM ServedWhenAcked == Spec => []AckedMeansServed
<1>1. CopyInv => AckedMeansServed
  <2> SUFFICES ASSUME CopyInv, NEW c \in Calls, callPc[c] = "ok"
               PROVE  /\ Rows(c) \subseteq messages
                      /\ \A i \in 1 .. Len(receivers[c]) :
                           \/ <<c, i>> \in OnStreams \cup InLists \cup AtClients
                           \/ Excused(<<c, i>>, receivers[c][i])
    BY DEF AckedMeansServed
  <2>1. TypeOK /\ OnePlace /\ LossHasACause /\ AckedMeansStored
    BY DEF CopyInv, IInv
  <2>2. Rows(c) \subseteq messages /\ idx[c] = Len(receivers[c]) + 1
    BY <2>1 DEF AckedMeansStored
  <2>3. ASSUME NEW i \in 1 .. Len(receivers[c])
        PROVE  \/ <<c, i>> \in OnStreams \cup InLists \cup AtClients
               \/ Excused(<<c, i>>, receivers[c][i])
    <3>1. PICK k : k = <<c, i>>
      OBVIOUS
    <3>2. Len(receivers[c]) \in Nat
      BY <2>1 DEF TypeOK
    <3>3. k \in Held
      BY <2>1, <2>2, <3>1, <3>2 DEF OnePlace
    <3>4. CASE k \in lost
      <4>1. PICK u \in Users : PlacedFor(k, u) /\ Excused(k, u)
        BY <2>1, <3>4 DEF LossHasACause
      <4>2. u = receivers[c][i]
        BY <3>1, <4>1 DEF PlacedFor, ReceiverOf
      <4> QED
        BY <3>1, <4>1, <4>2
    <3>5. CASE k \notin lost
      <4>1. k \in OnStreams \cup InLists \cup AtClients
        BY <3>3, <3>5 DEF Held, CopiesOf, OnStreams, AtClients
      <4> QED
        BY <3>1, <4>1
    <3> QED
      BY <3>4, <3>5
  <2> QED
    BY <2>2, <2>3
<1> QED
  BY <1>1, CopiesFollowed, PTL

\* On a stream, from its channel to its client, and in an offline list, no message
\* comes after one whose call began when it had already returned.
THEOREM DeliveredInOrder == Spec => []RealTimeOrder
<1>1. CopyInv => RealTimeOrder
  BY DEF CopyInv, EachInTurn, InTurn, MayFollow, RealTimeOrder, InOrder
<1> QED
  BY <1>1, CopiesFollowed, PTL

\* A sequence in turn has a copy at one place at most.
LEMMA OnePosition ==
  ASSUME NEW q \in Seq(Copies), InTurn(q), NEW m \in 1 .. Len(q), NEW n \in 1 .. Len(q),
         q[m] = q[n]
  PROVE  m = n
<1>1. ~(m < n) /\ ~(n < m)
  BY DEF InTurn, MayFollow
<1> QED
  BY <1>1

LEMMA PipelineElements ==
  ASSUME CopyInv, NEW s \in Streams
  PROVE  Pipeline(s) \in Seq(Copies) /\ SeqRange(Pipeline(s)) = CopiesOf(s)
<1>1. /\ received[s] \in Seq(Copies) /\ wire[s] \in Seq(Copies)
      /\ hand[s] \in Seq(Copies) /\ channel[s] \in Seq(Copies)
  BY PartsApart
<1> DEFINE p == received[s] \o wire[s]
           q == p \o hand[s]
<1>2. p \in Seq(Copies) /\ SeqRange(p) = SeqRange(received[s]) \cup SeqRange(wire[s])
  BY <1>1, ConcatElements
<1> HIDE DEF p
<1>3. q \in Seq(Copies) /\ SeqRange(q) = SeqRange(p) \cup SeqRange(hand[s])
  BY <1>1, <1>2, ConcatElements
<1> HIDE DEF q
<1>4. q \o channel[s] \in Seq(Copies)
      /\ SeqRange(q \o channel[s]) = SeqRange(q) \cup SeqRange(channel[s])
  BY <1>1, <1>3, ConcatElements
<1>5. Pipeline(s) = q \o channel[s]
  BY DEF Pipeline, p, q
<1> QED
  BY <1>2, <1>3, <1>4, <1>5 DEF CopiesOf

\* A copy that the loop has passed is in exactly one place, any other in none.
THEOREM EachCopyOnce == Spec => []CopyAccounting
<1>1. CopyInv => CopyAccounting
  <2> SUFFICES ASSUME CopyInv, NEW c \in Calls, NEW i \in 1 .. Len(receivers[c])
               PROVE  Cardinality(InStreams(<<c, i>>)) + Cardinality(InRedis(<<c, i>>))
                        + (IF <<c, i>> \in lost THEN 1 ELSE 0)
                      = (IF i < idx[c] THEN 1 ELSE 0)
    BY DEF CopyAccounting
  <2>1. PICK k : k = <<c, i>>
    OBVIOUS
  <2>2. TypeOK /\ OnePlace /\ EachInTurn /\ k[1] = c /\ k[2] = i
    BY <2>1 DEF CopyInv, IInv
  <2>3. ASSUME NEW s \in Streams, k \in CopiesOf(s) PROVE Cardinality(InStreams(k)) = 1
    <3>1. PICK n \in 1 .. Len(Pipeline(s)) : Pipeline(s)[n] = k
      BY <2>3, PipelineElements DEF SeqRange
    <3>2. ASSUME NEW t \in Streams, NEW m \in 1 .. Len(Pipeline(t)), Pipeline(t)[m] = k
          PROVE  t = s /\ m = n
      <4>1. k \in CopiesOf(t)
        BY <3>2, PipelineElements DEF SeqRange
      <4>2. t = s
        BY <2>2, <2>3, <4>1 DEF OnePlace
      <4>3. Pipeline(s) \in Seq(Copies) /\ InTurn(Pipeline(s))
        BY <2>2, PipelineElements DEF EachInTurn
      <4> QED
        BY <3>1, <3>2, <4>2, <4>3, OnePosition
    <3>3. InStreams(k) = {<<s, n>>}
      BY <3>1, <3>2 DEF InStreams
    <3> QED
      BY <3>3, FS_Singleton
  <2>4. ASSUME \A s \in Streams : k \notin CopiesOf(s) PROVE Cardinality(InStreams(k)) = 0
    <3>1. InStreams(k) = {}
      BY <2>4, PipelineElements DEF InStreams, SeqRange
    <3> QED
      BY <3>1, FS_EmptySet
  <2>5. ASSUME k \in InLists PROVE Cardinality(InRedis(k)) = 1
    <3>1. PICK u \in Users : k \in SeqRange(redis[OfflineKey(u)])
      BY <2>5, HeldPassed
    <3>2. PICK key \in Keys : key = OfflineKey(u)
      BY KeyFacts
    <3>3. PICK n \in 1 .. Len(redis[key]) : redis[key][n] = k
      BY <3>1, <3>2 DEF SeqRange
    <3>4. ASSUME NEW l \in Keys, NEW m \in 1 .. Len(redis[l]), redis[l][m] = k
          PROVE  l = key /\ m = n
      <4>1. PICK v \in Users : l = OfflineKey(v) \/ l = DrainKey(v)
        BY DEF Keys, OfflineKey, DrainKey
      <4>2. l = OfflineKey(v)
        BY <3>4, <4>1 DEF CopyInv, IInv, DrainFindsNothing
      <4>3. PlacedFor(k, u) /\ PlacedFor(k, v)
        BY <3>1, <3>4, <4>2 DEF CopyInv, IInv, CopiesPlaced, SeqRange
      <4>4. l = key
        BY <3>2, <4>2, <4>3 DEF PlacedFor
      <4>5. redis[key] \in Seq(Copies) /\ InTurn(redis[key])
        BY <2>2, <3>2 DEF EachInTurn, TypeOK
      <4> QED
        BY <3>3, <3>4, <4>4, <4>5, OnePosition
    <3>5. InRedis(k) = {<<key, n>>}
      BY <3>3, <3>4 DEF InRedis
    <3> QED
      BY <3>5, FS_Singleton
  <2>6. ASSUME k \notin InLists PROVE Cardinality(InRedis(k)) = 0
    <3>1. InRedis(k) = {}
      BY <2>6 DEF InRedis, InLists, SeqRange
    <3> QED
      BY <3>1, FS_EmptySet
  <2>7. ASSUME i < idx[c] PROVE k \in Held
    BY <2>1, <2>2, <2>7 DEF OnePlace
  <2>8. k \in Held => i < idx[c]
    BY <2>2, HeldPassed DEF Held
  <2>9. \/ k \notin Held
        \/ (\E s \in Streams : k \in CopiesOf(s)) /\ k \notin InLists /\ k \notin lost
        \/ (\A s \in Streams : k \notin CopiesOf(s)) /\ k \in InLists /\ k \notin lost
        \/ (\A s \in Streams : k \notin CopiesOf(s)) /\ k \notin InLists /\ k \in lost
    BY <2>2 DEF Held, OnePlace
  <2>10. Cardinality(InStreams(k)) + Cardinality(InRedis(k)) + (IF k \in lost THEN 1 ELSE 0)
         = (IF i < idx[c] THEN 1 ELSE 0)
    BY <2>3, <2>4, <2>5, <2>6, <2>7, <2>8, <2>9 DEF Held
  <2> QED
    BY <2>1, <2>10
<1> QED
  BY <1>1, CopiesFollowed, PTL

-----------------------------------------------------------------------------
(* The service implements Delivery.                                        *)

LEMMA PromiseInit == Init => Promise!Init
<1> SUFFICES ASSUME Init PROVE Promise!Init
  OBVIOUS
<1>1. OnStreams = {} /\ InLists = {} /\ AtClients = {}
  BY EmptyRange DEF Init, OnStreams, InLists, AtClients
<1>2. \A c \in Calls : AnswerOf(c) = "none"
  BY DEF Init, AnswerOf, Returned
<1> QED
  BY <1>1, <1>2 DEF Init, Promise!Init

\* What Delivery's operators mean of the state of the service.
LEMMA PromiseTerms ==
  /\ Promise!Handed = Held
  /\ \A c \in Calls : /\ Promise!Pending(c) <=> ~Returned(c)
                      /\ Promise!CopiesOf(c) = {<<c, i>> : i \in 1 .. Len(receivers[c])}
<1>1. OnStreams \cup AtClients = UNION {CopiesOf(s) : s \in Streams}
  BY DEF OnStreams, AtClients, CopiesOf
<1>2. Promise!Handed = Held
  BY <1>1 DEF Promise!Handed, Held
<1> QED
  BY <1>2 DEF Promise!Pending, Promise!CopiesOf, AnswerOf, Returned

\* A step that neither moves a copy nor answers a call nor inserts rows is none
\* of Delivery's.
SameOutside == UNCHANGED <<receivers, callPc, OnStreams, InLists, AtClients, lost, messages>>

LEMMA PromiseStutter == SameOutside => UNCHANGED Promise!vars
BY DEF SameOutside, Promise!vars, AnswerOf, Returned

LEMMA SendMessageImplements ==
  ASSUME CopyInv, NEW c \in Calls, SendMessage(c)
  PROVE  Promise!Accept(c)
<1>1. TypeOK /\ CallShape
  BY DEF CopyInv, IInv
<1>2. callPc[c] = "idle" /\ receivers[c] = <<>>
  BY <1>1 DEF SendMessage, CallShape
<1>3. Promise!Pending(c)
  BY <1>2, PromiseTerms DEF Returned
<1>4. \E rs \in ReceiverLists \ {<<>>} : receivers' = [receivers EXCEPT ![c] = rs]
  BY DEF SendMessage
<1>5. UNCHANGED <<OnStreams, InLists, AtClients, lost, messages>>
  BY DEF SendMessage, streamVars, storeVars, peerVars, OnStreams, InLists, AtClients
<1>6. \A d \in Calls : AnswerOf(d)' = AnswerOf(d)
  BY <1>1, <1>2 DEF SendMessage, AnswerOf, Returned, TypeOK
<1> QED
  BY <1>2, <1>3, <1>4, <1>5, <1>6 DEF Promise!Accept

LEMMA RejectSendImplements ==
  ASSUME CopyInv, NEW c \in Calls, RejectSend(c)
  PROVE  Promise!Refuse(c)
<1>1. TypeOK /\ CallShape
  BY DEF CopyInv, IInv
<1>2. callPc[c] = "idle" /\ receivers[c] = <<>>
  BY <1>1 DEF RejectSend, CallShape
<1>3. Promise!Pending(c)
  BY <1>2, PromiseTerms DEF Returned
<1>4. UNCHANGED <<receivers, OnStreams, InLists, AtClients, lost, messages>>
  BY DEF RejectSend, streamVars, storeVars, peerVars, OnStreams, InLists, AtClients
<1>5. [d \in Calls |-> AnswerOf(d)]' = [[d \in Calls |-> AnswerOf(d)] EXCEPT ![c] = "failed"]
  BY <1>1 DEF RejectSend, AnswerOf, Returned, TypeOK
<1> QED
  BY <1>2, <1>3, <1>4, <1>5 DEF Promise!Refuse

\* The copy of a call in its loop is the one whose turn it is.
LEMMA CopyInLoop ==
  ASSUME CopyInv, NEW c \in Calls, InLoop(c)
  PROVE  /\ Promise!Pending(c)
         /\ Copy(c) \in Promise!CopiesOf(c) \ Promise!Handed
         /\ \A l \in Promise!CopiesOf(c) : l[2] < Copy(c)[2] => l \in Promise!Handed
<1>1. TypeOK /\ CallShape /\ OnePlace
  BY DEF CopyInv, IInv
<1>2. Promise!Pending(c)
  BY PromiseTerms DEF InLoop, Returned
<1>3. idx[c] \in Nat \ {0} /\ idx[c] <= Len(receivers[c]) /\ Len(receivers[c]) \in Nat
  BY <1>1 DEF TypeOK, CallShape
<1>4. Copy(c) \in Promise!CopiesOf(c)
  BY <1>3, PromiseTerms DEF Copy
<1>5. Copy(c) \notin Promise!Handed
  BY NewCopyFresh, PromiseTerms DEF Held
<1>6. ASSUME NEW l \in Promise!CopiesOf(c), l[2] < Copy(c)[2] PROVE l \in Promise!Handed
  <2>1. PICK i \in 1 .. Len(receivers[c]) : l = <<c, i>>
    BY <1>6, PromiseTerms
  <2>2. i < idx[c]
    BY <1>6, <2>1 DEF Copy
  <2>3. <<c, i>> \in Held
    BY <1>1, <2>2 DEF OnePlace
  <2> QED
    BY <2>1, <2>3, PromiseTerms
<1> QED
  BY <1>2, <1>4, <1>5, <1>6

LEMMA SendToChannelImplements ==
  ASSUME CopyInv, NEW c \in Calls, SendToChannel(c)
  PROVE  Promise!HandOver(c)
<1>1. InLoop(c) /\ TypeOK
  BY DEF SendToChannel, InLoop, CopyInv, IInv
<1>2. OnStreams' = OnStreams \cup {Copy(c)} /\ UNCHANGED <<InLists, AtClients, lost>>
  BY SendMoves DEF InLists, AtClients
<1>3. UNCHANGED <<receivers, messages>>
  BY DEF SendToChannel, storeVars
<1>4. \A d \in Calls : AnswerOf(d)' = AnswerOf(d)
  BY <1>1 DEF SendToChannel, NextReceiver, AnswerOf, Returned, TypeOK
<1> QED
  BY <1>1, <1>2, <1>3, <1>4, CopyInLoop DEF Promise!HandOver

LEMMA PushOfflineImplements ==
  ASSUME CopyInv, NEW c \in Calls, PushOffline(c)
  PROVE  Promise!HandOver(c)
<1>1. InLoop(c) /\ TypeOK
  BY DEF PushOffline, InLoop, CopyInv, IInv
<1>2. /\ UNCHANGED <<OnStreams, AtClients>>
      /\ \/ InLists' = InLists \cup {Copy(c)} /\ UNCHANGED lost
         \/ lost' = lost \cup {Copy(c)} /\ UNCHANGED InLists
  BY PushMoves DEF OnStreams, AtClients
<1>3. UNCHANGED <<receivers, messages>>
  BY DEF PushOffline
<1>4. \A d \in Calls : AnswerOf(d)' = AnswerOf(d)
  BY <1>1 DEF PushOffline, NextReceiver, AnswerOf, Returned, TypeOK
<1> QED
  BY <1>1, <1>2, <1>3, <1>4, CopyInLoop DEF Promise!HandOver

LEMMA CreateMessagesImplements ==
  ASSUME CopyInv, NEW c \in Calls, CreateMessages(c)
  PROVE  Promise!Finish(c)
<1>1. /\ TypeOK /\ CallShape /\ AtWork /\ OnePlace
      /\ callPc[c] = "create"
  BY DEF CopyInv, IInv, CreateMessages
<1>2. Promise!Pending(c) /\ receivers[c] # <<>>
  BY <1>1, PromiseTerms DEF Returned, AtWork
<1>3. Promise!CopiesOf(c) \subseteq Promise!Handed
  <2>1. idx[c] = Len(receivers[c]) + 1 /\ Len(receivers[c]) \in Nat
    BY <1>1 DEF CallShape, TypeOK
  <2>2. \A i \in 1 .. Len(receivers[c]) : <<c, i>> \in Held
    BY <1>1, <2>1 DEF OnePlace
  <2> QED
    BY <2>2, PromiseTerms
<1>4. Promise!CopiesOf(c) = Rows(c)
  BY PromiseTerms DEF Rows
<1>5. UNCHANGED <<receivers, OnStreams, InLists, AtClients, lost>>
  BY DEF CreateMessages, streamVars, peerVars, OnStreams, InLists, AtClients
<1>6. /\ messages' \in {messages, messages \cup Rows(c)}
      /\ \/ /\ [d \in Calls |-> AnswerOf(d)]'
               = [[d \in Calls |-> AnswerOf(d)] EXCEPT ![c] = "ok"]
            /\ Rows(c) \subseteq messages'
         \/ [d \in Calls |-> AnswerOf(d)]'
            = [[d \in Calls |-> AnswerOf(d)] EXCEPT ![c] = "failed"]
  BY <1>1 DEF CreateMessages, AnswerOf, Returned, TypeOK
<1> QED
  BY <1>1, <1>2, <1>3, <1>4, <1>5, <1>6 DEF Promise!Finish

LEMMA SendFailsImplements ==
  ASSUME CopyInv, NEW s \in Streams, StreamSendFails(s)
  PROVE  \E k \in OnStreams : Promise!Drop(k)
<1>1. PICK k \in OnStreams : OnStreams' = OnStreams \ {k} /\ lost' = lost \cup {k}
  BY SendFailsMoves
<1>2. UNCHANGED <<InLists, AtClients>>
  BY SendFailsMoves DEF InLists, AtClients
<1>3. UNCHANGED <<receivers, callPc, messages>>
  BY DEF StreamSendFails, callVars
<1> QED
  BY <1>1, <1>2, <1>3 DEF Promise!Drop, AnswerOf, Returned

LEMMA RecvImplements ==
  ASSUME CopyInv, NEW s \in Streams, ClientRecv(s)
  PROVE  \E k \in OnStreams : Promise!Arrive(k)
<1>1. PICK k \in OnStreams : OnStreams' = OnStreams \ {k} /\ AtClients' = AtClients \cup {k}
  BY RecvMoves
<1>2. UNCHANGED <<InLists, lost>>
  BY RecvMoves DEF InLists
<1>3. UNCHANGED <<receivers, callPc, messages>>
  BY DEF ClientRecv, callVars, storeVars
<1> QED
  BY <1>1, <1>2, <1>3 DEF Promise!Arrive, AnswerOf, Returned

LEMMA CrashImplements ==
  ASSUME CopyInv, Crash
  PROVE  Promise!Restart
<1>1. TypeOK /\ CallShape /\ AtWork
  BY DEF CopyInv, IInv
<1>2. /\ InMemory \in SUBSET OnStreams /\ OnStreams' = OnStreams \ InMemory
      /\ lost' = lost \cup InMemory
  BY CrashMoves
<1>3. UNCHANGED <<InLists, AtClients>>
  BY CrashMoves DEF InLists, AtClients
<1>4. UNCHANGED <<receivers, messages>>
  BY DEF Crash
<1>5. ASSUME NEW c \in Calls
      PROVE  AnswerOf(c)' = IF Promise!Pending(c) /\ receivers[c] # <<>>
                            THEN "failed" ELSE AnswerOf(c)
  <2>1. callPc'[c] = IF callPc[c] \in {"idle", "ok"} THEN callPc[c] ELSE "failed"
    BY DEF Crash
  <2>2. CASE callPc[c] = "idle"
    BY <1>1, <2>1, <2>2 DEF CallShape, AnswerOf, Returned
  <2>3. CASE Returned(c)
    BY <2>1, <2>3, PromiseTerms DEF AnswerOf, Returned
  <2>4. CASE callPc[c] # "idle" /\ ~Returned(c)
    BY <1>1, <2>1, <2>4, PromiseTerms DEF AtWork, AnswerOf, Returned
  <2> QED
    BY <2>2, <2>3, <2>4
<1> QED
  BY <1>2, <1>3, <1>4, <1>5 DEF Promise!Restart

\* Every step of the service is one of Delivery, or none.
LEMMA PromiseStep ==
  ASSUME CopyInv, [Next]_vars
  PROVE  [Promise!Next]_(Promise!vars)
<1>1. ASSUME NEW c \in Calls,
             \/ SendMessage(c) \/ RejectSend(c) \/ SendToChannel(c) \/ PushOffline(c)
             \/ CreateMessages(c)
      PROVE  Promise!Next
  BY <1>1, SendMessageImplements, RejectSendImplements, SendToChannelImplements,
     PushOfflineImplements, CreateMessagesImplements DEF Promise!Next
<1>2. ASSUME NEW c \in Calls, LockForLookup(c) \/ Lookup(c)
      PROVE  UNCHANGED Promise!vars
  <2>1. UNCHANGED <<receivers, OnStreams, InLists, AtClients, lost, messages>>
    BY <1>2 DEF LockForLookup, Lookup, streamVars, storeVars, peerVars, OnStreams, InLists,
       AtClients
  <2>2. \A d \in Calls : AnswerOf(d)' = AnswerOf(d)
    BY <1>2 DEF LockForLookup, Lookup, AnswerOf, Returned, CopyInv, IInv, TypeOK
  <2> QED
    BY <2>1, <2>2 DEF Promise!vars
<1>3. ASSUME NEW s \in Streams, StreamSendFails(s) \/ ClientRecv(s) PROVE Promise!Next
  BY <1>3, SendFailsImplements, RecvImplements DEF Promise!Next
<1>4. Crash => Promise!Next
  BY CrashImplements DEF Promise!Next
<1>5. ASSUME NEW s \in Streams, TakeMessage(s) \/ StreamSend(s) PROVE SameOutside
  <2>1. OnStreams' = OnStreams
    BY <1>5, TakeMoves, StreamSendMoves
  <2>2. UNCHANGED <<received, redis, lost, messages, receivers, callPc>>
    BY <1>5 DEF TakeMessage, StreamSend, callVars, storeVars, peerVars
  <2> QED
    BY <2>1, <2>2 DEF InLists, AtClients, SameOutside
<1>6. ASSUME NEW s \in Streams,
             \/ StreamMessages(s) \/ RejectStream(s) \/ LockToRegister(s) \/ Register(s)
             \/ LockToUnregister(s) \/ Unregister(s) \/ DrainRead(s) \/ DrainReadFails(s)
             \/ ClientGone(s)
      PROVE  SameOutside
  BY <1>6 DEF StreamMessages, RejectStream, LockToRegister, Register, LockToUnregister,
     Unregister, DrainRead, DrainReadFails, ClientGone, callVars, streamVars, storeVars,
     peerVars, OnStreams, InLists, AtClients, SameOutside
<1>7. ASSUME NEW s \in Streams, DrainPush(s) PROVE SameOutside
  <2>1. DrainDelete(s) /\ Still
    BY <1>7, DrainPushStill DEF CopyInv
  <2> QED
    BY <2>1 DEF DrainDelete, Still, callVars, OnStreams, InLists, AtClients, SameOutside
<1>8. (UNCHANGED vars) => SameOutside
  BY DEF vars, callVars, streamVars, storeVars, peerVars, OnStreams, InLists, AtClients,
     SameOutside
<1> QED
  BY <1>1, <1>2, <1>3, <1>4, <1>5, <1>6, <1>7, <1>8, PromiseStutter
     DEF Next, CallStep, StreamStep, DrainStep

\* The service, with its mutex, channels and goroutines, implements Delivery.
THEOREM PromiseKept == Spec => KeepsItsPromise
BY PromiseInit, PromiseStep, CopiesFollowed, PTL DEF Spec, KeepsItsPromise, Promise!Spec

=============================================================================
