------------------------------ MODULE Delivery ------------------------------
(***************************************************************************)
(* What the chat service promises of the messages that it is asked to      *)
(* send (SendMessage and StreamMessages of chat_service.go), seen from     *)
(* outside: no registry, no channels, no goroutines.  Every receiver of a  *)
(* call gets a copy of its own.  A copy is handed over once, in the order  *)
(* of the list; it is then on its way to the receiver, or in the           *)
(* receiver's offline list, or gone; and the answer comes last.            *)
(***************************************************************************)
EXTENDS Naturals, Sequences

CONSTANTS
  Calls,          \* calls of SendMessage
  ReceiverLists   \* the lists of receivers that they may carry

VARIABLES
  asked,      \* by call: the receivers, <<>> before it is accepted
  answer,     \* by call: "none", "ok" or "failed"
  inFlight,   \* copies with a stream, not yet at its client
  queued,     \* copies in an offline list, which the gateway hands out
  arrived,    \* copies that a client received
  dropped,    \* copies that were lost by a failed push or send, or a restart
  stored      \* rows of the table

vars == <<asked, answer, inFlight, queued, arrived, dropped, stored>>

Handed == inFlight \cup queued \cup arrived \cup dropped
CopiesOf(c) == {<<c, i>> : i \in 1 .. Len(asked[c])}
Pending(c) == answer[c] = "none"

Init ==
  /\ asked = [c \in Calls |-> <<>>]
  /\ answer = [c \in Calls |-> "none"]
  /\ inFlight = {} /\ queued = {} /\ arrived = {} /\ dropped = {}
  /\ stored = {}

Accept(c) ==
  /\ Pending(c) /\ asked[c] = <<>>
  /\ \E rs \in ReceiverLists \ {<<>>} : asked' = [asked EXCEPT ![c] = rs]
  /\ UNCHANGED <<answer, inFlight, queued, arrived, dropped, stored>>

Refuse(c) ==
  /\ Pending(c) /\ asked[c] = <<>>
  /\ answer' = [answer EXCEPT ![c] = "failed"]
  /\ UNCHANGED <<asked, inFlight, queued, arrived, dropped, stored>>

\* One receiver after another, and each once.
HandOver(c) ==
  /\ Pending(c)
  /\ \E k \in CopiesOf(c) \ Handed :
       /\ \A l \in CopiesOf(c) : l[2] < k[2] => l \in Handed
       /\ \/ inFlight' = inFlight \cup {k} /\ UNCHANGED <<queued, dropped>>
          \/ queued' = queued \cup {k} /\ UNCHANGED <<inFlight, dropped>>
          \/ dropped' = dropped \cup {k} /\ UNCHANGED <<inFlight, queued>>
  /\ UNCHANGED <<asked, answer, arrived, stored>>

\* All rows or none, after all copies; "ok" only with the rows.
Finish(c) ==
  /\ Pending(c) /\ asked[c] # <<>> /\ CopiesOf(c) \subseteq Handed
  /\ stored' \in {stored, stored \cup CopiesOf(c)}
  /\ answer' \in {[answer EXCEPT ![c] = a] : a \in {"ok", "failed"}}
  /\ answer'[c] = "ok" => CopiesOf(c) \subseteq stored'
  /\ UNCHANGED <<asked, inFlight, queued, arrived, dropped>>

Arrive(k) ==
  /\ k \in inFlight
  /\ inFlight' = inFlight \ {k}
  /\ arrived' = arrived \cup {k}
  /\ UNCHANGED <<asked, answer, queued, dropped, stored>>

Drop(k) ==
  /\ k \in inFlight
  /\ inFlight' = inFlight \ {k}
  /\ dropped' = dropped \cup {k}
  /\ UNCHANGED <<asked, answer, queued, arrived, stored>>

\* The process dies: some of what was on its way is gone, and the callers that
\* wait are told of a failure.
Restart ==
  /\ \E S \in SUBSET inFlight : inFlight' = inFlight \ S /\ dropped' = dropped \cup S
  /\ answer' = [c \in Calls |-> IF Pending(c) /\ asked[c] # <<>> THEN "failed" ELSE answer[c]]
  /\ UNCHANGED <<asked, queued, arrived, stored>>

Next == \/ \E c \in Calls : Accept(c) \/ Refuse(c) \/ HandOver(c) \/ Finish(c)
        \/ \E k \in inFlight : Arrive(k) \/ Drop(k)
        \/ Restart

Spec == Init /\ [][Next]_vars

=============================================================================
