----------------------------- MODULE MCGateway -----------------------------
(* The instance of Gateway for TLC.                                        *)
EXTENDS Gateway, TLC

CONSTANTS h1, h2, m1, n1, n2, k1, k2

Keys == [p \in {"auth", "gateway", "chat", "user"} |-> [form |-> "RSA", pair |-> "system"]]

\* User 1 has a name and a code that was used before, user 2 neither.
MCProfile == 1 :> [first |-> n1, last |-> n2] @@ 2 :> [first |-> Empty, last |-> Empty]
MCOtp == 1 :> k1 @@ 2 :> None

\* The one name is a part of the other.
MCContains == {<<n1, n1>>, <<n1, n2>>, <<n2, n2>>}

Number(v) == [kind |-> "number", value |-> v]
List(q) == [kind |-> "list", value |-> q]
Text == [kind |-> "text", value |-> <<>>]

\* One receiver, two with something else between them, one that no int32 holds,
\* and something that is no receiver.
Message(json) == [receiver_id |-> json, content |-> m1]
MCFrames == {Message(List(<<2, Bad, 1>>)), Message(Text)}

To(route, bodies) == {[route |-> route, body |-> b] : b \in bodies}
MCRequests ==
  h1 :> (To("send", {Bad, Message(List(<<2, Bad, 1>>)), Message(Number(9))})
         \cup To("ws", {Empty})
         \cup To("login", {[email |-> Mail(1)]})
         \cup To("verify token", {Empty})
         \cup To("update", {[id |-> 9, first |-> n2, last |-> n1]})
         \cup To("users", {[name |-> n1]})
         \cup To("list", {Empty})
         \cup To("by sender", {[id |-> 1]}))
  @@ h2 :> (To("verify otp", {[email |-> Mail(1), code |-> k1]})
            \cup To("send", {Message(Number(2))}))

=============================================================================
