--------------------------- MODULE MCChatService ---------------------------
(* Instances of ChatService for TLC.                                       *)
EXTENDS ChatService, TLC

\* What the gateway sends: one receiver per request.
OneReceiver == {<<u>> : u \in Users}
\* What the RPC accepts: lists, with repetitions.
UpToTwoReceivers == OneReceiver \cup {<<u, v>> : u, v \in Users}
\* Enough copies for one user to fill a channel that its stream abandons.
SameUserTwice == {<<u, u>> : u \in Users}

Symmetry == Permutations(Users) \cup Permutations(Calls) \cup Permutations(Streams)

=============================================================================
