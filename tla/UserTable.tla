----------------------------- MODULE UserTable -----------------------------
(***************************************************************************)
(* UpdateUser of the user service (user_service/grpc/server.go,            *)
(* user_service/repository/user_repository.go) with the gateway's handler  *)
(* in front of it (api-gateway/main.go), and the row it shares with the    *)
(* gateway's websocket endpoint, which writes is_online.                   *)
(*                                                                         *)
(* First and last name are one name here.  Ids are integers; those in a    *)
(* protobuf message have IdBits bits.                                      *)
(***************************************************************************)
EXTENDS ProtobufInt

CONSTANTS
  Ids,           \* ids of the rows of the users table
  PathIds,       \* the numbers that clients put into a path
  Names,
  NoName,        \* the name of a row that the auth service has inserted
  Updates,       \* executions of UpdateUser
  MaxPresence,   \* bound: how often the gateway writes is_online
  None

ASSUME UserAssumption ==
  /\ Ids \subseteq Nat \ {0}
  /\ PathIds \subseteq Int
  /\ NoName \notin Names
  /\ None \notin Ids
  /\ MaxPresence \in Nat

VARIABLES
  firstName, isOnline,                        \* columns of the users table
  updatePc, tokenId, pathId, newName, existingUser, \* locals of UpdateUser
  presence,                                   \* history: what the gateway wrote last
  presenceWrites

updateVars == <<updatePc, tokenId, pathId, newName, existingUser>>
vars == <<firstName, isOnline, updateVars, presence, presenceWrites>>

Rows == [id : Ids, firstName : Names \cup {NoName}, isOnline : BOOLEAN]
Row(u) == [id |-> u, firstName |-> firstName[u], isOnline |-> isOnline[u]]

Init ==
  /\ firstName = [u \in Ids |-> NoName]
  /\ isOnline = [u \in Ids |-> TRUE]
  /\ updatePc = [c \in Updates |-> "idle"]
  /\ tokenId = [c \in Updates |-> None]
  /\ pathId = [c \in Updates |-> None]
  /\ newName = [c \in Updates |-> None]
  /\ existingUser = [c \in Updates |-> None]
  /\ presence = isOnline
  /\ presenceWrites = 0

\* The token names a row, as all tokens of the auth service do; the names are
\* long enough.
UpdateUser(c) ==
  /\ updatePc[c] = "idle"
  /\ \E u \in Ids, p \in PathIds, n \in Names :
       /\ tokenId' = [tokenId EXCEPT ![c] = u]
       /\ pathId' = [pathId EXCEPT ![c] = p]
       /\ newName' = [newName EXCEPT ![c] = n]
  /\ updatePc' = [updatePc EXCEPT ![c] = "get"]
  /\ UNCHANGED <<firstName, isOnline, existingUser, presence, presenceWrites>>

\* No token or an invalid one, no number in the path, a name that is too short.
RejectUpdate(c) ==
  /\ updatePc[c] = "idle"
  /\ updatePc' = [updatePc EXCEPT ![c] = "failed"]
  /\ UNCHANGED <<firstName, isOnline, tokenId, pathId, newName, existingUser, presence,
                 presenceWrites>>

IdMatchesAnything(c, user) == TRUE   \* mutant: the path is not checked
\* req.Id and the id of the token's user, both as int32.
IdMatches(c, user) == ToInt32(pathId[c]) = ToInt32(user.id)

\* The row of the token's user, and the check that the path names the same user.
GetUserInfo(c) ==
  /\ updatePc[c] = "get"
  /\ \/ /\ existingUser' = [existingUser EXCEPT ![c] = Row(tokenId[c])]
        /\ updatePc' = [updatePc EXCEPT ![c] =
                          IF IdMatches(c, Row(tokenId[c])) THEN "update" ELSE "failed"]
     \/ /\ updatePc' = [updatePc EXCEPT ![c] = "failed"]
        /\ UNCHANGED existingUser
  /\ UNCHANGED <<firstName, isOnline, tokenId, pathId, newName, presence, presenceWrites>>

UpdatedId(c) == existingUser[c].id

UpdateRowByPath(c) ==      \* mutant: trusts the id of the request
  /\ firstName' = [u \in Ids |-> IF u = pathId[c] THEN newName[c] ELSE firstName[u]]
  /\ UNCHANGED isOnline
UpdateRowSaving(c) ==      \* mutant: Save of the row that was read
  /\ firstName' = [firstName EXCEPT ![UpdatedId(c)] = newName[c]]
  /\ isOnline' = [isOnline EXCEPT ![UpdatedId(c)] = existingUser[c].isOnline]
\* Updates of a struct writes the fields that are not zero.
UpdateRow(c) ==
  /\ firstName' = [firstName EXCEPT ![UpdatedId(c)] = newName[c]]
  /\ UNCHANGED isOnline

Updated(c) ==
  /\ updatePc[c] = "update"
  /\ \/ /\ UpdateRow(c)
        /\ updatePc' = [updatePc EXCEPT ![c] = "ok"]
     \/ /\ UpdateRow(c) \/ UNCHANGED <<firstName, isOnline>>
        /\ updatePc' = [updatePc EXCEPT ![c] = "failed"]
  /\ UNCHANGED <<tokenId, pathId, newName, existingUser, presence, presenceWrites>>

\* updateUserIsOnlineStatus of the gateway.
SetPresence(u, online) ==
  /\ presenceWrites < MaxPresence
  /\ presenceWrites' = presenceWrites + 1
  /\ isOnline' = [isOnline EXCEPT ![u] = online]
  /\ presence' = [presence EXCEPT ![u] = online]
  /\ UNCHANGED <<firstName, updateVars>>

Next ==
  \/ \E c \in Updates : UpdateUser(c) \/ RejectUpdate(c) \/ GetUserInfo(c) \/ Updated(c)
  \/ \E u \in Ids, online \in BOOLEAN : SetPresence(u, online)

Spec == Init /\ [][Next]_vars

-----------------------------------------------------------------------------
(* Properties                                                              *)

\* Every variable has its type.
TypeOK ==
  /\ firstName \in [Ids -> Names \cup {NoName}]
  /\ isOnline \in [Ids -> BOOLEAN]
  /\ updatePc \in [Updates -> {"idle", "get", "update", "ok", "failed"}]
  /\ tokenId \in [Updates -> Ids \cup {None}]
  /\ pathId \in [Updates -> PathIds \cup {None}]
  /\ newName \in [Updates -> Names \cup {None}]
  /\ existingUser \in [Updates -> Rows \cup {None}]
  /\ \A c \in Updates : updatePc[c] \in {"update", "ok"} => existingUser[c] \in Rows
  /\ presence \in [Ids -> BOOLEAN]
  /\ presenceWrites \in 0 .. MaxPresence

\* An update of a name that was read before a change of is_online and is written
\* after it leaves is_online as the gateway wrote it.
PresenceIsTheGateways == isOnline = presence

\* A row's name was asked for by its own user, whatever id was in the path, and
\* the path named the user as far as IdBits bits can tell.
NamesBelongToOwner ==
  \A u \in Ids :
    \/ firstName[u] = NoName
    \/ \E c \in Updates : /\ tokenId[c] = u
                          /\ newName[c] = firstName[u]
                          /\ ToInt32(pathId[c]) = ToInt32(u)

-----------------------------------------------------------------------------
(* The inductive invariant of the proofs (UserTable_proofs).               *)

\* An update that is under way has a user and a name to give.
HasRequest ==
  \A c \in Updates :
    updatePc[c] \in {"get", "update", "ok"} => tokenId[c] \in Ids /\ newName[c] \in Names

\* An update that writes has read its own user's row, and got past the check of
\* the path's id.
ReadOwnRow ==
  \A c \in Updates :
    updatePc[c] \in {"update", "ok"} =>
      existingUser[c].id = tokenId[c] /\ ToInt32(pathId[c]) = ToInt32(tokenId[c])

\* No name comes from an update that has not begun.
IdleHasNoRequest ==
  \A c \in Updates : updatePc[c] = "idle" => tokenId[c] = None

\* What an update relies on between the row it reads and the row it writes.
IInv ==
  TypeOK /\ HasRequest /\ ReadOwnRow /\ IdleHasNoRequest /\ NamesBelongToOwner
  /\ PresenceIsTheGateways

=============================================================================
