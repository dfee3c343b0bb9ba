-------------------------- MODULE UserTable_proofs --------------------------
(***************************************************************************)
(* Theorems about UserTable for any table, any number of updates and any   *)
(* width of ids.  ToInt32 stays an arbitrary function: what matters is     *)
(* that the row is taken from the token.                                   *)
(***************************************************************************)
EXTENDS UserTable, TLAPS

\* The assumption, in the form the provers use it.
LEMMA Constants ==
  NoName \notin Names /\ None \notin Ids /\ MaxPresence \in Nat
BY UserAssumption

LEMMA InvInit == Init => IInv
BY Constants DEF Init, IInv, TypeOK, HasRequest, ReadOwnRow, IdleHasNoRequest,
                 NamesBelongToOwner, PresenceIsTheGateways

\* Only Updated writes a name, and the row it writes is the one that its
\* token's user was found under; a new request belongs to an update that had none.
LEMMA InvStep ==
  ASSUME IInv, [Next]_vars
  PROVE  IInv'
<1> USE Constants DEF IInv, TypeOK, HasRequest, ReadOwnRow, IdleHasNoRequest,
                      PresenceIsTheGateways
<1>1. ASSUME NEW c \in Updates, UpdateUser(c) PROVE IInv'
  <2>1. \A d \in Updates : tokenId[d] \in Ids =>
          d # c /\ tokenId'[d] = tokenId[d] /\ newName'[d] = newName[d] /\ pathId'[d] = pathId[d]
    BY <1>1 DEF UpdateUser
  <2>2. NamesBelongToOwner'
    BY <1>1, <2>1 DEF UpdateUser, NamesBelongToOwner
  <2> QED
    BY <1>1, <2>2 DEF UpdateUser
<1>2. ASSUME NEW c \in Updates, RejectUpdate(c) PROVE IInv'
  BY <1>2 DEF RejectUpdate, NamesBelongToOwner
<1>3. ASSUME NEW c \in Updates, GetUserInfo(c) PROVE IInv'
  <2>1. /\ Row(tokenId[c]) \in Rows
        /\ Row(tokenId[c]).id = tokenId[c]
    BY <1>3 DEF GetUserInfo, Row, Rows
  <2> QED
    BY <1>3, <2>1 DEF GetUserInfo, IdMatches, NamesBelongToOwner
<1>4. ASSUME NEW c \in Updates, Updated(c) PROVE IInv'
  <2>1. UpdatedId(c) = tokenId[c] /\ tokenId[c] \in Ids /\ newName[c] \in Names
    BY <1>4 DEF Updated, UpdatedId
  <2>2. isOnline' = isOnline
    BY <1>4 DEF Updated, UpdateRow
  <2>3. firstName' = firstName \/ firstName' = [firstName EXCEPT ![tokenId[c]] = newName[c]]
    BY <1>4, <2>1 DEF Updated, UpdateRow
  <2>4. NamesBelongToOwner'
    BY <1>4, <2>1, <2>3 DEF Updated, NamesBelongToOwner
  <2>5. TypeOK'
    BY <1>4, <2>1, <2>2, <2>3 DEF Updated
  <2> QED
    BY <1>4, <2>2, <2>4, <2>5 DEF Updated
<1>5. ASSUME NEW u \in Ids, NEW online \in BOOLEAN, SetPresence(u, online) PROVE IInv'
  BY <1>5 DEF SetPresence, updateVars, NamesBelongToOwner
<1>6. CASE UNCHANGED vars
  BY <1>6 DEF vars, updateVars, NamesBelongToOwner
<1> QED
  BY <1>1, <1>2, <1>3, <1>4, <1>5, <1>6 DEF Next

\* The inductive invariant holds in every reachable state.
THEOREM Inductive == Spec => []IInv
BY InvInit, InvStep, PTL DEF Spec

\* Every variable keeps its type.
THEOREM TypeCorrect == Spec => []TypeOK
BY Inductive, PTL DEF IInv

\* No update of a name takes back a change of is_online.
THEOREM PresenceKept == Spec => []PresenceIsTheGateways
BY Inductive, PTL DEF IInv

\* A row's name was asked for by its own user.
THEOREM NamesOwned == Spec => []NamesBelongToOwner
BY Inductive, PTL DEF IInv

=============================================================================
