------------------------- MODULE AccessGrantsProofs -------------------------
(***************************************************************************)
(* What the access resources guarantee over any number of applies, failed  *)
(* calls and changes made outside.  The invariant follows a user from the  *)
(* call that raises its access to the one that takes it, and says at each  *)
(* point of an apply who the running handler has still to deal with.       *)
(***************************************************************************)
EXTENDS AccessGrants, TLAPS

Handlers == {"idle", "read", "create", "create_grant", "update", "update_grant", "update_revoke",
             "delete", "delete_revoke"}

\* What Terraform holds at each point of an apply, and for whom a handler may
\* still have a call to make.
ControlInv ==
  /\ kind \in Kinds
  /\ pc \in Handlers
  /\ budget \in [{"changes", "faults"} -> Nat]
  /\ pc \in {"create", "create_grant"} => tfstate = None /\ wanted # None
  /\ pc \in {"update", "update_grant", "update_revoke"} => tfstate # None /\ wanted # None
  /\ pc \in {"read", "delete", "delete_revoke"} => tfstate # None
  /\ pc \in {"update_grant", "update_revoke"} => kind # "model"
  /\ todo # {} => pc \in {"create_grant", "update_grant", "update_revoke", "delete_revoke"}
  /\ pc \in {"create_grant", "update_grant"} => todo \subseteq Some(wanted)
  /\ pc \in {"update_revoke", "delete_revoke"} => todo \subseteq Some(tfstate)
  /\ pc = "update_revoke" /\ kind = "offer"
     => \A u \in todo : revokeAccessIfNeeded(tfstate[u], wanted[u]) > 0
  /\ kind = "model" /\ recorded # None => Some(tfstate) \subseteq Some(recorded)

\* The provider's own user is never among those an offer's handler may revoke: the
\* refresh before it has left that user out of the state.
OwnInv ==
  kind = "offer" => /\ access[Self] = 3 /\ Self \notin ours
                    /\ tfstate # None /\ pc \notin {"idle", "read"} => tfstate[Self] = 0

\* Who accounts for the access the resource gave: what it lost sight of, the
\* state, or the list of the handler that runs.
OursInv ==
  /\ tfstate = None => ours \subseteq excused \cup (IF pc = "create_grant" THEN Some(wanted) ELSE {})
  /\ kind = "model" /\ tfstate # None => ours \subseteq excused \cup Some(tfstate)
  /\ pc = "delete" => ours \subseteq excused \cup Some(tfstate)
  /\ pc = "delete_revoke" => ours \subseteq excused \cup todo

IInv == TypeOK /\ ControlInv /\ OwnInv /\ OursInv

-----------------------------------------------------------------------------
LEMMA InitIInv == Init => IInv
BY AccessAssumption, TerraformAssumption
   DEF Init, TerraformInit, IInv, TypeOK, ControlInv, OwnInv, OursInv, Handlers, Configs, Levels,
       Highest, Some

\* A user has a level by a configuration.
LEMMA ConfigLevels ==
  ASSUME NEW w \in Configs
  PROVE  w \in [Users -> Levels] /\ w # None
BY AccessAssumption DEF Configs, Levels, Some

LEMMA SomeAreUsers ==
  ASSUME NEW f
  PROVE  Some(f) \subseteq Users
BY DEF Some

LEMMA SpendCounts ==
  ASSUME budget \in [{"changes", "faults"} -> Nat], NEW what \in {"changes", "faults"}, Spend(what)
  PROVE  budget' \in [{"changes", "faults"} -> Nat] /\ budget' # budget
BY DEF Spend

\* Granting raises access and names only the users it is asked to.
LEMMA GrantRaises ==
  ASSUME IInv, wanted # None, NEW us, us \subseteq Some(wanted), Grant(us, wanted)
  PROVE  /\ access' \in [Users -> Levels]
         /\ \A u \in Users : access'[u] >= access[u]
         /\ ours' \subseteq Some(access') /\ ours' \subseteq ours \cup us
         /\ kind = "offer" => access'[Self] = 3 /\ Self \notin ours'
<1>1. wanted \in [Users -> Levels] /\ us \subseteq Users
  BY ConfigLevels, SomeAreUsers DEF IInv, TypeOK
<1>2. access \in [Users -> Levels] /\ ours \subseteq Some(access) /\ Self \in Users
  BY AccessAssumption DEF IInv, TypeOK
<1>3. Levels \subseteq Nat
  BY DEF Levels
<1>4. \A u \in Users : access'[u] = IF u \in us /\ access[u] < wanted[u] THEN wanted[u] ELSE access[u]
  BY DEF Grant, Raised
<1>5. access' \in [Users -> Levels]
  BY <1>1, <1>2 DEF Grant, Raised
<1>6. \A u \in Users : access'[u] >= access[u]
  <2> TAKE u \in Users
  <2>1. access[u] \in Nat /\ wanted[u] \in Nat
    BY <1>1, <1>2, <1>3
  <2> QED BY <1>4, <2>1
<1>7. ours' = ours \cup {u \in us : access[u] < wanted[u]}
  BY DEF Grant
<1>8. ours' \subseteq Some(access')
  BY <1>1, <1>2, <1>3, <1>4, <1>7 DEF Some
<1>9. ASSUME kind = "offer" PROVE access'[Self] = 3 /\ Self \notin ours'
  <2>1. access[Self] = 3 /\ Self \notin ours
    BY <1>9 DEF IInv, OwnInv
  <2>2. ~(access[Self] < wanted[Self])
    <3>1. wanted[Self] \in 0..3
      BY <1>1, <1>2, <1>9 DEF Levels
    <3> QED BY <2>1, <3>1
  <2> QED BY <1>2, <1>4, <1>7, <2>1, <2>2
<1> QED BY <1>5, <1>6, <1>7, <1>8, <1>9

\* Revoking a level takes it from the users it is asked to, and forgets them when
\* it is the lowest.
LEMMA RevokeTakes ==
  ASSUME IInv, NEW us, us \subseteq Users, NEW level \in Levels \ {0}, Revoke(us, level)
  PROVE  /\ access' \in [Users -> Levels]
         /\ \A u \in Users : access'[u] = IF u \in us /\ access[u] >= level THEN level - 1 ELSE access[u]
         /\ ours' = IF level = 1 THEN ours \ us ELSE ours
         /\ ours' \subseteq Some(access')
<1>1. access \in [Users -> Levels] /\ ours \subseteq Some(access)
  BY DEF IInv, TypeOK
<1>2. \A l \in Levels \ {0} : l \in Nat /\ l - 1 \in Levels
  BY DEF Levels
<1>3. \A u \in Users : access'[u] = IF u \in us /\ access[u] >= level THEN level - 1 ELSE access[u]
  BY DEF Revoke
<1>4. access' \in [Users -> Levels]
  BY <1>1, <1>2 DEF Revoke
<1>5. ours' = IF level = 1 THEN ours \ us ELSE ours
  BY DEF Revoke
<1>6. ours' \subseteq Some(access')
  <2>1. Levels \subseteq Nat
    BY DEF Levels
  <2> SUFFICES ASSUME NEW u \in ours' PROVE u \in Users /\ access'[u] > 0
    BY DEF Some
  <2>2. u \in ours /\ u \in Users /\ access[u] > 0 /\ (level = 1 => u \notin us)
    BY <1>1, <1>5 DEF Some
  <2> QED BY <1>1, <1>2, <1>3, <2>1, <2>2
<1> QED BY <1>3, <1>4, <1>5, <1>6

\* What Read makes of the controller is a state, with the users of a model's ID
\* only, and without the provider's own user for an offer.
LEMMA ReadGivesState ==
  ASSUME IInv, NEW id, kind = "model" => id \in Configs
  PROVE  /\ ReadAccess(id) \in [Users -> Levels] /\ ReadAccess(id) # None
         /\ kind = "model" => Some(ReadAccess(id)) \subseteq Some(id)
         /\ kind # "model" => \A u \in Some(access) : u \in Some(ReadAccess(id)) \/ (kind = "offer" /\ u = Self)
         /\ kind = "offer" => ReadAccess(id)[Self] = 0
<1>1. kind \in {"model", "offer", "secret", "jaas"} /\ access \in [Users -> Levels]
  BY AccessAssumption DEF IInv, TypeOK, ControlInv
<1>2. [Users -> Levels] \subseteq [Users -> 0..3] /\ 0 \in Levels
  BY DEF Levels
<1>3. CASE kind = "model"
  <2>1. id \in [Users -> Levels]
    BY <1>3, ConfigLevels
  <2>2. ReadAccess(id) = ReadModelAccess(id)
    BY <1>3 DEF ReadAccess
  <2>3. ReadModelAccess(id) \in [Users -> Levels]
    BY <1>2, <2>1 DEF ReadModelAccess
  <2>4. Some(ReadModelAccess(id)) \subseteq Some(id)
    BY <2>1 DEF ReadModelAccess, Some
  <2> QED BY <1>2, <1>3, <2>2, <2>3, <2>4, AccessAssumption
<1>4. CASE kind = "offer"
  <2>1. ReadAccess(id) = [access EXCEPT ![Self] = 0]
    BY <1>4 DEF ReadAccess, ReadOffer
  <2> QED BY <1>1, <1>2, <1>4, <2>1, AccessAssumption DEF Some
<1>5. CASE kind \in {"secret", "jaas"}
  <2>1. ReadAccess(id) = access
    BY <1>5 DEF ReadAccess, ReadSecretAccess, ReadRelations
  <2> QED BY <1>1, <1>2, <1>5, <2>1, AccessAssumption
<1> QED BY <1>1, <1>3, <1>4, <1>5

-----------------------------------------------------------------------------
(* Every step keeps the invariant.                                         *)

LEMMA RefreshIInv ==
  ASSUME IInv, Start \/ Read \/ ReadFails \/ Import \/ EditConfig
  PROVE  IInv'
<1> USE DEF IInv
<1>1. CASE Start
  BY <1>1 DEF Start, BeginApply, TypeOK, ControlInv, OwnInv, OursInv, Some, Configs, Levels,
              revokeAccessIfNeeded, LevelToRevoke, Handlers
<1>2. CASE Read
  <2> DEFINE state == ReadAccess(recorded)
  <2>1. pc = "read" /\ tfstate # None /\ todo = {}
    BY <1>2 DEF Read, Refreshed, ControlInv
  <2>2. kind = "model" => recorded \in Configs
    BY <2>1 DEF TypeOK
  <2>3. /\ state \in [Users -> Levels] /\ state # None
        /\ kind = "model" => Some(state) \subseteq Some(recorded)
        /\ kind # "model" => \A u \in Some(access) : u \in Some(state) \/ (kind = "offer" /\ u = Self)
        /\ kind = "offer" => state[Self] = 0
    BY <2>2, ReadGivesState
  <2> HIDE DEF state
  <2>4. /\ tfstate' = state
        /\ pc' \in {"idle", "update", "delete"} /\ (pc' = "update" => wanted # None)
        /\ UNCHANGED <<wanted, budget, kind, access, recorded, todo, ours>>
        /\ excused' = IF kind = "model" THEN excused \cup (Some(tfstate) \ Some(state)) ELSE excused
    BY <1>2, <2>3 DEF Read, Refreshed, Planned, state
  <2>5. TypeOK'
    BY <2>1, <2>3, <2>4 DEF TypeOK, Configs, Levels, Some
  <2>6. ControlInv'
    BY <2>1, <2>3, <2>4 DEF ControlInv, Some, Handlers
  <2>7. OwnInv'
    BY <2>3, <2>4 DEF OwnInv
  <2>8. OursInv'
    BY <2>1, <2>3, <2>4 DEF OursInv, OwnInv, TypeOK, Some
  <2> QED BY <2>5, <2>6, <2>7, <2>8
<1>3. CASE ReadFails
  BY <1>3 DEF ReadFails, Spend, Errored, TypeOK, ControlInv, OwnInv, OursInv, Some, Configs, Levels, Handlers
<1>4. CASE Import
  <2> PICK id \in Configs :
        /\ recorded' = IF kind = "model" THEN id ELSE None
        /\ tfstate' = ReadAccess(id)
        /\ excused' = IF kind = "model" THEN ours \ Some(ReadAccess(id)) ELSE excused
    BY <1>4 DEF Import
  <2>1. /\ pc = "idle" /\ tfstate = None /\ todo = {}
        /\ UNCHANGED <<wanted, tainted, pc, kind, access, todo, ours>>
        /\ budget' \in [{"changes", "faults"} -> Nat]
    BY <1>4 DEF Import, Spend, TypeOK, ControlInv
  <2>2. /\ tfstate' \in [Users -> Levels] /\ tfstate' # None
        /\ kind = "model" => Some(tfstate') \subseteq Some(id)
        /\ kind = "offer" => tfstate'[Self] = 0
    BY ReadGivesState
  <2>3. TypeOK'
    BY <2>1, <2>2, ConfigLevels DEF TypeOK, Configs, Levels, Some
  <2>4. ControlInv'
    BY <2>1, <2>2 DEF ControlInv
  <2>5. OwnInv' /\ OursInv'
    BY <2>1, <2>2 DEF OwnInv, OursInv
  <2> QED BY <2>3, <2>4, <2>5
<1>5. CASE EditConfig
  BY <1>5 DEF EditConfig, Edit, Spend, TypeOK, ControlInv, OwnInv, OursInv, Some, Configs, Levels, Handlers
<1> QED BY <1>1, <1>2, <1>3, <1>4, <1>5
\* The handlers that only draw up the list of who is to be granted or revoked.
LEMMA BeginIInv ==
  ASSUME IInv, Create \/ UpdateOfferAccess \/ UpdateRelations \/ UpdateSecretAccess \/ Granted \/ Delete
  PROVE  IInv'
<1> USE DEF IInv, Begin, TypeOK, ControlInv, OwnInv, OursInv, Some, Configs, Levels, Handlers
<1>1. CASE Create
  BY <1>1 DEF Create
<1>2. CASE UpdateOfferAccess
  BY <1>2 DEF UpdateOfferAccess
<1>3. CASE UpdateRelations
  BY <1>3 DEF UpdateRelations, diffModels
<1>4. CASE UpdateSecretAccess
  BY <1>4 DEF UpdateSecretAccess
<1>5. CASE Granted
  BY <1>5 DEF Granted
<1>6. CASE Delete
  BY <1>6 DEF Delete
<1> QED BY <1>1, <1>2, <1>3, <1>4, <1>5, <1>6

\* The handlers that return, with or without an error.
LEMMA ReturnIInv ==
  ASSUME IInv, Created \/ CreateFails \/ UpdateModelAccess \/ Updated \/ DeleteNothing
               \/ RevokeRefused \/ Deleted \/ CallFails
  PROVE  IInv'
<1> USE DEF IInv, Errored, Applied
<1>1. CASE Created
  BY <1>1, ConfigLevels DEF Created, TypeOK, ControlInv, OwnInv, OursInv, Some, Configs, Levels, Handlers
<1>2. CASE CreateFails
  <2>1. ControlInv'
    <3>1. budget' \in [{"changes", "faults"} -> Nat]
      BY <1>2, SpendCounts DEF CreateFails, ControlInv
    <3>2. todo' = {} /\ pc' = "idle" /\ UNCHANGED <<kind, recorded, tfstate>>
      BY <1>2 DEF CreateFails
    <3> QED BY <3>1, <3>2 DEF ControlInv, Some, Handlers
  <2>2. TypeOK' /\ OwnInv' /\ OursInv'
    BY <1>2 DEF CreateFails, TypeOK, ControlInv, OwnInv, OursInv, Some, Configs, Levels
  <2> QED BY <2>1, <2>2
<1>3. CASE UpdateModelAccess
  BY <1>3, ConfigLevels, SpendCounts
     DEF UpdateModelAccess, missingUsers, addedUsers, TypeOK, ControlInv, OwnInv, OursInv, Some, Configs, Levels, Handlers
<1>4. CASE Updated
  BY <1>4, ConfigLevels DEF Updated, TypeOK, ControlInv, OwnInv, OursInv, Some, Configs, Levels, Handlers
<1>5. CASE DeleteNothing
  BY <1>5 DEF DeleteNothing, TypeOK, ControlInv, OwnInv, OursInv, Some, Configs, Levels, Handlers
<1>6. CASE RevokeRefused
  BY <1>6 DEF RevokeRefused, TypeOK, ControlInv, OwnInv, OursInv, Some, Configs, Levels, Handlers
<1>7. CASE Deleted
  BY <1>7, AccessAssumption DEF Deleted, Destroyed, TypeOK, ControlInv, OwnInv, OursInv, Some, Configs, Levels, Handlers
<1>8. CASE CallFails
  <2>1. ControlInv'
    <3>1. budget' \in [{"changes", "faults"} -> Nat]
      BY <1>8, SpendCounts DEF CallFails, ControlInv
    <3>2. todo' = {} /\ pc' = "idle" /\ UNCHANGED <<kind, recorded, tfstate>>
      BY <1>8 DEF CallFails
    <3> QED BY <3>1, <3>2 DEF ControlInv, Some, Handlers
  <2>2. TypeOK' /\ OwnInv' /\ OursInv'
    BY <1>8 DEF CallFails, TypeOK, ControlInv, OwnInv, OursInv, Some, Configs, Levels
  <2> QED BY <2>1, <2>2
<1> QED BY <1>1, <1>2, <1>3, <1>4, <1>5, <1>6, <1>7, <1>8
LEMMA GrantIInv ==
  ASSUME IInv, GrantOne \/ AddRelations \/ grantPermission
  PROVE  IInv'
<1> USE DEF IInv
<1>1. PICK us \in SUBSET todo : /\ Grant(us, wanted) /\ todo' = todo \ us
                                /\ pc \in {"create_grant", "update_grant"} /\ todo # {}
                                /\ UNCHANGED <<wanted, tfstate, tainted, pc, budget, kind, recorded, excused>>
                                /\ kind = "model" => pc = "create_grant"
  <2>1. CASE GrantOne
    BY <2>1 DEF GrantOne, ControlInv
  <2>2. CASE AddRelations
    BY <2>2 DEF AddRelations
  <2>3. CASE grantPermission
    BY <2>3 DEF grantPermission
  <2> QED BY <2>1, <2>2, <2>3
<1>2. wanted # None /\ us \subseteq Some(wanted)
  BY <1>1 DEF ControlInv
<1>3. /\ access' \in [Users -> Levels]
      /\ ours' \subseteq Some(access') /\ ours' \subseteq ours \cup us
      /\ kind = "offer" => access'[Self] = 3 /\ Self \notin ours'
  BY <1>1, <1>2, GrantRaises
<1>4. TypeOK'
  BY <1>1, <1>3 DEF TypeOK, Configs, Levels, Some
<1>5. ControlInv'
  BY <1>1 DEF ControlInv, Some
<1>6. OwnInv'
  BY <1>1, <1>3 DEF OwnInv
<1>7. OursInv'
  BY <1>1, <1>2, <1>3 DEF OursInv, ControlInv
<1> QED BY <1>4, <1>5, <1>6, <1>7

LEMMA RevokeIInv ==
  ASSUME IInv, processAccessRevokes \/ DeleteRelations \/ RevokeOne
  PROVE  IInv'
<1> USE DEF IInv
<1>1. CASE todo = {} /\ processAccessRevokes
  BY <1>1 DEF processAccessRevokes, usersRequiringGrant, TypeOK, ControlInv, OwnInv, OursInv, Some, Configs, Levels, Handlers
<1>2. CASE ~(todo = {} /\ processAccessRevokes)
  <2>1. PICK us \in SUBSET todo, level \in Levels \ {0} :
          /\ Revoke(us, level) /\ todo' = todo \ us
          /\ pc \in {"update_revoke", "delete_revoke"}
          /\ pc = "delete_revoke" => level = 1
          /\ UNCHANGED <<wanted, tfstate, tainted, pc, budget, kind, recorded, excused>>
    <3>1. CASE processAccessRevokes
      <4>1. PICK u \in todo : Revoke({u}, revokeAccessIfNeeded(tfstate[u], wanted[u])) /\ todo' = todo \ {u}
        BY <1>2, <3>1 DEF processAccessRevokes
      <4>2. /\ tfstate[u] \in 0..3 /\ wanted[u] \in 0..3 /\ Levels = 0..3
            /\ revokeAccessIfNeeded(tfstate[u], wanted[u]) > 0
        BY <3>1, ConfigLevels DEF processAccessRevokes, TypeOK, ControlInv, Levels
      <4>3. revokeAccessIfNeeded(tfstate[u], wanted[u]) \in Levels \ {0}
        BY <4>2 DEF revokeAccessIfNeeded, LevelToRevoke
      <4>4. {u} \in SUBSET todo
        OBVIOUS
      <4> QED BY <1>2, <3>1, <4>1, <4>3, <4>4 DEF processAccessRevokes
    <3>2. CASE DeleteRelations
      <4>1. Revoke(todo, 1) /\ todo' = {}
        BY <3>2 DEF DeleteRelations
      <4>2. 1 \in Levels \ {0} /\ todo \ todo = {}
        BY DEF Levels
      <4> QED BY <3>2, <4>1, <4>2 DEF DeleteRelations
    <3>3. CASE RevokeOne
      <4>1. PICK u \in todo : Revoke({u}, 1) /\ todo' = todo \ {u}
        BY <3>3 DEF RevokeOne
      <4>2. 1 \in Levels \ {0} /\ {u} \in SUBSET todo
        BY DEF Levels
      <4> QED BY <3>3, <4>1, <4>2 DEF RevokeOne
    <3> QED BY <3>1, <3>2, <3>3
  <2>2. us \subseteq Users /\ us \subseteq Some(tfstate) /\ tfstate # None
    BY <2>1, SomeAreUsers DEF TypeOK, ControlInv
  <2>3. /\ access' \in [Users -> Levels]
        /\ \A u \in Users : access'[u] = IF u \in us /\ access[u] >= level THEN level - 1 ELSE access[u]
        /\ ours' = IF level = 1 THEN ours \ us ELSE ours
        /\ ours' \subseteq Some(access')
    BY <2>1, <2>2, RevokeTakes
  <2>4. TypeOK'
    BY <2>1, <2>3 DEF TypeOK, Configs, Levels, Some
  <2>5. ControlInv'
    BY <2>1 DEF ControlInv, Some
  <2>6. OwnInv'
    <3> SUFFICES ASSUME kind = "offer" PROVE access'[Self] = 3 /\ Self \notin ours'
      BY <2>1, <2>2 DEF OwnInv
    <3>1. access[Self] = 3 /\ Self \notin ours /\ Self \notin us
      BY <2>1, <2>2 DEF OwnInv, Some
    <3> QED BY <2>3, <3>1, AccessAssumption
  <2>7. OursInv'
    BY <2>1, <2>2, <2>3 DEF OursInv
  <2> QED BY <2>4, <2>5, <2>6, <2>7
<1> QED BY <1>1, <1>2
\* One call for several applications: some of them may fail.
LEMMA SecretIInv ==
  ASSUME IInv, GrantSecret \/ RevokeSecret
  PROVE  IInv'
<1> USE DEF IInv
<1>1. CASE GrantSecret
  <2>1. PICK failed \in SUBSET todo :
          /\ IF failed = {} THEN UNCHANGED budget ELSE Spend("faults")
          /\ Grant(todo \ failed, wanted)
          /\ todo' = {}
          /\ \/ failed # todo /\ UNCHANGED <<wanted, tfstate, tainted, pc, excused>>
             \/ failed # {} /\ Errored /\ excused' = excused \cup (IF tfstate = None THEN ours' ELSE {})
    BY <1>1 DEF GrantSecret
  <2>2. kind = "secret" /\ pc \in {"create_grant", "update_grant"} /\ UNCHANGED <<kind, recorded>>
    BY <1>1 DEF GrantSecret
  <2>3. wanted # None /\ todo \ failed \subseteq Some(wanted) /\ (pc = "create_grant" <=> tfstate = None)
    BY <2>2 DEF ControlInv
  <2>4. /\ access' \in [Users -> Levels]
        /\ ours' \subseteq Some(access') /\ ours' \subseteq ours \cup (todo \ failed)
    BY <2>1, <2>3, GrantRaises
  <2>5. budget' \in [{"changes", "faults"} -> Nat]
    BY <2>1, SpendCounts DEF ControlInv
  <2>6. TypeOK'
    BY <2>1, <2>2, <2>4 DEF TypeOK, Errored, Configs, Levels, Some
  <2>7. ControlInv'
    BY <2>1, <2>2, <2>5 DEF ControlInv, Errored, Some, Handlers
  <2>8. OwnInv' /\ OursInv'
    BY <2>1, <2>2, <2>3, <2>4 DEF OwnInv, OursInv, Errored
  <2> QED BY <2>6, <2>7, <2>8
<1>2. CASE RevokeSecret
  <2>1. PICK failed \in SUBSET todo :
          /\ IF failed = {} THEN UNCHANGED budget ELSE Spend("faults")
          /\ Revoke(todo \ failed, 1)
          /\ todo' = {}
          /\ \/ /\ failed # todo
                /\ excused' = excused \cup failed
                /\ UNCHANGED <<wanted, tfstate, tainted, pc>>
             \/ failed # {} /\ Errored /\ UNCHANGED excused
    BY <1>2 DEF RevokeSecret
  <2>2. /\ kind = "secret" /\ pc \in {"update_revoke", "delete_revoke"} /\ UNCHANGED <<kind, recorded>>
        /\ tfstate # None
    BY <1>2 DEF RevokeSecret, ControlInv
  <2>3. 1 \in Levels \ {0} /\ todo \ failed \subseteq Users
    <3>1. todo \subseteq Users
      BY DEF TypeOK
    <3>2. 1 \in Levels
      BY DEF Levels
    <3> QED BY <3>1, <3>2
  <2>4. /\ access' \in [Users -> Levels]
        /\ ours' = ours \ (todo \ failed) /\ ours' \subseteq Some(access')
    BY <2>1, <2>3, RevokeTakes
  <2>5. budget' \in [{"changes", "faults"} -> Nat]
    BY <2>1, SpendCounts DEF ControlInv
  <2>6. TypeOK'
    BY <2>1, <2>2, <2>4 DEF TypeOK, Errored, Configs, Levels, Some
  <2>7. ControlInv'
    BY <2>1, <2>2, <2>5 DEF ControlInv, Errored, Some, Handlers
  <2>8. OwnInv' /\ OursInv'
    BY <2>1, <2>2, <2>4 DEF OwnInv, OursInv, Errored
  <2> QED BY <2>6, <2>7, <2>8
<1> QED BY <1>1, <1>2

LEMMA OutsideIInv ==
  ASSUME IInv, ChangeOutside
  PROVE  IInv'
<1> USE DEF IInv
<1>1. PICK u \in Users \ {Self}, l \in Levels :
        /\ access' = [access EXCEPT ![u] = l]
        /\ ours' = IF l = 0 THEN ours \ {u} ELSE ours
  BY DEF ChangeOutside
<1>2. UNCHANGED <<wanted, tfstate, tainted, pc, kind, recorded, todo, excused>>
  BY DEF ChangeOutside
<1>3. budget' \in [{"changes", "faults"} -> Nat]
  BY SpendCounts DEF ChangeOutside, ControlInv
<1>4. TypeOK'
  <2>1. access' \in [Users -> Levels] /\ ours' \subseteq Some(access')
    BY <1>1 DEF TypeOK, Some, Levels
  <2> QED BY <1>2, <2>1 DEF TypeOK, Configs, Levels, Some
<1>5. ControlInv'
  BY <1>2, <1>3 DEF ControlInv, Some
<1>6. OwnInv' /\ OursInv'
  BY <1>1, <1>2, AccessAssumption DEF OwnInv, OursInv, TypeOK
<1> QED BY <1>4, <1>5, <1>6

LEMMA IInvStep == IInv /\ [Next]_vars => IInv'
<1> SUFFICES ASSUME IInv, [Next]_vars PROVE IInv'
  OBVIOUS
<1>1. CASE Next
  BY <1>1, RefreshIInv, BeginIInv, ReturnIInv, GrantIInv, RevokeIInv, SecretIInv, OutsideIInv
     DEF Next, ApplyStep
<1>2. CASE UNCHANGED vars
  BY <1>2 DEF vars, IInv, TypeOK, ControlInv, OwnInv, OursInv, Some, Configs, Levels
<1> QED BY <1>1, <1>2

LEMMA IInvHolds == Spec => []IInv
BY InitIInv, IInvStep, PTL DEF Spec

-----------------------------------------------------------------------------
\* What the state file, the controller and the running handler have stays of its
\* type, and a handler that has returned has no user left to deal with.
THEOREM Typing == Spec => []TypeOK
BY IInvHolds, PTL DEF IInv

\* The provider never grants or revokes the access to an offer of the user it runs
\* as, whatever state it reads and whatever fails: Read leaves that user out
\* (resource_access_offer.go:223), and a grant, if the configuration asks for one,
\* gives nothing to who owns the offer.
THEOREM KeepsOwnAccess == Spec => []OwnAccessKept
<1>1. IInv => OwnAccessKept
  BY DEF IInv, OwnInv, OwnAccessKept
<1> QED BY <1>1, IInvHolds, PTL

\* After a destroy, the only access left of what an access resource gave is in the
\* list of what it had lost sight of, over any number of applies, failed calls,
\* imports and changes made outside.
THEOREM DestroyLeavesNothing == Spec => []DestroyedLeavesNothing
<1>1. IInv => DestroyedLeavesNothing
  BY DEF IInv, OursInv, DestroyedLeavesNothing
<1> QED BY <1>1, IInvHolds, PTL

\* No step of an update of an offer's access takes from a user who is to keep
\* some below both what it had and what it shall have.
LEMMA UpdateKeeps ==
  ASSUME IInv, Next, pc \in {"update_revoke", "update_grant"}, kind = "offer",
         budget' = budget, NEW u \in Users, wanted[u] > 0
  PROVE  access'[u] >= access[u] \/ access'[u] >= wanted[u]
<1>1. /\ wanted # None /\ wanted \in [Users -> 0..3] /\ tfstate \in [Users -> 0..3]
      /\ access \in [Users -> 0..3] /\ todo \subseteq Users
  <2>1. wanted # None /\ tfstate # None
    BY DEF IInv, ControlInv
  <2>2. Levels = 0..3
    BY DEF Levels
  <2> QED BY <2>1, <2>2, ConfigLevels DEF IInv, TypeOK
<1>2. access[u] \in Nat /\ wanted[u] \in Nat
  BY <1>1
<1>3. CASE UNCHANGED access
  BY <1>2, <1>3
<1>4. CASE processAccessRevokes /\ ~UNCHANGED access
  <2>1. PICK v \in todo : Revoke({v}, revokeAccessIfNeeded(tfstate[v], wanted[v]))
    BY <1>4 DEF processAccessRevokes
  <2> DEFINE level == revokeAccessIfNeeded(tfstate[v], wanted[v])
  <2>2. access'[u] = IF u \in {v} /\ access[u] >= level THEN level - 1 ELSE access[u]
    BY <2>1 DEF Revoke
  <2>3. level > 0
    BY <1>4 DEF processAccessRevokes, IInv, ControlInv
  <2>4. CASE u = v
    <3>1. tfstate[v] \in Nat /\ tfstate[v] <= 3 /\ wanted[v] \in Nat /\ wanted[v] > 0
      BY <1>1, <2>4
    <3>2. level \in Nat /\ level - 1 >= wanted[v]
      BY <2>3, <3>1 DEF revokeAccessIfNeeded, LevelToRevoke
    <3> QED BY <1>2, <2>2, <2>4, <3>2
  <2>5. CASE u # v
    BY <1>2, <2>2, <2>5
  <2> QED BY <2>4, <2>5
<1>5. CASE grantPermission
  <2>1. PICK v \in todo : Grant({v}, wanted)
    BY <1>5 DEF grantPermission
  <2>2. {v} \subseteq Some(wanted)
    BY <1>5 DEF grantPermission, IInv, ControlInv
  <2> QED BY <1>1, <2>1, <2>2, GrantRaises
<1>6. ~ChangeOutside /\ ~EditConfig /\ ~Import
  BY SpendCounts DEF IInv, ControlInv, ChangeOutside, EditConfig, Edit, Import
<1>7. ApplyStep => UNCHANGED access \/ processAccessRevokes \/ grantPermission
  BY DEF ApplyStep, Start, BeginApply, Read, Refreshed, ReadFails, Create, Begin, GrantOne, AddRelations,
         GrantSecret, Created, CreateFails, UpdateModelAccess, UpdateOfferAccess, UpdateRelations,
         UpdateSecretAccess, Granted, DeleteRelations, RevokeSecret, Updated, Delete, DeleteNothing,
         RevokeOne, RevokeRefused, Deleted, CallFails
<1> QED BY <1>3, <1>4, <1>5, <1>6, <1>7 DEF Next

\* In an update of an offer's access a user who is to keep some never falls below
\* both what it had and what it shall have, for every number of users and whatever
\* their levels (processRevokes and grantPermission of resource_access_offer.go).
THEOREM NoInterruption == Spec => AccessNotInterrupted
<1>1. IInv /\ [Next]_vars =>
        [(pc \in {"update_revoke", "update_grant"} /\ kind = "offer" /\ wanted' = wanted /\ budget' = budget)
         => \A u \in Some(wanted) : access'[u] >= access[u] \/ access'[u] >= wanted[u]]_vars
  BY UpdateKeeps DEF Some
<1> QED BY <1>1, IInvHolds, PTL DEF Spec, AccessNotInterrupted
=============================================================================
