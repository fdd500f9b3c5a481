---------------------------- MODULE AccessGrants ----------------------------
(***************************************************************************)
(* The resources that give access to something that exists: juju_access_   *)
(* model, juju_access_offer, juju_access_secret, and the six JAAS          *)
(* resources that share genericJAASAccessResource.  They differ in what    *)
(* Read makes of the controller, in the order of revoking and granting,    *)
(* and in what one call does for several users.  The target of the access  *)
(* stays; the controller and JAAS are external.                            *)
(***************************************************************************)
EXTENDS Terraform

CONSTANTS
  Users,   \* users, applications (for a secret), users and groups (for JAAS)
  Self,    \* the user the provider is logged in as, who owns the target
  Kinds    \* the resources under test

ASSUME AccessAssumption ==
  /\ Self \in Users
  /\ Kinds \subseteq {"model", "offer", "secret", "jaas"}
  /\ None \notin [Users -> 0..3]

VARIABLES
  kind,     \* the resource under test
  access,   \* the controller: the level each user has, 0 none, 1 read, 2 consume or write, 3 admin
  recorded, \* the level and the users in the ID of a juju_access_model
  todo,     \* users the running handler has still to grant or revoke
  ours,     \* history: users whose access this resource has raised, until they have none
  excused   \* history: of these, the ones it lost sight of in a way listed below

vars == <<wanted, tfstate, tainted, pc, budget, kind, access, recorded, todo, ours, excused>>

Levels == IF kind \in {"model", "offer"} THEN 0..3 ELSE 0..1
Some(f) == {u \in Users : f[u] > 0}
Nobody == [u \in Users |-> 0]

\* A user has one level (validateNoOverlapsNoAdmin); a model's access has one
\* level for all users.  The provider's own user may be configured: only the user
\* "admin" is refused by name (resource_access_offer.go:524), and is not in Users.
Configs ==
  {f \in [Users -> Levels] :
     /\ f # Nobody
     /\ kind = "model" => \A u, v \in Some(f) : f[u] = f[v]}
LevelOf(f) == f[CHOOSE u \in Users : f[u] > 0]
Replaced == kind = "model" /\ wanted # None /\ LevelOf(recorded) # LevelOf(wanted)

Highest == IF kind \in {"model", "offer"} THEN 3 ELSE 1
Init ==
  /\ TerraformInit
  /\ kind \in Kinds
  /\ wanted \in Configs
  /\ access = [u \in Users |-> IF u = Self /\ kind # "secret" THEN Highest ELSE 0]
  /\ recorded = None
  /\ todo = {}
  /\ ours = {} /\ excused = {}

-----------------------------------------------------------------------------
(* Calls of the controller.                                                *)

Raised(us, level) == [u \in Users |-> IF u \in us /\ access[u] < level[u] THEN level[u] ELSE access[u]]

\* Granting never lowers; revoking a level leaves the one below it.
Grant(us, level) ==
  /\ access' = Raised(us, level)
  /\ ours' = ours \cup {u \in us : access[u] < level[u]}

Revoke(us, level) ==
  /\ access' = [u \in Users |-> IF u \in us /\ access[u] >= level THEN level - 1 ELSE access[u]]
  /\ ours' = ours \ {u \in us : level = 1}

-----------------------------------------------------------------------------
(* Read and import.                                                        *)

\* juju_access_model: the users of the ID that have exactly its level.
ReadModelAccess(id) == [u \in Users |-> IF id[u] > 0 /\ access[u] = id[u] THEN id[u] ELSE 0]

\* Mutant: the provider's own access is read like the others'.
ReadOfferAll == access

\* juju_access_offer: everybody's, but for the provider's own user.
ReadOffer == [access EXCEPT ![Self] = 0]

\* juju_access_secret and the JAAS resources: everybody's.
ReadSecretAccess == access
ReadRelations == access

ReadAccess(id) ==
  CASE kind = "model"  -> ReadModelAccess(id)
    [] kind = "offer"  -> ReadOffer
    [] kind = "secret" -> ReadSecretAccess
    [] kind = "jaas"   -> ReadRelations

\* A user of the state whose level has changed is nobody's concern any more.
Read ==
  LET state == ReadAccess(recorded) IN
  /\ Refreshed(state, state = wanted, Replaced)
  /\ excused' = IF kind = "model" THEN excused \cup (Some(tfstate) \ Some(state)) ELSE excused
  /\ UNCHANGED <<kind, access, recorded, todo, ours>>

ReadFails ==
  /\ pc = "read"
  /\ Spend("faults")
  /\ Errored
  /\ UNCHANGED <<kind, access, recorded, todo, ours, excused>>

\* The ID of a model's access is the user's: level and users are what it says.
Import ==
  /\ pc = "idle" /\ tfstate = None /\ wanted # None
  /\ Spend("changes")
  /\ \E id \in Configs :
       /\ recorded' = IF kind = "model" THEN id ELSE None
       /\ tfstate' = ReadAccess(id)
       /\ excused' = IF kind = "model" THEN ours \ Some(ReadAccess(id)) ELSE excused
  /\ UNCHANGED <<wanted, tainted, pc, kind, access, todo, ours>>

-----------------------------------------------------------------------------
(* Create: user by user for a model, level by level and user by user for   *)
(* an offer, all in one call for JAAS and a secret.                        *)

Begin(handler, users, next) ==
  /\ pc = handler
  /\ todo' = users
  /\ pc' = next
  /\ UNCHANGED <<wanted, tfstate, tainted, budget, kind, access, recorded, ours, excused>>

Create == Begin("create", Some(wanted), "create_grant")

\* The users of one level are granted together, the levels in any order.
InBatch(u) ==
  \A v \in todo : (\E w \in Some(wanted) \ todo : wanted[w] = wanted[v]) => wanted[u] = wanted[v]

GrantOne ==
  /\ kind \in {"model", "offer"}
  /\ pc = "create_grant"
  /\ \E u \in todo : InBatch(u) /\ Grant({u}, wanted) /\ todo' = todo \ {u}
  /\ UNCHANGED <<wanted, tfstate, tainted, pc, budget, kind, recorded, excused>>

AddRelations ==
  /\ kind = "jaas"
  /\ pc \in {"create_grant", "update_grant"} /\ todo # {}
  /\ Grant(todo, wanted) /\ todo' = {}
  /\ UNCHANGED <<wanted, tfstate, tainted, pc, budget, kind, recorded, excused>>

Created ==
  /\ pc = "create_grant" /\ todo = {}
  /\ Applied(wanted)
  /\ recorded' = IF kind = "model" THEN wanted ELSE None
  /\ excused' = excused \ Some(wanted)
  /\ UNCHANGED <<budget, kind, access, todo, ours>>

\* An error leaves no state: those who were granted are forgotten until a
\* Create that names them, or, where Read sees everybody, any Create.
CreateFails ==
  /\ pc = "create_grant" /\ todo # {}
  /\ Spend("faults")
  /\ Errored
  /\ todo' = {}
  /\ excused' = excused \cup ours
  /\ UNCHANGED <<kind, access, recorded, ours>>

-----------------------------------------------------------------------------
(* UpdateAccessSecret: one call for several applications, with a result    *)
(* for each; only the first result is looked at for an error.              *)

GrantSecret ==
  /\ kind = "secret"
  /\ pc \in {"create_grant", "update_grant"} /\ todo # {}
  /\ \E failed \in SUBSET todo :
       /\ IF failed = {} THEN UNCHANGED budget ELSE Spend("faults")
       /\ Grant(todo \ failed, wanted)
       /\ todo' = {}
       /\ \/ failed # todo /\ UNCHANGED <<wanted, tfstate, tainted, pc, excused>>
          \/ failed # {} /\ Errored /\ excused' = excused \cup (IF tfstate = None THEN ours' ELSE {})
  /\ UNCHANGED <<kind, recorded>>

RevokeSecret ==
  /\ kind = "secret"
  /\ pc \in {"update_revoke", "delete_revoke"} /\ todo # {}
  /\ \E failed \in SUBSET todo :
       /\ IF failed = {} THEN UNCHANGED budget ELSE Spend("faults")
       /\ Revoke(todo \ failed, 1)
       /\ todo' = {}
       /\ \/ /\ failed # todo
             /\ excused' = excused \cup failed
             /\ UNCHANGED <<wanted, tfstate, tainted, pc>>
          \/ failed # {} /\ Errored /\ UNCHANGED excused
  /\ UNCHANGED <<kind, recorded>>

-----------------------------------------------------------------------------
(* Update.                                                                 *)

\* juju_access_model: the users of the state are taken from the plan, so that no
\* user is missing and none is added; the state is set even after an error.
missingUsers(old, new) == Some(old) \ Some(new)
addedUsers(old, new)   == Some(new) \ Some(old)

UpdateModelAccess ==
  LET stateUsers == wanted IN
  /\ kind = "model"
  /\ pc = "update"
  /\ Applied(wanted)
  /\ UNCHANGED budget \/ Spend("faults")
  /\ recorded' = wanted
  /\ access' = [u \in Users |-> IF u \in missingUsers(stateUsers, wanted) THEN 0
                                ELSE IF u \in addedUsers(stateUsers, wanted)
                                THEN Raised({u}, recorded)[u] ELSE access[u]]
  /\ ours' = ours \cup addedUsers(stateUsers, wanted)
  /\ excused' = (excused \cup Some(recorded)) \ Some(wanted)
  /\ UNCHANGED <<kind, todo>>

\* The level to revoke to take a user of an offer from one level to another; 0
\* when nothing is to be revoked.
LevelToRevoke(current, desired) ==
  IF desired >= current THEN 0
  ELSE IF desired = 0 THEN 1
  ELSE IF desired = 1 THEN 2 ELSE 3

\* Mutant: all access is revoked first, and granted anew.
LevelToRevokeAll(current, desired) == IF desired # current THEN 1 ELSE 0

revokeAccessIfNeeded(current, desired) == LevelToRevoke(current, desired)

usersRequiringGrant == {u \in Some(wanted) : tfstate[u] = 0 \/ wanted[u] > tfstate[u]}

\* juju_access_offer: revokes first, then grants by rising level.
UpdateOfferAccess ==
  /\ kind = "offer"
  /\ Begin("update", {u \in Some(tfstate) : revokeAccessIfNeeded(tfstate[u], wanted[u]) > 0}, "update_revoke")

processAccessRevokes ==
  /\ kind = "offer" /\ pc = "update_revoke"
  /\ \/ /\ \E u \in todo : /\ Revoke({u}, revokeAccessIfNeeded(tfstate[u], wanted[u]))
                           /\ todo' = todo \ {u}
        /\ UNCHANGED pc
     \/ todo = {} /\ pc' = "update_grant" /\ todo' = usersRequiringGrant /\ UNCHANGED <<access, ours>>
  /\ UNCHANGED <<wanted, tfstate, tainted, budget, kind, recorded, excused>>

\* Mutant: the users of the plan that are in the state are left out.
grantPermissionToNew ==
  /\ kind = "offer" /\ pc = "update_grant"
  /\ \E u \in todo :
       /\ \A v \in todo : wanted[u] <= wanted[v]
       /\ IF tfstate[u] = 0 THEN Grant({u}, wanted) ELSE UNCHANGED <<access, ours>>
       /\ todo' = todo \ {u}
  /\ UNCHANGED <<wanted, tfstate, tainted, pc, budget, kind, recorded, excused>>

grantPermission ==
  /\ kind = "offer" /\ pc = "update_grant"
  /\ \E u \in todo : (\A v \in todo : wanted[u] <= wanted[v]) /\ Grant({u}, wanted) /\ todo' = todo \ {u}
  /\ UNCHANGED <<wanted, tfstate, tainted, pc, budget, kind, recorded, excused>>

\* JAAS and secrets: grants first, then revokes.
diffModels == Some(wanted) \ Some(tfstate)
UpdateRelations == kind = "jaas" /\ Begin("update", diffModels, "update_grant")
UpdateSecretAccess == kind = "secret" /\ Begin("update", Some(wanted) \ Some(tfstate), "update_grant")

Granted ==
  /\ kind \in {"jaas", "secret"}
  /\ pc = "update_grant" /\ todo = {}
  /\ todo' = Some(tfstate) \ Some(wanted) /\ pc' = "update_revoke"
  /\ UNCHANGED <<wanted, tfstate, tainted, budget, kind, access, recorded, ours, excused>>

DeleteRelations ==
  /\ kind = "jaas"
  /\ pc \in {"update_revoke", "delete_revoke"} /\ todo # {}
  /\ Revoke(todo, 1) /\ todo' = {}
  /\ UNCHANGED <<wanted, tfstate, tainted, pc, budget, kind, recorded, excused>>

Updated ==
  /\ pc = IF kind = "offer" THEN "update_grant" ELSE "update_revoke"
  /\ todo = {}
  /\ Applied(wanted)
  /\ UNCHANGED <<budget, kind, access, recorded, todo, ours, excused>>

-----------------------------------------------------------------------------
(* Delete.                                                                 *)

\* DeleteRelations refuses an empty list of tuples: the state stays.
Delete ==
  /\ ~(kind = "jaas" /\ tfstate = Nobody)
  /\ Begin("delete", Some(tfstate), "delete_revoke")

DeleteNothing ==
  /\ pc = "delete"
  /\ kind = "jaas" /\ tfstate = Nobody
  /\ Errored
  /\ UNCHANGED <<budget, kind, access, recorded, todo, ours, excused>>

\* Mutant: the level of the state is revoked, which leaves the one below it.
RevokeOneLevel ==
  /\ kind \in {"model", "offer"} /\ pc = "delete_revoke"
  /\ \E u \in todo : Revoke({u}, tfstate[u]) /\ todo' = todo \ {u}
  /\ UNCHANGED <<wanted, tfstate, tainted, pc, budget, kind, recorded, excused>>

\* "read" is revoked, which takes every level.  For an offer it is no error that
\* a user has none.
RevokeOne ==
  /\ kind \in {"model", "offer"} /\ pc = "delete_revoke"
  /\ \E u \in todo : (kind = "offer" \/ access[u] > 0) /\ Revoke({u}, 1) /\ todo' = todo \ {u}
  /\ UNCHANGED <<wanted, tfstate, tainted, pc, budget, kind, recorded, excused>>

RevokeRefused ==
  /\ kind = "model" /\ pc = "delete_revoke"
  /\ \E u \in todo : access[u] = 0
  /\ Errored
  /\ todo' = {}
  /\ UNCHANGED <<budget, kind, access, recorded, ours, excused>>

Deleted ==
  /\ pc = "delete_revoke" /\ todo = {}
  /\ Destroyed
  /\ recorded' = None
  /\ UNCHANGED <<budget, kind, access, todo, ours, excused>>

\* A call of Update or Delete fails; the calls before it stand.
CallFails ==
  /\ kind # "secret"
  /\ pc \in {"update_revoke", "update_grant", "delete_revoke"} /\ todo # {}
  /\ Spend("faults")
  /\ Errored
  /\ todo' = {}
  /\ UNCHANGED <<kind, access, recorded, ours, excused>>

-----------------------------------------------------------------------------
\* Somebody else gives or takes access, at any time.
ChangeOutside ==
  /\ Spend("changes")
  /\ \E u \in Users \ {Self}, l \in Levels :
       /\ l # access[u]
       /\ access' = [access EXCEPT ![u] = l]
       /\ ours' = IF l = 0 THEN ours \ {u} ELSE ours
  /\ UNCHANGED <<wanted, tfstate, tainted, pc, kind, recorded, todo, excused>>

EditConfig == Edit(Configs) /\ UNCHANGED <<kind, access, recorded, todo, ours, excused>>
Start == BeginApply /\ UNCHANGED <<kind, access, recorded, todo, ours, excused>>

ApplyStep ==
  \/ Start \/ Read \/ ReadFails
  \/ Create \/ GrantOne \/ AddRelations \/ GrantSecret \/ Created \/ CreateFails
  \/ UpdateModelAccess
  \/ UpdateOfferAccess \/ processAccessRevokes \/ grantPermission
  \/ UpdateRelations \/ UpdateSecretAccess \/ Granted \/ DeleteRelations \/ RevokeSecret \/ Updated
  \/ Delete \/ DeleteNothing \/ RevokeOne \/ RevokeRefused \/ Deleted \/ CallFails

Next == ApplyStep \/ Import \/ ChangeOutside \/ EditConfig

Spec == Init /\ [][Next]_vars /\ WF_vars(ApplyStep)

-----------------------------------------------------------------------------
(* Properties.                                                             *)

\* Types; "todo" is empty between handlers.
TypeOK ==
  /\ wanted \in Configs \cup {None}
  /\ tfstate \in [Users -> Levels] \cup {None}
  /\ access \in [Users -> Levels]
  /\ recorded \in Configs \cup {None}
  /\ (recorded # None) <=> (kind = "model" /\ tfstate # None)
  /\ todo \subseteq Users /\ (pc = "idle" => todo = {})
  /\ ours \subseteq Some(access)

\* A user of an offer who is to keep some access never has less than the smaller
\* of what it had and what it shall have: demotion does not pass through none
\* ("this breaks access to offers", resource_access_offer.go:360).
AccessNotInterrupted ==
  [][(pc \in {"update_revoke", "update_grant"} /\ kind = "offer" /\ wanted' = wanted /\ budget' = budget)
     => \A u \in Some(wanted) : access'[u] >= access[u] \/ access'[u] >= wanted[u]]_vars

\* The provider does not take access to an offer from the user it runs as.
OwnAccessKept == kind = "offer" => access[Self] = 3

\* Once an access resource is destroyed, nobody has access that it gave but those
\* it had lost sight of: granted by a Create that failed, left behind by the
\* Update of a model's access, or not revoked without an error being reported.
DestroyedLeavesNothing ==
  (pc = "idle" /\ wanted = None /\ tfstate = None) => ours \subseteq excused

\* When configuration, controller and calls are left alone, applies lead to the
\* access configured, whatever failed in between.  Exceptions: a model's access,
\* whose Update changes nothing, and JAAS access that everybody has lost
\* meanwhile, which cannot be destroyed.
Agrees ==
  IF wanted = None THEN tfstate = None \/ (kind = "jaas" /\ tfstate = Nobody)
  ELSE kind = "model" \/ \A u \in Users : access[u] = wanted[u] \/ (kind = "offer" /\ u = Self)
Settles == <>[]Agrees

\* When the users of a model's access change, "for missing users - revoke access",
\* "for new users - apply access" (resource_access_model.go:223).
UsersChangedApplied ==
  [][(pc = "update" /\ kind = "model" /\ pc' = "idle" /\ budget' = budget)
     => \A u \in Users : /\ tfstate[u] > 0 /\ wanted[u] = 0 => access'[u] = 0
                         /\ tfstate[u] = 0 /\ wanted[u] > 0 => access'[u] >= wanted[u]]_vars
==============================================================================
