------------------------------ MODULE Identities ------------------------------
(***************************************************************************)
(* Who may do something, and with what: juju_user, juju_credential,        *)
(* juju_jaas_group, juju_jaas_role and juju_jaas_controller.  For each, the *)
(* calls of its client, and its handlers as the calls they make or the     *)
(* states that Read can return: {} is an error, {None} takes the resource  *)
(* from the state.                                                         *)
(***************************************************************************)
EXTENDS Calls

-----------------------------------------------------------------------------
(* juju_user                                                               *)

UserConfigs == [name : Names, display : {None, 1}, password : {1, 2}]
UserReplaced(s, w) == s.name # w.name

CreateUser(w) == add(w.name, w)
ReadUser(name, at) == at[name]
UpdateUser(name, password) == set(name, [password |-> password])
DestroyUser(name) == remove(name)

UserCreate(w) == <<CreateUser(w), returns(StateOf(w.name, w))>>

\* The password stays what the state says; a display name is only refreshed when
\* the state has one.
UserRead(s, at) ==
  LET user == ReadUser(s.id, at) IN
  IF user = None THEN {}
  ELSE {[s EXCEPT !.name = s.id, !.display = IF @ = None THEN None ELSE user.display]}

\* Nothing but a password is ever sent; without one the state stays as it was.
UserUpdate(s, w) ==
  IF w.password = s.password THEN <<returns(s)>>
  ELSE <<UpdateUser(w.name, w.password), returns(StateOf(w.name, w))>>

UserDelete(s) == <<DestroyUser(s.id), returns(None)>>
UserImport(name) == [id |-> name, name |-> None, display |-> None, password |-> None]

-----------------------------------------------------------------------------
(* juju_credential.  Its content can be with the client, whose file has    *)
(* other credentials for the cloud, and on the controller; its ID says     *)
(* where.                                                                  *)

CredentialConfigs == [name : {"a"}, auth : {1, 2}, client : BOOLEAN, controller : BOOLEAN]
newCredentialID(w) == [client |-> w.client, controller |-> w.controller]
Flagged(id) == {k \in {"client", "controller"} : id[k]}

putClient(w) == IF w.client THEN <<put("client", [name |-> w.name, auth |-> w.auth])>> ELSE <<>>
putController(w) == IF w.controller THEN <<put("controller", [name |-> w.name, auth |-> w.auth])>> ELSE <<>>

CreateCredential(w) == IF Flagged(w) = {} THEN <<fails>> ELSE putClient(w) \o putController(w)
UpdateCredential(w) == IF Flagged(w) = {} THEN <<fails>> ELSE putClient(w) \o putController(w)

\* A credential that is not there has neither name nor type; the two places of
\* one that is in both must have it of one type.
ReadCredential(id, at) ==
  LET found == [k \in {"client", "controller"} |->
                  IF id[k] /\ at[k] # None THEN at[k] ELSE [name |-> None, auth |-> None]]
  IN  IF Flagged(id) = {} \/ (Cardinality(Flagged(id)) = 2 /\ found["client"].auth # found["controller"].auth)
      THEN {} ELSE {IF id.controller THEN found["controller"] ELSE found["client"]}

DestroyCredential(id) ==
  (IF id.controller THEN <<remove("controller")>> ELSE <<>>) \o (IF id.client THEN <<remove("client")>> ELSE <<>>)

CredentialReplaced(s, w) == s.name # w.name
CredentialCreate(w) == CreateCredential(w) \o <<returns(StateOf(newCredentialID(w), w))>>
CredentialRead(s, at) ==
  {StateOf(s.id, [name |-> c.name, auth |-> c.auth, client |-> s.id.client, controller |-> s.id.controller])
     : c \in ReadCredential(s.id, at)}

\* The ID tells where the new configuration wants it; where it is not wanted any
\* more it stays.
CredentialUpdate(s, w) == UpdateCredential(w) \o <<returns(StateOf(newCredentialID(w), w))>>
CredentialDelete(s) == DestroyCredential(s.id) \o <<returns(None)>>
CredentialImport(id) == [id |-> id, name |-> None, auth |-> None, client |-> None, controller |-> None]

-----------------------------------------------------------------------------
(* juju_jaas_group.  Read goes by the identifier, the others by the name.  *)

GroupConfigs == [name : Names]
AddGroup(id, name) == addNamed(id, [name |-> name])
ReadGroupByUUID(id, at) == at[id]
RenameGroup(name, new) == renameNamed(name, new)
RemoveGroup(name) == removeNamed(name)

GroupCreate(w, at) == <<AddGroup(FreshID(at), w.name), returns(StateOf(FreshID(at), w))>>
GroupRead(s, at) ==
  LET group == ReadGroupByUUID(s.id, at) IN IF group = None THEN {} ELSE {[s EXCEPT !.name = group.name]}
GroupUpdate(s, w) == <<RenameGroup(s.name, w.name), returns([s EXCEPT !.name = w.name])>>
GroupDelete(s) == <<RemoveGroup(s.name), returns(None)>>

-----------------------------------------------------------------------------
(* juju_jaas_role.  It is handled as a group is.                           *)

AddRole(id, name) == addNamed(id, [name |-> name])
ReadRoleByUUID(id, at) == at[id]
RenameRole(name, new) == renameNamed(name, new)
RemoveRole(name) == removeNamed(name)

RoleCreate(w, at) == <<AddRole(FreshID(at), w.name), returns(StateOf(FreshID(at), w))>>
RoleRead(s, at) ==
  LET role == ReadRoleByUUID(s.id, at) IN IF role = None THEN {} ELSE {[s EXCEPT !.name = role.name]}
RoleUpdate(s, w) == <<RenameRole(s.name, w.name), returns([s EXCEPT !.name = w.name])>>
RoleDelete(s) == <<RemoveRole(s.name), returns(None)>>

-----------------------------------------------------------------------------
(* juju_jaas_controller.  A controller without a certificate of its own is *)
(* listed with an empty one.                                               *)

noCertificate == ""
ControllerConfigsOfJAAS == [name : Names, ca : {None, "ca"}, password : {1}, force : BOOLEAN]
infoOf(w) == [name |-> w.name, ca |-> IF w.ca = None THEN noCertificate ELSE w.ca]

AddController(w) == add(w.name, infoOf(w))
ListControllers(at) == {at[k] : k \in {k \in Names : at[k] # None}}
RemoveController(name) == remove(name)

JAASControllerReplaced(s, w) == \E x \in {"name", "ca", "password"} : s[x] # w[x]
JAASControllerCreate(w) == <<AddController(w), returns([StateOf(w.name, w) EXCEPT !.ca = infoOf(w).ca])>>
JAASControllerRead(s, at) ==
  LET found == {c \in ListControllers(at) : c.name = s.id} IN
  IF found = {} THEN {None} ELSE {[s EXCEPT !.name = c.name, !.ca = c.ca] : c \in found}
JAASControllerUpdate == <<fails>>
JAASControllerDelete(s) == <<RemoveController(s.name), returns(None)>>
JAASControllerImport(name) == [id |-> name, name |-> None, ca |-> None, password |-> None, force |-> None]
=============================================================================
