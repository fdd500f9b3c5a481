------------------------------ MODULE ModelParts ------------------------------
(***************************************************************************)
(* What a model has beside applications and machines: juju_offer,          *)
(* juju_space, juju_subnet, juju_secret, juju_storage_pool and             *)
(* juju_ssh_key.  For each, the calls of its client, and its handlers as   *)
(* the calls they make or the states that Read can return: {} is an error, *)
(* {None} takes the resource from the state.                               *)
(***************************************************************************)
EXTENDS Calls, FiniteSetsExt

-----------------------------------------------------------------------------
(* juju_offer.  An offer may get connections from elsewhere.               *)

OfferConfigs == [name : Names, endpoints : {1, 2}, force : BOOLEAN]
OfferReplaced(s, w) == s.name # w.name \/ s.endpoints # w.endpoints

\* The controller makes the offer, or changes the one of that name; then it has
\* to be found in a list, by its endpoints and its name.
findCreatedOffer(w) == see(w.name, [endpoints |-> w.endpoints])
CreateOffer(w) ==
  <<put(w.name, [name |-> w.name, endpoints |-> w.endpoints, connected |-> FALSE]), findCreatedOffer(w)>>
ReadOffer(name, at) == at[name]

\* Without force it is tried again while there are connections.
DestroyOffer(name, force) ==
  IF force THEN <<remove(name)>> ELSE <<see(name, [connected |-> FALSE]), remove(name)>>

OfferCreate(w) == CreateOffer(w) \o <<returns(StateOf(w.name, w))>>
OfferRead(s, at) ==
  LET offer == ReadOffer(s.id, at) IN
  IF offer = None THEN {None} ELSE {[s EXCEPT !.name = offer.name, !.endpoints = offer.endpoints]}
OfferUpdate(s, w) == <<returns(StateOf(s.id, w))>>
OfferDelete(s) == DestroyOffer(s.id, s.force = TRUE) \o <<returns(None)>>
OfferImport(name) == [id |-> name, name |-> None, endpoints |-> None, force |-> None]

-----------------------------------------------------------------------------
(* juju_space.  The subnets of a space are to be in "alpha" before it goes.*)

SpaceConfigs == [name : Names]
SpaceReplaced(s, w) == s.name # w.name

CreateSpace(name) == add(name, [name |-> name, subnets |-> {}])
ReadSpace(name, at) == at[name]

\* Subnets are looked up by CIDR, with a result for each; those of the first
\* result are moved.
moveAllSubnetsToAlpha(name, at) ==
  IF at[name] = None \/ at[name].subnets = {} THEN <<>>
  ELSE <<set(name, [subnets |-> at[name].subnets \ {Min(at[name].subnets)}])>>

\* That the controller has no such space is no error.
DeleteSpace(name, at) == moveAllSubnetsToAlpha(name, at) \o <<drop(name)>>

SpaceCreate(w) == <<CreateSpace(w.name), see(w.name, [name |-> w.name]), returns(StateOf(w.name, w))>>
SpaceRead(s, at) == IF ReadSpace(s.name, at) = None THEN {None} ELSE {s}
SpaceUpdate == <<fails>>
SpaceDelete(s, at) == DeleteSpace(s.name, at) \o <<gone(s.name), returns(None)>>
SpaceImport(name) == [id |-> name, name |-> name]

-----------------------------------------------------------------------------
(* juju_subnet.  Subnets exist; they are moved between spaces.             *)

Spaces == {"alpha", "space1", "space2"}
SubnetConfigs == [name : Names, space : Spaces]
SubnetReplaced(s, w) == s.name # w.name

ReadSubnet(name, at) == at[name]
MoveSubnetToSpace(name, space) == set(name, [space |-> space])
MovedTo(name, space) == <<MoveSubnetToSpace(name, space), see(name, [space |-> space])>>

\* Mutant: a subnet is taken from whatever space it is in.
SubnetCreateAnywhere(w) == MovedTo(w.name, w.space) \o <<returns(StateOf(w.name, w))>>

SubnetCreate(w) ==
  <<check(w.name, [space |-> "alpha"])>> \o MovedTo(w.name, w.space) \o <<returns(StateOf(w.name, w))>>
SubnetRead(s, at) ==
  LET subnet == ReadSubnet(s.id, at) IN
  IF subnet = None THEN {} ELSE {[s EXCEPT !.name = s.id, !.space = subnet.space]}
SubnetUpdate(w) == MovedTo(w.name, w.space) \o <<returns(StateOf(w.name, w))>>
SubnetDelete(s, at) ==
  IF Has(at[s.name], [space |-> "alpha"]) THEN <<returns(None)>> ELSE MovedTo(s.name, "alpha") \o <<returns(None)>>
SubnetImport(name) == [id |-> name, name |-> None, space |-> None]

-----------------------------------------------------------------------------
(* juju_secret.  Its content is a value that the state has, or a           *)
(* write-only one with a version.                                          *)

SecretConfigs ==
  {w \in [name : {None, "a"}, info : {None, 1}, value : {None, 1, 2}, version : {None, 1, 2}] :
     (w.value = None) # (w.version = None)}
resolveSecretValue(w) == IF w.version # None THEN <<"wo", w.version>> ELSE <<"plain", w.value>>

CreateSecret(id, w) ==
  LET secret == [name |-> w.name, info |-> w.info, content |-> resolveSecretValue(w)] IN
  IF w.name = None THEN add(id, secret) ELSE addNamed(id, secret)
ReadSecret(id, at) == at[id]

\* The controller changes what it is given; an empty name or description is none.
UpdateSecret(id, fields) == set(id, [x \in {x \in DOMAIN fields : fields[x] # None} |-> fields[x]])
DeleteSecret(id) == drop(id)

\* Mutant: the state does not get the value.
SecretCreateValueless(w, at) ==
  <<CreateSecret(FreshID(at), w), returns([StateOf(FreshID(at), w) EXCEPT !.value = None])>>

SecretCreate(w, at) == <<CreateSecret(FreshID(at), w), returns(StateOf(FreshID(at), w))>>

\* What the state does not have is not read.
SecretRead(s, at) ==
  LET secret == ReadSecret(s.id, at) IN
  IF secret = None THEN {}
  ELSE {[s EXCEPT !.name  = IF @ = None THEN None ELSE secret.name,
                  !.info  = IF @ = None THEN None ELSE secret.info,
                  !.value = IF @ = None THEN None ELSE IF secret.content[1] = "plain" THEN secret.content[2] ELSE 0]}

contentChanged(s, w) == IF w.version # None THEN s.version # w.version ELSE s.value # w.value
SecretUpdate(s, w) ==
  LET changed == {x \in {"name", "info"} : s[x] # w[x]} \cup (IF contentChanged(s, w) THEN {"content"} ELSE {})
  IN  <<UpdateSecret(s.id, [x \in changed |-> IF x = "content" THEN resolveSecretValue(w) ELSE w[x]]),
        returns(StateOf(s.id, w))>>
SecretDelete(s) == <<DeleteSecret(s.id), returns(None)>>
SecretImport(id, at) ==
  [id |-> id, name |-> at[id].name, info |-> at[id].info, version |-> None,
   value |-> IF at[id].content[1] = "plain" THEN at[id].content[2] ELSE 0]

-----------------------------------------------------------------------------
(* juju_storage_pool                                                       *)

StoragePoolConfigs == [name : Names, provider : {1, 2}, attrs : {None, 1, 2}]
StoragePoolReplaced(s, w) == s.name # w.name \/ s.provider # w.provider

CreatePool(w) == add(w.name, w)
UpdatePool(name, attrs) == set(name, [attrs |-> attrs])
RemovePool(name) == remove(name)
GetPool(name, at) == at[name]

StoragePoolCreate(w) == <<CreatePool(w), see(w.name, [name |-> w.name]), returns(StateOf(w.name, w))>>

\* Attributes are read when there are any.
StoragePoolRead(s, at) ==
  LET pool == GetPool(s.name, at) IN
  IF pool = None THEN {}
  ELSE {[s EXCEPT !.name = pool.name, !.provider = pool.provider,
                  !.attrs = IF pool.attrs = None THEN @ ELSE pool.attrs]}
StoragePoolUpdate(s, w) ==
  <<UpdatePool(s.name, w.attrs), see(s.name, [attrs |-> w.attrs]), returns(StateOf(s.id, w))>>
StoragePoolDelete(s) == <<RemovePool(s.name), gone(s.name), returns(None)>>
StoragePoolImport(name) == [id |-> name, name |-> name, provider |-> None, attrs |-> None]

-----------------------------------------------------------------------------
(* juju_ssh_key.  A key is known by its fingerprint, the name here; a      *)
(* comment is part of the payload but does not tell keys apart.            *)

SSHKeyConfigs == [name : Names, comment : {1, 2}]

SSHKeyCommentInsensitive(s, w) == IF s # None /\ s.name = w.name THEN [w EXCEPT !.comment = s.comment] ELSE w
SSHKeyReplaced(s, w) == s.name # w.name \/ s.comment # w.comment

CreateSSHKey(w) == add(w.name, w)
ReadSSHKey(name, at) == at[name]
DeleteSSHKey(name) == remove(name)

SSHKeyCreate(w) == <<CreateSSHKey(w), returns(StateOf(w.name, w))>>
SSHKeyRead(s, at) == IF ReadSSHKey(s.name, at) = None THEN {None} ELSE {s}
SSHKeyUpdate(s) == <<returns(s)>>
SSHKeyDelete(s) == <<DeleteSSHKey(s.name), returns(None)>>
=============================================================================
