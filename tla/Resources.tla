------------------------------ MODULE Resources ------------------------------
(***************************************************************************)
(* The resources that manage one object: Terraform applies one of them, of *)
(* any of the kinds, again and again, while the configuration is edited,   *)
(* somebody else changes the object, calls fail and answers are lost.  Of  *)
(* a kind there are its handlers (Identities, Clouds, ModelParts, Hosts,   *)
(* AppSettings); a handler is the calls that it makes, one at a time.      *)
(***************************************************************************)
EXTENDS Terraform, Identities, Clouds, ModelParts, Hosts, AppSettings

CONSTANT Kinds   \* the kinds under test

AllKinds ==
  {"user", "credential", "group", "role", "jaas_controller", "cloud", "kubernetes_cloud", "secret_backend",
   "offer", "space", "subnet", "secret", "storage_pool", "ssh_key", "machine", "model", "controller",
   "application"}

ASSUME KindsAssumption == Kinds \subseteq AllKinds

VARIABLES
  kind,     \* the kind under test
  setting,  \* of the provider: with JAAS, and skipping deletions that fail
  there,    \* what is on the controller: the object under each key, or None
  dying,    \* keys of objects that have been told to go, and will
  calls,    \* the calls that the running handler has still to make
  mine,     \* history: objects that the resource made, read or imported
  excused,  \* history: of these, the ones it lost sight of in a way listed below
  touched,  \* history: somebody changed objects during this apply ("now"), since the last Read ("since") or
            \* where Read does not look ("unseen"); an Update has failed ("failed")
  last      \* history: "created" or "updated" when that succeeded and nothing has happened since

vars == <<wanted, tfstate, tainted, pc, budget, kind, setting, there, dying, calls, mine, excused, touched, last>>

-----------------------------------------------------------------------------
(* The handlers of each kind.                                              *)

Configs ==
  CASE kind = "user"             -> UserConfigs
    [] kind = "credential"       -> CredentialConfigs
    [] kind \in {"group", "role"} -> GroupConfigs
    [] kind = "jaas_controller"  -> ControllerConfigsOfJAAS
    [] kind = "cloud"            -> CloudConfigs
    [] kind = "kubernetes_cloud" -> KubernetesCloudConfigs
    [] kind = "secret_backend"   -> SecretBackendConfigs
    [] kind = "offer"            -> OfferConfigs
    [] kind = "space"            -> SpaceConfigs
    [] kind = "subnet"           -> SubnetConfigs
    [] kind = "secret"           -> SecretConfigs
    [] kind = "storage_pool"     -> StoragePoolConfigs
    [] kind = "ssh_key"          -> SSHKeyConfigs
    [] kind = "machine"          -> MachineConfigs
    [] kind = "model"            -> ModelConfigs
    [] kind = "controller"       -> ControllerConfigs
    [] kind = "application"      -> AppConfigs

Create(w) ==
  CASE kind = "user"             -> UserCreate(w)
    [] kind = "credential"       -> CredentialCreate(w)
    [] kind = "group"            -> GroupCreate(w, there)
    [] kind = "role"             -> RoleCreate(w, there)
    [] kind = "jaas_controller"  -> JAASControllerCreate(w)
    [] kind = "cloud"            -> CloudCreate(w)
    [] kind = "kubernetes_cloud" -> KubernetesCloudCreate(w)
    [] kind = "secret_backend"   -> SecretBackendCreate(w)
    [] kind = "offer"            -> OfferCreate(w)
    [] kind = "space"            -> SpaceCreate(w)
    [] kind = "subnet"           -> SubnetCreate(w)
    [] kind = "secret"           -> SecretCreate(w, there)
    [] kind = "storage_pool"     -> StoragePoolCreate(w)
    [] kind = "ssh_key"          -> SSHKeyCreate(w)
    [] kind = "machine"          -> MachineCreate(w, there)
    [] kind = "model"            -> ModelCreate(w, there)
    [] kind = "controller"       -> ControllerCreate(w, there)
    [] kind = "application"      -> AppCreate(w)

ReadOf(s) ==
  CASE kind = "user"             -> UserRead(s, there)
    [] kind = "credential"       -> CredentialRead(s, there)
    [] kind = "group"            -> GroupRead(s, there)
    [] kind = "role"             -> RoleRead(s, there)
    [] kind = "jaas_controller"  -> JAASControllerRead(s, there)
    [] kind = "cloud"            -> CloudRead(s, there)
    [] kind = "kubernetes_cloud" -> KubernetesCloudRead(s, there)
    [] kind = "secret_backend"   -> SecretBackendRead(s, there)
    [] kind = "offer"            -> OfferRead(s, there)
    [] kind = "space"            -> SpaceRead(s, there)
    [] kind = "subnet"           -> SubnetRead(s, there)
    [] kind = "secret"           -> SecretRead(s, there)
    [] kind = "storage_pool"     -> StoragePoolRead(s, there)
    [] kind = "ssh_key"          -> SSHKeyRead(s, there)
    [] kind = "machine"          -> MachineRead(s, there)
    [] kind = "model"            -> ModelRead(s, there)
    [] kind = "controller"       -> ControllerRead(s, there)
    [] kind = "application"      -> AppRead(s, there)

Update(s, w) ==
  CASE kind = "user"             -> UserUpdate(s, w)
    [] kind = "credential"       -> CredentialUpdate(s, w)
    [] kind = "group"            -> GroupUpdate(s, w)
    [] kind = "role"             -> RoleUpdate(s, w)
    [] kind = "jaas_controller"  -> JAASControllerUpdate
    [] kind = "cloud"            -> CloudUpdate(s, w)
    [] kind = "kubernetes_cloud" -> KubernetesCloudUpdate(s, w, setting.jaas)
    [] kind = "secret_backend"   -> SecretBackendUpdate(s, w)
    [] kind = "offer"            -> OfferUpdate(s, w)
    [] kind = "space"            -> SpaceUpdate
    [] kind = "subnet"           -> SubnetUpdate(w)
    [] kind = "secret"           -> SecretUpdate(s, w)
    [] kind = "storage_pool"     -> StoragePoolUpdate(s, w)
    [] kind = "ssh_key"          -> SSHKeyUpdate(s)
    [] kind = "machine"          -> MachineUpdate(s, w)
    [] kind = "model"            -> ModelUpdate(s, w)
    [] kind = "controller"       -> ControllerUpdate(s, w)
    [] kind = "application"      -> AppUpdate(s, w, there)

Delete(s) ==
  CASE kind = "user"             -> UserDelete(s)
    [] kind = "credential"       -> CredentialDelete(s)
    [] kind = "group"            -> GroupDelete(s)
    [] kind = "role"             -> RoleDelete(s)
    [] kind = "jaas_controller"  -> JAASControllerDelete(s)
    [] kind = "cloud"            -> CloudDelete(s)
    [] kind = "kubernetes_cloud" -> KubernetesCloudDelete(s)
    [] kind = "secret_backend"   -> SecretBackendDelete(s)
    [] kind = "offer"            -> OfferDelete(s)
    [] kind = "space"            -> SpaceDelete(s, there)
    [] kind = "subnet"           -> SubnetDelete(s, there)
    [] kind = "secret"           -> SecretDelete(s)
    [] kind = "storage_pool"     -> StoragePoolDelete(s)
    [] kind = "ssh_key"          -> SSHKeyDelete(s)
    [] kind = "machine"          -> MachineDelete(s, setting.skip)
    [] kind = "model"            -> ModelDelete(s, setting.skip)
    [] kind = "controller"       -> ControllerDelete(s, setting.skip)
    [] kind = "application"      -> AppDelete(s)

Replaced(s, w) ==
  CASE kind = "user"             -> UserReplaced(s, w)
    [] kind = "credential"       -> CredentialReplaced(s, w)
    [] kind \in {"group", "role"} -> FALSE
    [] kind = "jaas_controller"  -> JAASControllerReplaced(s, w)
    [] kind = "cloud"            -> CloudReplaced(s, w)
    [] kind = "kubernetes_cloud" -> KubernetesCloudReplaced(s, w)
    [] kind = "secret_backend"   -> FALSE
    [] kind = "offer"            -> OfferReplaced(s, w)
    [] kind = "space"            -> SpaceReplaced(s, w)
    [] kind = "subnet"           -> SubnetReplaced(s, w)
    [] kind = "secret"           -> FALSE
    [] kind = "storage_pool"     -> StoragePoolReplaced(s, w)
    [] kind = "ssh_key"          -> SSHKeyReplaced(s, w)
    [] kind = "machine"          -> MachineReplaced(s, w)
    [] kind = "model"            -> ModelReplaced(s, w)
    [] kind = "controller"       -> ControllerReplaced(s, w)
    [] kind = "application"      -> AppReplaced(s, w)

\* The states that ImportState can leave for the object under k.  The other
\* kinds have none, or one that fails.
Importable(k) ==
  CASE kind = "user"            -> {UserImport(k)}
    [] kind = "credential"      -> {CredentialImport(id) : id \in [client : BOOLEAN, controller : BOOLEAN]}
    [] kind = "jaas_controller" -> {JAASControllerImport(k)}
    [] kind = "secret_backend"  -> {SecretBackendImport(k)}
    [] kind = "offer"           -> {OfferImport(k)}
    [] kind = "space"           -> {SpaceImport(k)}
    [] kind = "subnet"          -> {SubnetImport(k)}
    [] kind = "secret"          -> {SecretImport(k, there)}
    [] kind = "storage_pool"    -> {StoragePoolImport(k)}
    [] kind = "machine"         -> {MachineImport(newMachineID(k, n)) : n \in Names}
    [] kind = "model"           -> {ModelImport(k)}
    [] kind = "controller"      -> {ControllerImport(k, there)}
    [] kind = "application"     -> {AppImport(k)}
    [] OTHER                    -> {}

-----------------------------------------------------------------------------
(* What a configuration asks for.                                          *)

\* The keys of the objects that a state is about.
KeysOf(s) ==
  CASE kind = "credential" -> Flagged(s.id)
    [] kind = "machine"    -> {modelMachineIDAndName(s.id).machine}
    [] kind = "controller" -> {s.uuid}
    [] kind \in {"group", "role", "secret", "model"} -> {s.id}
    [] OTHER -> {s.name}

Stated(s) == IF s = None THEN {} ELSE KeysOf(s)

Only(fields, r) == [x \in fields |-> r[x]]
SetIn(w, fields) == {x \in fields : w[x] # None}

\* The object that a configuration is for, as far as the provider sends it.
Asked(w) ==
  CASE kind = "user"             -> Only({"name", "password"}, w)
    [] kind = "credential"       -> Only({"name", "auth"}, w)
    [] kind = "jaas_controller"  -> infoOf(w)
    [] kind = "kubernetes_cloud" -> Only({"name", "config"}, w)
    [] kind = "secret_backend"   -> Only({"name", "content"} \cup SetIn(w, {"interval"}), SecretBackendOf(w))
    [] kind = "offer"            -> Only({"name", "endpoints"}, w)
    [] kind = "secret"           -> [x \in SetIn(w, {"name", "info"}) \cup {"content"}
                                     |-> IF x = "content" THEN resolveSecretValue(w) ELSE w[x]]
    [] kind = "ssh_key"          -> Only({"name"}, w)
    [] kind = "machine"          -> Only({"constraints", "annotations"}, w)
    [] kind = "model"            -> [PlannedModel(None, w) EXCEPT !.backend = IF @ = None THEN "auto" ELSE @]
    [] kind = "controller"       -> Only({"name", "version", "modelconfig"} \cup SetIn(w, {"config"}), w)
    [] kind = "application"      -> AppAsked(w)
    [] OTHER                     -> w

\* The fields of an object in which Read sees a change.
Shown(w) ==
  CASE kind = "credential"      -> {"auth"}
    [] kind \in {"group", "role"} -> {"name"}
    [] kind = "jaas_controller" -> {"ca"}
    [] kind = "cloud"           -> {"storage", "regions"}
    [] kind = "secret_backend"  -> {"name"} \cup SetIn(w, {"interval"})
    [] kind = "offer"           -> {"endpoints"}
    [] kind = "subnet"          -> {"space"}
    [] kind = "secret"          -> SetIn(w, {"name", "info"}) \cup (IF w.value # None THEN {"content"} ELSE {})
    [] kind = "storage_pool"    -> {"provider"} \cup SetIn(w, {"attrs"})
    [] kind = "machine"         -> {"constraints", "annotations"}
    [] kind = "model"           -> {"annotations", "agent", "credential"} \cup SetIn(w, {"config", "constraints", "backend"})
    [] kind = "controller"      -> {"version"} \cup SetIn(w, {"config", "modelconfig"})
    [] kind = "application"     -> {"revision", "config"} \cup SetIn(w, {"resource"})
    [] OTHER                    -> {}

\* The fields whose removal Read does not see.
Lingering == {"attrs", "config", "modelconfig"} \cup (IF kind = "model" THEN {"annotations"} ELSE {})

\* A subnet is always there; the resource has it out of the space "alpha".
Held(obj) == obj # None /\ (kind = "subnet" => obj.space # "alpha")

\* The configuration as Terraform plans it for a resource in state s.
Plan(s, w) ==
  CASE kind = "ssh_key" -> SSHKeyCommentInsensitive(s, w)
    [] kind = "model"   -> PlannedModel(s, w)
    [] OTHER            -> w
AgreesWith(s, w) == \A x \in DOMAIN w : s[x] = w[x]

\* Every "id" is kept by the plan of an update.
Consistent(state) ==
  AgreesWith(state, Plan(tfstate, wanted)) /\ (pc = "update" => state.id = tfstate.id)

-----------------------------------------------------------------------------
(* What somebody else may make of an object.                               *)

Objects ==
  CASE kind = "credential"       -> [name : {"a"}, auth : {1, 2}]
    [] kind = "jaas_controller"  -> [name : Names, ca : {noCertificate, "ca"}]
    [] kind = "kubernetes_cloud" -> [name : Names, config : {1, 2}, storage : {None}, credential : {None, 1}]
    [] kind = "secret_backend"   -> [name : Names, interval : {None, "long"}, content : {1, 2}]
    [] kind = "offer"            -> [name : Names, endpoints : {1, 2}, connected : BOOLEAN]
    [] kind = "space"            -> [name : Names, subnets : SUBSET {1, 2}]
    [] kind = "secret"           -> [name : {None, "a"}, info : {None, 1}, content : {<<"plain", 1>>, <<"plain", 2>>}]
    [] kind = "machine"          -> [name : Keys, constraints : {1, 2}, annotations : {None, 1}]
    [] kind = "model"            -> Models
    [] kind = "application"      -> Apps
    [] kind = "controller"       -> [name : {"a"}, config : {None, 1}, modelconfig : {None, 1},
                                     version : {<<1, 1>>, <<1, 2>>, <<2, 1>>}]
    [] OTHER                     -> Configs

IDKinds == {"group", "role", "secret", "machine", "model", "controller"}

\* The places where an object of somebody else's can be.
Fits(k, obj) ==
  CASE kind = "credential" -> k \in {"client", "controller"}
    [] kind = "machine"    -> k = "outside" /\ obj.name = k
    [] kind \in IDKinds    -> k = "outside" /\ (kind = "controller" \/ obj.name = None \/ HoldersOf(obj.name, there) = {})
    [] OTHER               -> k = obj.name

Init ==
  /\ TerraformInit
  /\ kind \in Kinds
  /\ setting \in [jaas : IF kind = "kubernetes_cloud" THEN BOOLEAN ELSE {FALSE},
                  skip : IF kind \in {"machine", "model", "controller"} THEN BOOLEAN ELSE {FALSE}]
  /\ wanted \in Configs
  /\ there = [k \in Keys |-> IF kind = "subnet" /\ k \in Names THEN [name |-> k, space |-> "alpha"] ELSE None]
  /\ dying = {} /\ calls = <<>>
  /\ mine = {} /\ excused = {} /\ touched = {} /\ last = "no"

\* Nobody else had a hand in what the resource is about, as far as it matters.
Alone == touched \cap {"now", "unseen"} = {}

-----------------------------------------------------------------------------
(* A handler, call by call.                                                *)

\* Terraform plans no creation, nor a replacement, of this configuration.
PlanRefused == wanted # None /\ kind = "model" /\ pc # "update" /\ AgentVersionCreateOnly(wanted)

Begin ==
  /\ calls = <<>> /\ pc \in {"create", "update", "delete"}
  /\ calls' = IF PlanRefused THEN <<fails>>
              ELSE CASE pc = "create" -> Create(wanted)
                     [] pc = "update" -> Update(tfstate, Plan(tfstate, wanted))
                     [] pc = "delete" -> Delete(tfstate)
  /\ touched' = IF pc = "create" THEN touched \ {"unseen"} ELSE touched
  /\ last' = "no"
  /\ UNCHANGED <<wanted, tfstate, tainted, pc, budget, kind, setting, there, dying, mine, excused>>

Changed(before, after) == {k \in Keys : before[k] # after[k]}
HeldOf(keys, at) == {k \in Keys \cap keys : Held(at[k])}

\* The call c is made, and takes effect.
Made(c) ==
  /\ there' = After(c, there)
  /\ dying' = IF c.op \in {"destroy", "doom"} /\ there[c.key] # None THEN dying \cup {c.key} ELSE dying
  /\ mine' = HeldOf(mine \cup Changed(there, there') \cup (IF c.op = "put" THEN {c.key} ELSE {}), there')

\* A wait for an object that is going.
Waits(c) == c.op = "gone" /\ there[c.key] # None /\ c.key \in dying

\* A group or role is renamed and removed by the name that it had when it was
\* read: by now that may be the name of somebody else's.
Mistaken(c) ==
  IF c.op \notin {"rename_named", "remove_named"} \/ Target(c, there) \in Stated(tfstate) THEN {}
  ELSE IF c.op = "remove_named" THEN Stated(tfstate) ELSE {Target(c, there)}

Step ==
  /\ calls # <<>>
  /\ LET c == Head(calls) IN
     /\ c.op # "returns" /\ ~Waits(c) /\ ~Refuses(c, there)
     /\ Made(c)
     /\ excused' = excused \cup Mistaken(c)
     /\ IF c.op = "saves" THEN tfstate' = c.val /\ tainted' = TRUE ELSE UNCHANGED <<tfstate, tainted>>
  /\ calls' = Tail(calls)
  /\ UNCHANGED <<wanted, pc, budget, kind, setting, touched, last>>

\* The kinds whose Create, or for a credential whose Update, makes something by
\* one call, makes others, and sets the state after the last.
Unsaved == {"credential", "kubernetes_cloud", "offer", "space", "subnet", "storage_pool", "model", "controller",
            "application"}

\* The handler gives up, or goes on to report a warning; what it has made is lost
\* from sight if it is not in the state.
Fails(c, lost) ==
  IF c.soft # <<>>
  THEN /\ calls' = <<returns(c.soft[1])>>
       /\ excused' = excused \cup lost
       /\ UNCHANGED <<wanted, tfstate, tainted, pc, touched>>
  ELSE /\ Errored
       /\ calls' = <<>>
       /\ touched' = IF pc = "update" THEN touched \cup {"failed"} ELSE touched
       /\ excused' = excused \cup lost \cup (IF kind \in Unsaved THEN mine' \ Stated(tfstate) ELSE {})

Refused ==
  /\ calls # <<>>
  /\ ~Waits(Head(calls)) /\ Refuses(Head(calls), there)
  /\ UNCHANGED mine
  /\ Fails(Head(calls), {})
  /\ UNCHANGED <<budget, kind, setting, there, dying, last>>

\* A call fails, or a wait times out.
CallFails ==
  /\ calls # <<>>
  /\ Head(calls).op \notin {"saves", "returns", "fails"}
  /\ Spend("faults")
  /\ UNCHANGED mine
  /\ Fails(Head(calls), {})
  /\ UNCHANGED <<kind, setting, there, dying, last>>

\* A call takes effect, but its answer is lost.
AnswerLost ==
  /\ calls # <<>>
  /\ LET c == Head(calls) IN
     /\ c.op \in {"add", "add_named", "put", "set", "move", "rename_named"}
     /\ ~Refuses(c, there)
     /\ Spend("faults")
     /\ Made(c)
     /\ Fails(c, mine' \ mine)
  /\ UNCHANGED <<kind, setting, last>>

\* Create or Update returns.  A result that is not as planned is an error, though
\* the state is set; the object is tainted when it is new.
Returned ==
  /\ calls # <<>> /\ pc \in {"create", "update"}
  /\ LET state == Head(calls).val IN
     /\ Head(calls).op = "returns"
     /\ tfstate' = state
     /\ tainted' = (pc = "create" /\ ~Consistent(state))
     /\ last' = IF ~Consistent(state) \/ ~Alone THEN "no" ELSE IF pc = "create" THEN "created" ELSE "updated"
     /\ excused' = (excused \cup (IF pc = "update" THEN KeysOf(tfstate) ELSE {})) \ KeysOf(state)
  /\ pc' = "idle"
  /\ calls' = <<>>
  /\ touched' = touched \ {"failed"}
  /\ UNCHANGED <<wanted, budget, kind, setting, there, dying, mine>>

\* Delete returns; with a warning the object may still be there.
Deleted ==
  /\ calls # <<>> /\ pc = "delete"
  /\ Head(calls).op = "returns"
  /\ Destroyed
  /\ calls' = <<>>
  /\ excused' = IF setting.skip THEN excused \cup mine ELSE excused
  /\ UNCHANGED <<budget, kind, setting, there, dying, mine, touched, last>>

Read ==
  /\ pc = "read"
  /\ \E state \in ReadOf(tfstate) :
       LET plan == IF wanted = None THEN None ELSE Plan(state, wanted) IN
       /\ Refreshed(state, plan # None /\ state # None /\ AgreesWith(state, plan),
                    plan # None /\ state # None /\ Replaced(state, plan))
       /\ mine' = IF state = None THEN mine ELSE HeldOf(mine \cup KeysOf(state), there)
       /\ excused' = IF state = None THEN excused ELSE excused \ KeysOf(state)
  /\ touched' = touched \ {"since"}
  /\ UNCHANGED <<kind, setting, there, dying, calls, last>>

ReadFails ==
  /\ pc = "read"
  /\ IF ReadOf(tfstate) = {} THEN UNCHANGED budget ELSE Spend("faults")
  /\ Errored
  /\ UNCHANGED <<kind, setting, there, dying, calls, mine, excused, touched, last>>

-----------------------------------------------------------------------------
(* What happens around the handlers.                                       *)

\* An object goes that was told to.
Vanish ==
  \E k \in dying :
    /\ there' = [there EXCEPT ![k] = None]
    /\ dying' = dying \ {k}
    /\ mine' = mine \ {k}
    /\ touched' = touched \cup {"now", "unseen"}
    /\ last' = "no"
    /\ UNCHANGED <<wanted, tfstate, tainted, pc, budget, kind, setting, calls, excused>>

\* Read notices that before became after.
Hidden(x, value) == x \in Lingering /\ (value = None \/ (tfstate # None /\ tfstate[x] = None))
Seen(before, after) ==
  /\ before # None /\ after # None /\ wanted # None
  /\ \A x \in DOMAIN after : after[x] # before[x] => (x \in Shown(wanted) /\ ~Hidden(x, after[x]))

\* The fields that change with x: a charm's revision has its endpoints and options.
With(x) == IF x = "revision" THEN {"revision", "new", "config"} ELSE {x}

\* Somebody makes an object, removes one, or changes a field of one.
OutsideChange ==
  /\ Spend("changes")
  /\ \E k \in Keys \ dying, obj \in Objects \cup {None} :
       /\ obj # there[k]
       /\ (obj # None /\ there[k] = None) => Fits(k, obj)
       /\ (obj # None /\ there[k] # None) =>
            \E x \in DOMAIN obj : /\ Without(obj, With(x)) = Without(there[k], With(x))
                                  /\ x = "name" => (kind \in {"group", "role", "secret"} /\ HoldersOf(obj.name, there) = {})
       /\ there' = [there EXCEPT ![k] = obj]
       /\ mine' = {j \in mine : Held(there'[j]) /\ (j = k => there[k] # None)}
       /\ touched' = touched \cup {"since"} \cup (IF pc = "idle" THEN {} ELSE {"now"})
                             \cup (IF Seen(there[k], obj) THEN {} ELSE {"unseen"})
  /\ last' = "no"
  /\ UNCHANGED <<wanted, tfstate, tainted, pc, kind, setting, dying, calls, excused>>

Import ==
  /\ pc = "idle" /\ tfstate = None /\ wanted # None
  /\ Spend("changes")
  /\ \E k \in Keys \ dying :
       /\ there[k] # None
       /\ \E s \in Importable(k) : \E state \in ReadOf(s) \ {None} :
            /\ tfstate' = state
            /\ mine' = HeldOf(mine \cup KeysOf(state), there)
            /\ excused' = excused \ KeysOf(state)
  /\ last' = "no"
  /\ touched' = touched \cup {"unseen"}
  /\ UNCHANGED <<wanted, tainted, pc, kind, setting, there, dying, calls>>

EditConfig ==
  /\ Edit(Configs)
  /\ last' = "no"
  /\ touched' = IF touched \cap {"failed", "since"} # {} THEN {"unseen"} ELSE touched
  /\ UNCHANGED <<kind, setting, there, dying, calls, mine, excused>>

Start ==
  /\ BeginApply
  /\ touched' = touched \ {"now"}
  /\ UNCHANGED <<kind, setting, there, dying, calls, mine, excused, last>>

ApplyStep ==
  \/ Start \/ Read \/ ReadFails
  \/ Begin \/ Step \/ Refused \/ CallFails \/ AnswerLost \/ Returned \/ Deleted

Next == ApplyStep \/ Vanish \/ OutsideChange \/ Import \/ EditConfig

Spec == Init /\ [][Next]_vars /\ WF_vars(ApplyStep) /\ WF_vars(Vanish)

-----------------------------------------------------------------------------
(* Properties.                                                             *)

\* Types; the calls of a handler end with its result, and a resource is tainted
\* only when it is in the state.
TypeOK ==
  /\ wanted \in Configs \cup {None}
  /\ tfstate # None => ("id" \in DOMAIN tfstate /\ KeysOf(tfstate) \subseteq Keys)
  /\ tainted => tfstate # None
  /\ DOMAIN there = Keys
  /\ dying \subseteq {k \in Keys : there[k] # None}
  /\ calls # <<>> => (pc \in {"create", "update", "delete"} /\ calls[Len(calls)].op \in {"returns", "fails"})
  /\ mine = HeldOf(mine, there)

\* An object that the resource made, read or imported is in its state, or going,
\* but for those it lost sight of: made by a handler that failed later and had not
\* saved the state, by a call whose answer was lost, left where a credential is
\* not wanted any more, by a deletion that was skipped, or by a call that named a
\* group or role whose name had become another one's.
OrphansExplained ==
  pc = "idle" =>
    mine \subseteq dying \cup excused \cup Stated(tfstate)

\* A call changes no object that the resource has not made, read or imported, as
\* long as nobody comes between, be its answer lost or not.  A credential and an
\* offer are put in the place of what is there.
OthersUntouched ==
  [][(calls' # calls /\ Alone /\ kind \notin {"credential", "offer"})
     => HeldOf(Changed(there, there'), there) \subseteq mine]_vars

\* What Create and Update report done, the controller has: also after an Update
\* that failed, unless the configuration was edited before the next one.  Of a
\* controller's version it says that the upgrade has been asked for, no more.
SuccessIsTrue ==
  last # "no" => \A k \in KeysOf(tfstate) : Has(there[k], Asked(wanted))

\* An apply that has succeeded leaves nothing to apply, but for a display name
\* that is not sent, an interval that is printed otherwise or never unset, an
\* agent version that could not be read, and an endpoint that came with the charm
\* in the old default space.
Unapplied ==
  CASE kind = "user"           -> there[wanted.name].display # wanted.display
    [] kind = "secret_backend" -> there[wanted.name].interval # wanted.interval
    [] kind = "model"          -> tfstate.agent = None
    [] kind = "application"    -> LET app == there[wanted.name] IN
                                  app.new \notin {None, app.default, BoundIn(wanted.bindings, "new", None)}
    [] OTHER                   -> FALSE
AppliedIsStable ==
  (last # "no" /\ ~Unapplied)
     => ReadOf(tfstate) = {tfstate} /\ AgreesWith(tfstate, Plan(tfstate, wanted))

\* Create and Update return what was planned (Terraform makes an error of anything
\* else), but where they cannot: a user's display name alone changes, a credential
\* is wanted in other places, a JAAS controller has no certificate of its own, a
\* secret backend or a machine is renamed, a machine is to be waited for otherwise,
\* a model's secret backend could not be set.
PlannedOtherwise ==
  CASE kind = "user"            -> pc = "update" /\ wanted.password = tfstate.password
    [] kind = "credential"      -> pc = "update" /\ newCredentialID(wanted) # tfstate.id
    [] kind = "jaas_controller" -> wanted.ca = None
    [] kind = "secret_backend"  -> pc = "update" /\ wanted.name # tfstate.name
    [] kind = "machine"         -> pc = "update" /\ (wanted.name # tfstate.name \/ wanted.hostname # tfstate.hostname)
    [] kind = "model"           -> pc = "create" /\ Head(calls).val.backend # wanted.backend
    [] OTHER                    -> FALSE
ResultsAreAsPlanned ==
  (calls # <<>> /\ pc \in {"create", "update"} /\ Head(calls).op = "returns" /\ ~PlannedOtherwise)
     => Consistent(Head(calls).val)

\* Applies cannot get there, whatever the kind: Read fails for ever on an object
\* that is not there, or a name that is wanted is taken.
Blocked ==
  \/ tfstate # None /\ ReadOf(tfstate) = {}
  \/ /\ wanted # None /\ kind \notin {"credential", "offer", "machine", "controller"}
     /\ \E k \in HoldersOf(wanted.name, there) : Held(there[k]) /\ k \notin Stated(tfstate)

\* They cannot for a new configuration of this kind: a display name is not sent, a
\* credential is to be nowhere, a JAAS controller has no certificate of its own or
\* is not updated, a kubernetes cloud is not with JAAS, an interval is printed
\* otherwise or not unset, a subnet is missing, a machine is not waited for again,
\* a model is to be made with an agent version or to have another credential, an
\* endpoint is to be unbound that went with the charm's revision.
Rejected(w) ==
  CASE kind = "user"             -> tfstate # None /\ w.display # tfstate.display
    [] kind = "credential"       -> Flagged(w) = {}
    [] kind = "jaas_controller"  -> w.ca = None \/ (tfstate # None /\ w.force # tfstate.force)
    [] kind = "kubernetes_cloud" -> setting.jaas /\ tfstate # None
    [] kind = "secret_backend"   -> tfstate # None /\ there[tfstate.name] # None /\ there[tfstate.name].interval # w.interval
    [] kind = "subnet"           -> there[w.name] = None
    [] kind = "machine"          -> tfstate # None /\ w.hostname # tfstate.hostname
    [] kind = "model"            -> IF tfstate = None \/ tainted THEN AgentVersionCreateOnly(w)
                                    ELSE w.credential \notin {None, tfstate.credential}
    [] kind = "application"      -> tfstate # None /\ there[w.name] # None /\ UnbindsNothing(tfstate, w, there[w.name])
    [] OTHER                     -> FALSE

\* They cannot get rid of what is there: a credential is missing in a place, an
\* offer has connections, the juju binary is not of the controller's series.
Retained(s) ==
  CASE kind = "credential" -> \E k \in Flagged(s.id) : there[k] = None
    [] kind = "offer"      -> s.force # TRUE /\ there[s.id] # None /\ there[s.id].connected
    [] kind = "controller" -> ~checkVersionsMatch(s.binary, s.version)
    [] OTHER               -> FALSE

Stuck == Blocked \/ (wanted # None /\ Rejected(wanted)) \/ (tfstate # None /\ Retained(tfstate))

\* Configuration, controller and calls left alone, applies lead to what is
\* configured, as far as Read sees it, or end where only somebody else can help.
Same(x, v, v2) == v = v2 \/ (x = "regions" /\ ToSet(v) = ToSet(v2)) \/ (x \in Lingering /\ v = None)
Settled ==
  IF wanted = None THEN tfstate = None
  ELSE /\ tfstate # None /\ AgreesWith(tfstate, Plan(tfstate, wanted))
       /\ \A k \in KeysOf(tfstate) :
            there[k] # None /\ \A x \in Shown(wanted) \cap DOMAIN Asked(wanted) : Same(x, there[k][x], Asked(wanted)[x])
Settles == <>[](Settled \/ Stuck)
=============================================================================
