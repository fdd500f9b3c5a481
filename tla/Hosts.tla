-------------------------------- MODULE Hosts --------------------------------
(***************************************************************************)
(* What applications run on: juju_machine, juju_model and juju_controller. *)
(* For each, the calls of its client, and its handlers as the calls they   *)
(* make or the states that Read can return: {} is an error, {None} takes   *)
(* the resource from the state.  With `skip`, the provider is told to      *)
(* report a deletion that fails as a warning.                              *)
(***************************************************************************)
EXTENDS Calls

\* A call of Delete whose failure is a warning when `skip`.
skippable(c, skip) == IF skip THEN soft(c, None) ELSE c

SetAnnotations(key, annotations) == set(key, [annotations |-> annotations])

-----------------------------------------------------------------------------
(* juju_machine.  Its name is only in the state, as a part of the ID.      *)

MachineConfigs == [name : Names, constraints : {1, 2}, annotations : {None, 1}, hostname : BOOLEAN]
MachineReplaced(s, w) == s.constraints # w.constraints

newMachineID(key, name) == <<key, name>>
modelMachineIDAndName(id) == [machine |-> id[1], name |-> id[2]]

CreateMachine(key, w) == add(key, [name |-> key, constraints |-> w.constraints, annotations |-> None])
ReadMachine(key, at) == at[key]
DestroyMachine(key) == doom(key)
waitForMachine(key) == see(key, [name |-> key])

updateAnnotations(key, old, new) == IF old = new THEN <<>> ELSE <<SetAnnotations(key, new)>>

\* Mutant: the state is set only when the machine runs.
MachineCreateUnsaved(w, at) ==
  LET key == FreshID(at) IN
  <<CreateMachine(key, w)>> \o updateAnnotations(key, None, w.annotations)
    \o <<waitForMachine(key), returns(StateOf(newMachineID(key, w.name), w))>>

MachineCreate(w, at) ==
  LET key   == FreshID(at)
      state == StateOf(newMachineID(key, w.name), w)
  IN  <<CreateMachine(key, w), saves(state)>> \o updateAnnotations(key, None, w.annotations)
        \o <<waitForMachine(key), returns(state)>>

MachineRead(s, at) ==
  LET machine == ReadMachine(modelMachineIDAndName(s.id).machine, at) IN
  IF machine = None THEN {}
  ELSE {[s EXCEPT !.name = modelMachineIDAndName(s.id).name,
                  !.constraints = machine.constraints, !.annotations = machine.annotations]}

\* Whether to wait for the host's name stays as the state has it.
MachineUpdate(s, w) ==
  LET key == modelMachineIDAndName(s.id).machine IN
  updateAnnotations(key, s.annotations, w.annotations)
    \o <<returns([s EXCEPT !.name = w.name, !.annotations = w.annotations, !.id = newMachineID(key, w.name)])>>

\* After its units, the machine is destroyed twice.
MachineDelete(s, skip) ==
  LET key == modelMachineIDAndName(s.id).machine IN
  <<DestroyMachine(key), DestroyMachine(key), skippable(gone(key), skip), returns(None)>>
MachineImport(id) == [id |-> id, name |-> None, constraints |-> None, annotations |-> None, hostname |-> None]

-----------------------------------------------------------------------------
(* juju_model.  The secret backend of a model is "auto" unless it is set;  *)
(* constraints that are read may be empty, 0.  A new model has the agent   *)
(* version of the controller, 2; one that is upgraded was imported.  The   *)
(* credential it gets when none is configured is 1.                        *)

ModelConfigs ==
  {w \in [name : {"a"}, config : {None, 1}, constraints : {None, 1},
          annotations : {None, 1}, backend : {None, "b"}, agent : {None, 2}, credential : {None, 2}] :
     Cardinality({x \in {"agent", "credential"} : w[x] # None}
                 \cup (IF w.annotations # None \/ w.backend # None \/ w.constraints # None THEN {"others"} ELSE {})) <= 1}
Models ==
  {m \in [name : {"a"}, config : {None, 1}, constraints : {None, 1},
          annotations : {None, 1}, backend : {"auto", "b"}, agent : {1, 2}, credential : {1, 2}] :
     m.agent = 1 \/ m.credential = 2 =>
       m.annotations = None /\ m.backend = "auto" /\ m.constraints = None /\ (m.agent = 1 => m.credential = 1)}
ModelReplaced(s, w) == s.name # w.name

\* An agent version and a credential that are not configured stay what they are; a
\* new model has those it is given.
PlannedModel(s, w) ==
  LET computed == {x \in {"agent", "credential"} : w[x] = None} IN
  IF s = None THEN Without(w, computed) ELSE [x \in DOMAIN w |-> IF x \in computed THEN s[x] ELSE w[x]]

\* With an agent version, a model is not planned to be made.
AgentVersionCreateOnly(w) == w.agent # None

SetModelConstraints(key, constraints) == set(key, [constraints |-> constraints])
SetModelSecretBackend(key, backend) == set(key, [backend |-> IF backend = None THEN "auto" ELSE backend])
UpgradeModel(key, version) == set(key, [agent |-> version])

credentialOf(w) == IF w.credential = None THEN 1 ELSE w.credential
AddModel(key, w) ==
  addNamed(key, [name |-> w.name, config |-> w.config, constraints |-> None, annotations |-> None,
                 backend |-> "auto", agent |-> 2, credential |-> credentialOf(w)])

\* Mutant: constraints are left to an Update.
CreateModelUnconstrained(key, w) == <<AddModel(key, w)>>

CreateModel(key, w) ==
  <<AddModel(key, w)>>
    \o (IF w.constraints = None THEN <<>> ELSE <<SetModelConstraints(key, w.constraints)>>)
ReadModel(key, at) == at[key]

\* The model of the connection it is given, to the controller, which has none.
ChangeModelCredential == fails

\* Keys of the configuration are set and unset, then the constraints are set,
\* changed or not, then the credential is changed.
UpdateModel(s, w) ==
  IF \A x \in {"config", "constraints", "credential"} : s[x] = w[x] THEN <<>>
  ELSE (IF s.config = w.config THEN <<>> ELSE <<set(s.id, [config |-> w.config])>>)
       \o <<SetModelConstraints(s.id, w.constraints)>>
       \o (IF s.credential = w.credential THEN <<>> ELSE <<ChangeModelCredential>>)

\* That the secret backend cannot be set, or the version not be read, is a
\* warning, and left out of the state.
ModelCreate(w, at) ==
  LET key   == FreshID(at)
      state == [StateOf(key, w) EXCEPT !.agent = 2, !.credential = credentialOf(w)]
  IN  CreateModel(key, w) \o updateAnnotations(key, None, w.annotations)
        \o (IF w.backend = None THEN <<>>
            ELSE <<soft(SetModelSecretBackend(key, w.backend), [state EXCEPT !.backend = None])>>)
        \o <<soft(see(key, [name |-> w.name]), [state EXCEPT !.agent = None]), returns(state)>>

newConfigFromModelConfigAPI(api, state) == IF state = None \/ api = None THEN state ELSE api

\* Configuration, constraints and secret backend are read when the state has
\* some; annotations when the model has some.
ModelRead(s, at) ==
  LET model == ReadModel(s.id, at)
      imported == s.name = None
      constraints == IF model.constraints = None THEN 0 ELSE model.constraints
  IN
  IF model = None THEN {None}
  ELSE {[s EXCEPT !.name = model.name,
                  !.config = newConfigFromModelConfigAPI(model.config, @),
                  !.constraints = IF @ # None \/ (imported /\ model.constraints # None) THEN constraints ELSE None,
                  !.annotations = IF model.annotations = None THEN @ ELSE model.annotations,
                  !.backend = IF @ = None THEN None ELSE model.backend,
                  !.agent = model.agent, !.credential = model.credential]}

ModelUpdate(s, w) ==
  updateAnnotations(s.id, s.annotations, w.annotations) \o UpdateModel(s, w)
    \o (IF s.backend = w.backend THEN <<>> ELSE <<SetModelSecretBackend(s.id, w.backend)>>)
    \o (IF s.agent = w.agent THEN <<>> ELSE <<UpgradeModel(s.id, w.agent)>>)
    \o <<returns(StateOf(s.id, w))>>

ModelDelete(s, skip) == <<destroy(s.id), skippable(gone(s.id), skip), returns(None)>>
ModelImport(key) ==
  [id |-> key, name |-> None, config |-> None, constraints |-> None, annotations |-> None, backend |-> None,
   agent |-> None, credential |-> None]

-----------------------------------------------------------------------------
(* juju_controller.  It is made and destroyed by a juju binary with a      *)
(* client store of its own, and reached by the addresses in the state,     *)
(* `uuid` here.  A version is a minor and a patch number.                  *)

ControllerConfigs ==
  {w \in [name : {"a"}, config : {None, 1}, modelconfig : {None, 1},
          version : {<<1, 1>>, <<1, 2>>, <<2, 1>>}, binary : {1, 2}] : w.binary = w.version[1]}

controllerAgentVersionSeriesChanged(old, new) == old[1] # new[1] \/ old[2] >= new[2]
ControllerReplaced(s, w) ==
  \/ s.name # w.name
  \/ s.version # w.version /\ controllerAgentVersionSeriesChanged(s.version, w.version)

Bootstrap(key, w) ==
  add(key, [name |-> w.name, config |-> w.config, modelconfig |-> w.modelconfig, version |-> w.version])
ReadConnectionInfo(key) == see(key, [x \in {} |-> x])
Config(key, at) == at[key]

StateWith(id, uuid, w) == [x \in DOMAIN w \cup {"id", "uuid"} |-> IF x = "uuid" THEN uuid ELSE StateOf(id, w)[x]]

ControllerCreate(w, at) ==
  LET key == FreshID(at) IN
  <<Bootstrap(key, w), ReadConnectionInfo(key), returns(StateWith(w.name, key, w))>>

ControllerRead(s, at) ==
  LET c == Config(s.uuid, at) IN
  IF c = None THEN {}
  ELSE {[s EXCEPT !.version = c.version,
                  !.config = newConfigFromModelConfigAPI(c.config, @),
                  !.modelconfig = newConfigFromModelConfigAPI(c.modelconfig, @)]}

\* A key of the controller's configuration cannot be unset: it stays, with a warning.
UpdateConfig(s, w) ==
  (IF w.config \in {None, s.config} THEN <<>> ELSE <<set(s.uuid, [config |-> w.config])>>)
    \o (IF s.modelconfig = w.modelconfig THEN <<>> ELSE <<set(s.uuid, [modelconfig |-> w.modelconfig])>>)
\* Update returns when the upgrade has been started, not when it is done
\* (resource_controller.go:1104).  "version" is the one of the controller's model
\* configuration, which Read reads (controllers.go:430), and which is taken to be the
\* one asked for from then on.
UpgradeController(s, w) == IF s.version = w.version THEN <<>> ELSE <<set(s.uuid, [version |-> w.version])>>
ControllerUpdate(s, w) ==
  UpdateConfig(s, w) \o UpgradeController(s, w) \o <<returns(StateWith(s.id, s.uuid, w))>>

\* The binary must be of the controller's series.
checkVersionsMatch(binary, version) == binary = version[1]
ControllerDelete(s, skip) ==
  <<skippable(IF checkVersionsMatch(s.binary, s.version) THEN remove(s.uuid) ELSE fails, skip), returns(None)>>

ControllerImport(key, at) ==
  [id |-> at[key].name, name |-> at[key].name, config |-> None,
   modelconfig |-> None, version |-> None, binary |-> None, uuid |-> key]
=============================================================================
