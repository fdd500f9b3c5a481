---------------------------- MODULE Application ----------------------------
(***************************************************************************)
(* One juju_application over many terraform applies: its creation, which   *)
(* may succeed in part, the number of its units or the machines they are   *)
(* on, and its removal.  Units come and go on the controller while the     *)
(* handlers read, call and wait.  Terraform, operators and the controller  *)
(* are external.                                                           *)
(***************************************************************************)
EXTENDS Naturals, FiniteSets, FiniteSetsExt, Functions

CONSTANTS
  Units,       \* the names of units
  Machines,    \* the machines a configuration may name
  MaxUnits,    \* bound on the units a configuration may ask for
  Setups,      \* the settings to check, see Setup
  MaxChanges,  \* bound on the edits of the configuration and the operators' changes
  MaxFaults,   \* bound on the calls that fail and the answers that are lost
  None

\* Whether the configuration names machines, or a number of units; the type of the
\* model; whether the charm is a file of the user's; the provider's
\* skip_failed_deletion.
Setup == [byMachine : BOOLEAN, modelType : {"iaas", "caas"},
          localCharm : BOOLEAN, skipFailedDeletion : BOOLEAN]

States == [units : Nat, machines : SUBSET Machines, tainted : BOOLEAN]

ASSUME ApplicationAssumption ==
  /\ MaxUnits \in Nat /\ MaxChanges \in Nat /\ MaxFaults \in Nat
  /\ IsFiniteSet(Units) /\ IsFiniteSet(Machines)
  /\ Setups \subseteq Setup /\ Setups # {}
  /\ \A s \in Setups : s.byMachine => s.modelType = "iaas"
  /\ None \notin Machines \cup Units
  /\ None \notin States \cup [units : Nat, machines : SUBSET Machines]

VARIABLES
  app,        \* the controller: "none", "alive" or "dying"
  life,       \* the controller: each unit is "none", "alive" or "dying"
  machineOf,  \* the controller: the machine a unit was placed on
  setup,      \* the settings of this behaviour, see Setup
  wanted,     \* the configuration: a target, or None without the resource
  tfstate,    \* the state: [units, machines, tainted], or None
  pc,         \* "idle", or where the running apply is
  snapshot,   \* UpdateApplication: the units of the status it began with, and
              \* the machine of each
  unnamed,    \* history: why the controller's application is not in the state
  budget      \* changes and faults left

world  == <<app, life, machineOf>>
config == <<setup, wanted>>
vars   == <<app, life, machineOf, setup, wanted, tfstate, pc, snapshot, unnamed, budget>>

\* The unit count of a configuration that names machines is their number
\* (UnitCountModifier).
ByMachine == setup.byMachine
Targets ==
  IF ByMachine
  THEN {[units |-> Cardinality(S), machines |-> S] : S \in SUBSET Machines \ {{}}}
  ELSE {[units |-> n, machines |-> {}] : n \in 0..MaxUnits}

Present == {u \in Units : life[u] # "none"}
Alive   == {u \in Units : life[u] = "alive"}

MachinesOf(units) == {machineOf[u] : u \in units} \ {None}
NoUnits == [u \in {} |-> None]

Spend(what) == budget[what] > 0 /\ budget' = [budget EXCEPT ![what] = @ - 1]
Goto(label) == pc' = label

Init ==
  /\ app = "none"
  /\ life = [u \in Units |-> "none"]
  /\ machineOf = [u \in Units |-> None]
  /\ setup \in Setups
  /\ wanted \in Targets
  /\ tfstate = None
  /\ pc = "idle"
  /\ snapshot = NoUnits
  /\ unnamed = "no"
  /\ budget = [changes |-> MaxChanges, faults |-> MaxFaults]

-----------------------------------------------------------------------------
\* AddUnits with a placement for each machine, or for a number of units.  A unit
\* number is not used again; here it may be, once no status names it.
Unused == Units \ (Present \cup DOMAIN snapshot)

AddUnitsOn(machines) ==
  \E S \in SUBSET Unused :
    /\ Cardinality(S) = Cardinality(machines)
    /\ \E on \in [S -> machines] :
         /\ \A m \in machines : \E u \in S : on[u] = m
         /\ life' = [u \in Units |-> IF u \in S THEN "alive" ELSE life[u]]
         /\ machineOf' = [u \in Units |-> IF u \in S THEN on[u] ELSE machineOf[u]]

AddUnits(n) ==
  \E S \in kSubset(n, Unused) :
    /\ life' = [u \in Units |-> IF u \in S THEN "alive" ELSE life[u]]
    /\ UNCHANGED machineOf

\* DestroyUnits: units that are dying already, or gone, are left as they are.
DestroyUnits(units) ==
  /\ life' = [u \in Units |-> IF u \in units /\ life[u] = "alive" THEN "dying" ELSE life[u]]
  /\ UNCHANGED machineOf

\* What ReadApplication makes of the status: dying units count.  Read keeps the
\* machines of the state when the answer has none.
Recorded(machines, tainted) ==
  [units |-> Cardinality(Present), machines |-> machines, tainted |-> tainted]
ReadInto(state) ==
  Recorded(IF MachinesOf(Present) = {} THEN state.machines ELSE MachinesOf(Present), state.tainted)

AsPlanned(state) == state.units = wanted.units /\ (ByMachine => state.machines = wanted.machines)

\* What Terraform plans for a resource of the state.
PlanFor(state) ==
  IF wanted = None \/ state.tainted THEN "delete"
  ELSE IF AsPlanned(state) THEN "idle" ELSE "update"

-----------------------------------------------------------------------------
\* terraform apply with nothing in the state.
BeginCreate ==
  /\ pc = "idle" /\ tfstate = None /\ wanted # None
  /\ Goto("create")
  /\ UNCHANGED <<world, config, tfstate, snapshot, unnamed, budget>>

\* Read finds the application, and Terraform plans.
Refresh ==
  /\ pc = "idle" /\ tfstate # None
  /\ app # "none"
  /\ tfstate' = ReadInto(tfstate)
  /\ Goto(PlanFor(tfstate'))
  /\ UNCHANGED <<world, config, snapshot, unnamed, budget>>

\* handleApplicationNotFoundError: the resource leaves the state.
RefreshNotFound ==
  /\ pc = "idle" /\ tfstate # None
  /\ app = "none"
  /\ tfstate' = None
  /\ UNCHANGED <<world, config, pc, snapshot, unnamed, budget>>

\* The same, after a per-item error of ApplicationsInfo.
RefreshItemError ==
  /\ pc = "idle" /\ tfstate # None
  /\ app # "none"
  /\ tfstate' = None
  /\ unnamed' = "itemError"
  /\ Spend("faults")
  /\ UNCHANGED <<world, config, pc, snapshot>>

\* terraform import: ImportState, then Read.
Import ==
  /\ pc = "idle" /\ tfstate = None /\ wanted # None
  /\ app # "none"
  /\ tfstate' = Recorded(MachinesOf(Present), FALSE)
  /\ unnamed' = "no"
  /\ UNCHANGED <<world, config, pc, snapshot, budget>>

\* Any call of a handler fails before it has an effect: the state stays.
CallFails ==
  /\ pc \in {"create", "update", "resize", "remove"}
  /\ Spend("faults")
  /\ Goto("idle")
  /\ snapshot' = NoUnits
  /\ UNCHANGED <<world, config, tfstate, unnamed>>

-----------------------------------------------------------------------------
Taint == tfstate' = [units |-> wanted.units, machines |-> wanted.machines, tainted |-> TRUE]

\* deployFromPath: addPendingResources fails, before Deploy, with an
\* ApplicationPartiallyCreatedError.
RegisterFails ==
  /\ setup.localCharm
  /\ pc = "create"
  /\ Taint
  /\ Spend("faults")
  /\ Goto("idle")
  /\ UNCHANGED <<world, config, snapshot, unnamed>>

\* DeployFromRepository or Deploy: the application and its units are there.
Deployed ==
  /\ pc = "create"
  /\ app = "none"
  /\ app' = "alive"
  /\ IF ByMachine THEN AddUnitsOn(wanted.machines) ELSE AddUnits(wanted.units)

Deploy ==
  /\ Deployed
  /\ Goto("followUp")
  /\ UNCHANGED <<config, tfstate, snapshot, unnamed, budget>>

\* The answer is lost, or terraform is killed before Create returns: no state.
DeployAnswerLost ==
  /\ Deployed
  /\ Spend("faults")
  /\ unnamed' = "answerLost"
  /\ Goto("idle")
  /\ UNCHANGED <<config, tfstate, snapshot>>

\* The application exists.
DeployRefused ==
  /\ pc = "create"
  /\ app # "none"
  /\ Goto("idle")
  /\ UNCHANGED <<world, config, tfstate, snapshot, unnamed, budget>>

\* The resources are uploaded, the application exposed, the model's type known.
FollowUp ==
  /\ pc = "followUp"
  /\ Goto("createWait")
  /\ UNCHANGED <<world, config, tfstate, snapshot, unnamed, budget>>

\* Mutant: the error is one like any other.
FollowUpFailsUnrecorded ==
  /\ pc = "followUp"
  /\ Spend("faults")
  /\ Goto("idle")
  /\ UNCHANGED <<world, config, tfstate, snapshot, unnamed>>

\* One of the three fails: the application is recorded, and tainted.
FollowUpFails ==
  /\ pc = "followUp"
  /\ Taint
  /\ Spend("faults")
  /\ Goto("idle")
  /\ UNCHANGED <<world, config, snapshot, unnamed>>

\* The wait of Create: the units are there, each on a machine of its own.
\* Terraform taints what was not created as planned.
CreateSeen ==
  /\ app # "none"
  /\ Cardinality(Present) = wanted.units
  /\ ByMachine => Cardinality(MachinesOf(Present)) = Cardinality(Present)

Created ==
  /\ pc = "createWait"
  /\ CreateSeen
  /\ tfstate' = Recorded(MachinesOf(Present), ByMachine /\ MachinesOf(Present) # wanted.machines)
  /\ Goto("idle")
  /\ UNCHANGED <<world, config, snapshot, unnamed, budget>>

\* A wait gives up when it does not see what it waits for; when it would, only an
\* error it does not retry ends it otherwise.
WaitFails(seen) == IF seen THEN Spend("faults") ELSE UNCHANGED budget

\* Create returns no state.
CreateWaitFails ==
  /\ pc = "createWait"
  /\ WaitFails(CreateSeen)
  /\ unnamed' = "createWait"
  /\ Goto("idle")
  /\ UNCHANGED <<world, config, tfstate, snapshot>>

-----------------------------------------------------------------------------
\* UpdateApplication: the status is read before anything is changed.
ReadStatus ==
  /\ pc = "update"
  /\ app # "none"
  /\ snapshot' = [u \in Present |-> machineOf[u]]
  /\ Goto("resize")
  /\ UNCHANGED <<world, config, tfstate, unnamed, budget>>

UpdateNotFound ==
  /\ pc = "update" /\ app = "none"
  /\ Goto("idle")
  /\ UNCHANGED <<world, config, tfstate, snapshot, unnamed, budget>>

\* Mutant: the units that are left to remove are counted as missing.
ResizeFromState ==
  /\ pc = "resize" /\ ~ByMachine /\ setup.modelType = "iaas"
  /\ app = "alive"
  /\ IF wanted.units >= Cardinality(DOMAIN snapshot)
     THEN AddUnits(wanted.units)
     ELSE \E S \in kSubset(Cardinality(DOMAIN snapshot) - wanted.units, DOMAIN snapshot) : DestroyUnits(S)
  /\ snapshot' = NoUnits
  /\ Goto("wait")
  /\ UNCHANGED <<app, config, tfstate, unnamed, budget>>

\* The difference between the plan and the units of the status, dying ones
\* included; the units destroyed are the first of a map.
Resize ==
  /\ pc = "resize" /\ ~ByMachine /\ setup.modelType = "iaas"
  /\ app = "alive"
  /\ IF wanted.units >= Cardinality(DOMAIN snapshot)
     THEN AddUnits(wanted.units - Cardinality(DOMAIN snapshot))
     ELSE \E S \in kSubset(Cardinality(DOMAIN snapshot) - wanted.units, DOMAIN snapshot) : DestroyUnits(S)
  /\ snapshot' = NoUnits
  /\ Goto("wait")
  /\ UNCHANGED <<app, config, tfstate, unnamed, budget>>

\* ScaleApplication: the controller brings the units to that number.
Scale ==
  /\ pc = "resize" /\ setup.modelType = "caas"
  /\ app = "alive"
  /\ IF wanted.units >= Cardinality(Alive)
     THEN AddUnits(wanted.units - Cardinality(Alive))
     ELSE \E S \in kSubset(Cardinality(Alive) - wanted.units, Alive) : DestroyUnits(S)
  /\ snapshot' = NoUnits
  /\ Goto("wait")
  /\ UNCHANGED <<app, config, tfstate, unnamed, budget>>

\* addUnits: the machines of the plan that the state does not have.
addUnits ==
  /\ pc = "resize" /\ ByMachine
  /\ app = "alive"
  /\ AddUnitsOn(wanted.machines \ tfstate.machines)
  /\ Goto("remove")
  /\ UNCHANGED <<app, config, tfstate, snapshot, unnamed, budget>>

RemovedMachines == (tfstate.machines \ wanted.machines) \cap Range(snapshot)

\* Mutant: as many units as machines were taken out, whatever they are on.
removeAnyUnits ==
  /\ pc = "remove"
  /\ \E S \in kSubset(Cardinality(RemovedMachines), DOMAIN snapshot) : DestroyUnits(S)
  /\ snapshot' = NoUnits
  /\ Goto("wait")
  /\ UNCHANGED <<app, config, tfstate, unnamed, budget>>

\* removeUnits: the map from machines to units holds one unit of each machine.
removeUnits ==
  /\ pc = "remove"
  /\ \E unitOn \in [RemovedMachines -> DOMAIN snapshot] :
       /\ \A m \in RemovedMachines : snapshot[unitOn[m]] = m
       /\ DestroyUnits(Range(unitOn))
  /\ snapshot' = NoUnits
  /\ Goto("wait")
  /\ UNCHANGED <<app, config, tfstate, unnamed, budget>>

\* The application is dying: the controller refuses.
ResizeRefused ==
  /\ pc = "resize" /\ app # "alive"
  /\ snapshot' = NoUnits
  /\ Goto("idle")
  /\ UNCHANGED <<world, config, tfstate, unnamed, budget>>

\* assertEqualsUnitCount when the count was to change, assertEqualsMachines when
\* the machines were.
UpdateSeen ==
  /\ app # "none"
  /\ IF ByMachine
     THEN tfstate.machines # wanted.machines => MachinesOf(Present) = wanted.machines
     ELSE Cardinality(Present) = wanted.units

\* The plan is the new state, with the machines of the answer; Terraform keeps
\* it when they are not those of the plan, too.
Updated ==
  /\ pc = "wait"
  /\ UpdateSeen
  /\ tfstate' = [units |-> wanted.units, machines |-> MachinesOf(Present), tainted |-> FALSE]
  /\ Goto("idle")
  /\ UNCHANGED <<world, config, snapshot, unnamed, budget>>

UpdateWaitFails ==
  /\ pc = "wait"
  /\ WaitFails(UpdateSeen)
  /\ Goto("idle")
  /\ UNCHANGED <<world, config, tfstate, snapshot, unnamed>>

-----------------------------------------------------------------------------
\* Delete: DestroyApplication takes every unit with it.  An application that is
\* not there, or is dying already, makes no error.
Destroy ==
  /\ pc = "delete"
  /\ app' = IF app = "none" THEN "none" ELSE "dying"
  /\ DestroyUnits(Units)
  /\ Goto("deleteWait")
  /\ UNCHANGED <<config, tfstate, snapshot, unnamed, budget>>

\* The controller refuses, in a result DestroyApplication does not look at.
DestroyRefused ==
  /\ pc = "delete"
  /\ Spend("faults")
  /\ Goto("deleteWait")
  /\ UNCHANGED <<world, config, tfstate, snapshot, unnamed>>

\* The call fails: the error is kept, and the wait follows all the same.
DestroyFails ==
  /\ pc = "delete"
  /\ Spend("faults")
  /\ Goto("deleteWaitFailed")
  /\ UNCHANGED <<world, config, tfstate, snapshot, unnamed>>

\* Not found, or what is taken for it: the resource leaves the state, and a
\* replacement is created.
Forget ==
  /\ tfstate' = None
  /\ Goto(IF wanted = None THEN "idle" ELSE "create")
  /\ UNCHANGED <<world, config, snapshot>>

Deleted ==
  /\ pc = "deleteWait" /\ app = "none"
  /\ Forget
  /\ UNCHANGED <<unnamed, budget>>

DeletedItemError ==
  /\ pc = "deleteWait" /\ app # "none"
  /\ Spend("faults")
  /\ unnamed' = "itemError"
  /\ Forget

\* The wait gives up, or ends after a call that failed: an error, and the state
\* stays.
DeleteFails ==
  /\ \/ pc = "deleteWait" /\ app # "none" /\ ~setup.skipFailedDeletion
     \/ pc = "deleteWaitFailed"
  /\ Goto("idle")
  /\ UNCHANGED <<world, config, tfstate, snapshot, unnamed, budget>>

\* The wait gives up with skip_failed_deletion: a warning only.
DeleteSkipped ==
  /\ setup.skipFailedDeletion
  /\ pc = "deleteWait" /\ app # "none"
  /\ unnamed' = "skipped"
  /\ Forget
  /\ UNCHANGED budget

-----------------------------------------------------------------------------
\* The user edits the configuration between two applies.
Edit(target) ==
  /\ pc = "idle"
  /\ target # wanted
  /\ wanted' = target
  /\ Spend("changes")
  /\ UNCHANGED <<world, setup, tfstate, pc, snapshot, unnamed>>

\* The unit's agent, or the controller, finishes the removal.
UnitGone(u) ==
  /\ life[u] = "dying"
  /\ life' = [life EXCEPT ![u] = "none"]
  /\ machineOf' = [machineOf EXCEPT ![u] = None]
  /\ UNCHANGED <<app, config, tfstate, pc, snapshot, unnamed, budget>>

AppGone ==
  /\ app = "dying" /\ Present = {}
  /\ app' = "none"
  /\ unnamed' = "no"
  /\ UNCHANGED <<life, machineOf, config, tfstate, pc, snapshot, budget>>

AddUnitOutside ==
  /\ app = "alive"
  /\ IF ByMachine THEN \E m \in Machines : AddUnitsOn({m}) ELSE AddUnits(1)
  /\ Spend("changes")
  /\ UNCHANGED <<app, config, tfstate, pc, snapshot, unnamed>>

RemoveUnitOutside(u) ==
  /\ life[u] = "alive"
  /\ DestroyUnits({u})
  /\ Spend("changes")
  /\ UNCHANGED <<app, config, tfstate, pc, snapshot, unnamed>>

RemoveAppOutside ==
  /\ app = "alive"
  /\ app' = "dying"
  /\ DestroyUnits(Units)
  /\ Spend("changes")
  /\ UNCHANGED <<config, tfstate, pc, snapshot, unnamed>>

Apply ==
  \/ BeginCreate \/ Refresh \/ RefreshNotFound
  \/ Deploy \/ DeployRefused \/ FollowUp \/ Created \/ CreateWaitFails
  \/ ReadStatus \/ UpdateNotFound \/ Resize \/ Scale \/ addUnits \/ removeUnits
  \/ ResizeRefused \/ Updated \/ UpdateWaitFails
  \/ Destroy \/ Deleted \/ DeleteFails \/ DeleteSkipped

Faults ==
  \/ RefreshItemError \/ CallFails \/ RegisterFails \/ DeployAnswerLost \/ FollowUpFails
  \/ DestroyRefused \/ DestroyFails \/ DeletedItemError

Next ==
  \/ Apply \/ Faults \/ Import
  \/ \E target \in Targets \cup {None} : Edit(target)
  \/ \E u \in Units : UnitGone(u) \/ RemoveUnitOutside(u)
  \/ AppGone \/ AddUnitOutside \/ RemoveAppOutside

\* Terraform is run again and again, and the controller finishes what it began.
Fairness ==
  /\ WF_vars(Apply)
  /\ \A u \in Units : WF_vars(UnitGone(u))
  /\ WF_vars(AppGone)

Spec == Init /\ [][Next]_vars /\ Fairness
-----------------------------------------------------------------------------
TypeOK ==
  /\ app \in {"none", "alive", "dying"}
  /\ life \in [Units -> {"none", "alive", "dying"}]
  /\ machineOf \in [Units -> Machines \cup {None}]
  /\ setup \in Setups
  /\ wanted \in Targets \cup {None}
  /\ tfstate \in States \cup {None}
  /\ pc \in {"idle", "create", "followUp", "createWait", "update", "resize", "remove",
             "wait", "delete", "deleteWait", "deleteWaitFailed"}
  /\ DOMAIN snapshot \subseteq Units /\ Range(snapshot) \subseteq Machines \cup {None}
  /\ unnamed \in {"no", "answerLost", "createWait", "itemError", "skipped"}
  /\ budget \in [changes : 0..MaxChanges, faults : 0..MaxFaults]
  /\ app = "none" => Present = {}

\* An application this resource deployed is in its state between applies, but
\* for four reasons: the answer of the deployment was lost, Create's wait gave
\* up, a per-item error was taken for its absence, or the user had failed
\* deletions skipped.  Every other failing call leaves a state that names it.
OrphansExplained == pc = "idle" /\ app = "alive" /\ tfstate = None => unnamed # "no"

\* "Removing a machine from the set will remove the application's unit residing
\* on it" (resource_application.go:204), and no other: an update never destroys
\* a unit of a machine the plan keeps, whatever happened to the units since the
\* status was read.
KeptMachinesUntouched ==
  [][pc = "remove" /\ pc' = "wait" => \A u \in Alive : machineOf[u] \in wanted.machines => life'[u] = "alive"]_vars

\* In the end the controller has what the configuration asks for: applies that
\* fail half way, dying units that are counted, units that come and go outside
\* and waits that give up are all made good by later applies.  What is left are
\* an application the state does not name, which Terraform cannot touch, and one
\* on machines that has lost its last unit: Read keeps the machines of the state
\* when no unit has one.
AsWanted ==
  IF wanted = None THEN app = "none"
  ELSE /\ app = "alive"
       /\ Present = Alive
       /\ IF ByMachine THEN MachinesOf(Alive) = wanted.machines ELSE Cardinality(Alive) = wanted.units
Orphaned == app = "alive" /\ tfstate = None
Emptied  == ByMachine /\ app = "alive" /\ Present = {}
Settles  == <>[](AsWanted \/ Orphaned \/ Emptied)

\* "If the application was partially created, record it to state and return with
\* an error so that TF marks it as tainted" (resource_application.go:857): an
\* application whose Create failed after its deployment is in the state.
PartialIsRecorded == [][CreateWaitFails => tfstate' # None]_vars
=============================================================================
