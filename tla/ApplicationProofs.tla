-------------------------- MODULE ApplicationProofs --------------------------
(***************************************************************************)
(* What one juju_application guarantees while its units come and go, its   *)
(* calls fail and its waits give up.  The invariant accounts for an        *)
(* application the state does not name, and for what the controller may    *)
(* have done to the units of the status an update began with.              *)
(***************************************************************************)
EXTENDS Application, FiniteSetTheorems, TLAPS

\* What Terraform holds at each point of an apply.
ControlInv ==
  /\ pc \in {"create", "followUp", "createWait", "update", "resize", "remove", "wait"} => wanted # None
  /\ pc \in {"update", "resize", "remove", "wait", "delete", "deleteWait", "deleteWaitFailed"} => tfstate # None

\* An application the state does not name is one that is being created, or there
\* is a reason for it.
OrphanInv ==
  app = "alive" /\ tfstate = None /\ unnamed = "no" => pc \in {"followUp", "createWait"}

\* A unit of the status is on the machine it was on, or gone: its name is not
\* given to another.
SnapshotInv ==
  \A u \in DOMAIN snapshot : life[u] # "none" => machineOf[u] = snapshot[u]

IInv == TypeOK /\ ControlInv /\ OrphanInv /\ SnapshotInv
-----------------------------------------------------------------------------
(* Targets, records and the calls that change the units.                   *)

LEMMA TargetType ==
  ASSUME NEW w \in Targets
  PROVE  w \in [units : Nat, machines : SUBSET Machines] /\ w # None
<1>1. \A S \in SUBSET Machines : Cardinality(S) \in Nat
  BY ApplicationAssumption, FS_Subset, FS_CardinalityType
<1>2. \A n \in 0..MaxUnits : n \in Nat
  BY ApplicationAssumption
<1>3. w \in [units : Nat, machines : SUBSET Machines]
  BY <1>1, <1>2 DEF Targets
<1> QED BY <1>3, ApplicationAssumption

LEMMA RecordedType ==
  ASSUME TypeOK, NEW machines \in SUBSET Machines, NEW tainted \in BOOLEAN
  PROVE  Recorded(machines, tainted) \in States /\ Recorded(machines, tainted) # None
<1>1. Cardinality(Present) \in Nat
  BY ApplicationAssumption, FS_Subset, FS_CardinalityType DEF Present
<1>2. Recorded(machines, tainted) \in States
  BY <1>1 DEF Recorded, States
<1> QED BY <1>2, ApplicationAssumption

LEMMA MachinesAreMachines ==
  ASSUME TypeOK
  PROVE  MachinesOf(Present) \in SUBSET Machines
BY DEF TypeOK, MachinesOf, Present

LEMMA TaintRecords ==
  ASSUME TypeOK, wanted # None, Taint
  PROVE  tfstate' \in States /\ tfstate' # None
<1>1. wanted \in [units : Nat, machines : SUBSET Machines]
  BY TargetType DEF TypeOK
<1>2. tfstate' \in States
  BY <1>1 DEF Taint, States
<1> QED BY <1>2, ApplicationAssumption

Budgets == [changes : 0..MaxChanges, faults : 0..MaxFaults]

LEMMA SpendCounts ==
  ASSUME budget \in Budgets, NEW what \in {"changes", "faults"}, Spend(what)
  PROVE  budget' \in Budgets
<1>1. MaxChanges \in Nat /\ MaxFaults \in Nat
  BY ApplicationAssumption
<1>2. CASE what = "changes"
  BY <1>1, <1>2 DEF Spend, Budgets
<1>3. CASE what = "faults"
  BY <1>1, <1>3 DEF Spend, Budgets
<1> QED BY <1>2, <1>3

\* The units and machines after a call, and what a status read before it still
\* says of them.
UnitsOK ==
  /\ life' \in [Units -> {"none", "alive", "dying"}]
  /\ machineOf' \in [Units -> Machines \cup {None}]
  /\ \A u \in DOMAIN snapshot : life'[u] # "none" => life[u] # "none" /\ machineOf'[u] = machineOf[u]

LEMMA AddingOn ==
  ASSUME TypeOK, NEW machines \in SUBSET Machines, AddUnitsOn(machines)
  PROVE  UnitsOK
<1>1. PICK S \in SUBSET Unused : \E on \in [S -> machines] :
        /\ life' = [u \in Units |-> IF u \in S THEN "alive" ELSE life[u]]
        /\ machineOf' = [u \in Units |-> IF u \in S THEN on[u] ELSE machineOf[u]]
  BY DEF AddUnitsOn
<1>2. \A u \in DOMAIN snapshot : u \in Units /\ u \notin S
  BY DEF Unused, TypeOK
<1>3. life' \in [Units -> {"none", "alive", "dying"}] /\ machineOf' \in [Units -> Machines \cup {None}]
  BY <1>1 DEF TypeOK
<1> QED BY <1>1, <1>2, <1>3 DEF UnitsOK

LEMMA AddingSome ==
  ASSUME TypeOK, NEW n, AddUnits(n)
  PROVE  UnitsOK
<1>1. PICK S \in SUBSET Unused :
        /\ life' = [u \in Units |-> IF u \in S THEN "alive" ELSE life[u]]
        /\ machineOf' = machineOf
  BY DEF AddUnits, kSubset
<1>2. \A u \in DOMAIN snapshot : u \in Units /\ u \notin S
  BY DEF Unused, TypeOK
<1> QED BY <1>1, <1>2 DEF UnitsOK, TypeOK

LEMMA Destroying ==
  ASSUME TypeOK, NEW units, DestroyUnits(units)
  PROVE  UnitsOK /\ Present' = Present
BY DEF TypeOK, DestroyUnits, UnitsOK, Present

-----------------------------------------------------------------------------
(* Every step keeps the invariant.                                         *)

LEMMA InitIInv == Init => IInv
<1> SUFFICES ASSUME Init PROVE IInv
  OBVIOUS
<1>1. 0..MaxChanges # {} /\ MaxChanges \in 0..MaxChanges /\ MaxFaults \in 0..MaxFaults
  BY ApplicationAssumption
<1>2. DOMAIN snapshot = {} /\ Range(snapshot) = {}
  BY DEF Init, NoUnits, Range
<1>3. TypeOK
  BY <1>1, <1>2 DEF Init, TypeOK, Present
<1> QED BY <1>2, <1>3, TargetType DEF Init, IInv, ControlInv, OrphanInv, SnapshotInv

\* The snapshot is kept or dropped, and nothing happens on the controller.
LEMMA QuietSnapshot ==
  ASSUME IInv, UNCHANGED world, snapshot' \in {snapshot, NoUnits}
  PROVE  /\ SnapshotInv' /\ Present' = Present
         /\ DOMAIN snapshot' \subseteq Units /\ Range(snapshot') \subseteq Machines \cup {None}
<1>1. DOMAIN NoUnits = {} /\ Range(NoUnits) = {}
  BY DEF NoUnits, Range
<1>2. life' = life /\ machineOf' = machineOf
  BY DEF world
<1> QED BY <1>1, <1>2 DEF IInv, SnapshotInv, TypeOK, Present

\* A handler reads, decides or fails: what it leaves is typed and accounted for.
LEMMA QuietIInv ==
  ASSUME IInv, UNCHANGED <<world, setup>>, snapshot' \in {snapshot, NoUnits},
         wanted' \in Targets \cup {None}, tfstate' \in States \cup {None},
         pc' \in {"idle", "create", "followUp", "createWait", "update", "resize", "remove",
                  "wait", "delete", "deleteWait", "deleteWaitFailed"},
         unnamed' \in {"no", "answerLost", "createWait", "itemError", "skipped"},
         budget' \in Budgets, ControlInv', OrphanInv'
  PROVE  IInv'
<1>1. TypeOK'
  BY QuietSnapshot DEF IInv, TypeOK, Budgets, world, Targets, ByMachine
<1> QED BY <1>1, QuietSnapshot DEF IInv
LEMMA RefreshIInv ==
  ASSUME IInv, BeginCreate \/ Refresh \/ RefreshNotFound \/ RefreshItemError \/ Import
  PROVE  IInv'
<1> USE DEF IInv, ControlInv, OrphanInv, Goto, config
<1>1. CASE BeginCreate
  BY <1>1, QuietIInv DEF BeginCreate, TypeOK, Budgets, world
<1>2. CASE Refresh
  <2>1. tfstate \in States
    BY <1>2 DEF Refresh, TypeOK
  <2>2. tfstate.machines \in SUBSET Machines /\ tfstate.tainted \in BOOLEAN
    BY <2>1 DEF States
  <2>3. tfstate' \in States /\ tfstate' # None
    <3>1. (IF MachinesOf(Present) = {} THEN tfstate.machines ELSE MachinesOf(Present)) \in SUBSET Machines
      BY <2>2, MachinesAreMachines
    <3> QED BY <1>2, <2>2, <3>1, RecordedType DEF Refresh, ReadInto
  <2>4. pc' \in {"idle", "update", "delete"} /\ (pc' = "update" => wanted # None)
    BY <1>2 DEF Refresh, PlanFor
  <2>5. UNCHANGED <<world, config, snapshot, unnamed, budget>>
    BY <1>2 DEF Refresh
  <2> QED BY <2>3, <2>4, <2>5, QuietIInv DEF TypeOK, Budgets, world
<1>3. CASE RefreshNotFound
  BY <1>3, QuietIInv DEF RefreshNotFound, TypeOK, Budgets, world
<1>4. CASE RefreshItemError
  BY <1>4, QuietIInv, SpendCounts DEF RefreshItemError, TypeOK, Budgets, world
<1>5. CASE Import
  <2>1. tfstate' \in States /\ tfstate' # None
    BY <1>5, MachinesAreMachines, RecordedType DEF Import
  <2> QED BY <1>5, <2>1, QuietIInv DEF Import, TypeOK, Budgets, world
<1> QED BY <1>1, <1>2, <1>3, <1>4, <1>5

LEMMA CreateIInv ==
  ASSUME IInv, \/ RegisterFails \/ DeployRefused \/ FollowUp \/ FollowUpFails
               \/ Created \/ CreateWaitFails
  PROVE  IInv'
<1> USE DEF IInv, ControlInv, OrphanInv, Goto, config
<1>1. CASE RegisterFails
  BY <1>1, QuietIInv, SpendCounts, TaintRecords DEF RegisterFails, TypeOK, Budgets, world
<1>2. CASE DeployRefused
  BY <1>2, QuietIInv DEF DeployRefused, TypeOK, Budgets, world
<1>3. CASE FollowUp
  BY <1>3, QuietIInv DEF FollowUp, TypeOK, Budgets, world
<1>4. CASE FollowUpFails
  BY <1>4, QuietIInv, SpendCounts, TaintRecords DEF FollowUpFails, TypeOK, Budgets, world
<1>5. CASE Created
  <2>1. (ByMachine /\ MachinesOf(Present) # wanted.machines) \in BOOLEAN
    BY ApplicationAssumption DEF ByMachine, TypeOK, Setup
  <2>2. tfstate' \in States /\ tfstate' # None
    BY <1>5, <2>1, MachinesAreMachines, RecordedType DEF Created
  <2> QED BY <1>5, <2>2, QuietIInv DEF Created, TypeOK, Budgets, world
<1>6. CASE CreateWaitFails
  <2>1. budget' \in Budgets
    BY <1>6, SpendCounts DEF CreateWaitFails, WaitFails, TypeOK, Budgets
  <2> QED BY <1>6, <2>1, QuietIInv DEF CreateWaitFails, TypeOK, world
<1> QED BY <1>1, <1>2, <1>3, <1>4, <1>5, <1>6

LEMMA UpdateIInv ==
  ASSUME IInv, CallFails \/ UpdateNotFound \/ ResizeRefused \/ Updated \/ UpdateWaitFails
  PROVE  IInv'
<1> USE DEF IInv, ControlInv, OrphanInv, Goto, config
<1>1. CASE CallFails
  BY <1>1, QuietIInv, SpendCounts DEF CallFails, TypeOK, Budgets, world
<1>2. CASE UpdateNotFound
  BY <1>2, QuietIInv DEF UpdateNotFound, TypeOK, Budgets, world
<1>3. CASE ResizeRefused
  BY <1>3, QuietIInv DEF ResizeRefused, TypeOK, Budgets, world
<1>4. CASE Updated
  <2>1. wanted \in [units : Nat, machines : SUBSET Machines]
    BY <1>4, TargetType DEF Updated, TypeOK
  <2>2. tfstate' \in States
    BY <1>4, <2>1, MachinesAreMachines DEF Updated, States
  <2>3. tfstate' # None
    BY <2>2, ApplicationAssumption
  <2> QED BY <1>4, <2>2, <2>3, QuietIInv DEF Updated, TypeOK, Budgets, world
<1>5. CASE UpdateWaitFails
  <2>1. budget' \in Budgets
    BY <1>5, SpendCounts DEF UpdateWaitFails, WaitFails, TypeOK, Budgets
  <2> QED BY <1>5, <2>1, QuietIInv DEF UpdateWaitFails, TypeOK, world
<1> QED BY <1>1, <1>2, <1>3, <1>4, <1>5

\* The status an update begins with says where the units are.
LEMMA ReadStatusIInv ==
  ASSUME IInv, ReadStatus
  PROVE  IInv'
<1>1. /\ snapshot' = [u \in Present |-> machineOf[u]] /\ pc' = "resize" /\ wanted # None /\ tfstate # None
      /\ life' = life /\ machineOf' = machineOf /\ app' = app
      /\ UNCHANGED <<setup, wanted, tfstate, unnamed, budget>>
  BY DEF ReadStatus, IInv, ControlInv, Goto, world, config
<1>2. Present \subseteq Units /\ Present' = Present
  BY <1>1 DEF Present
<1>3. DOMAIN snapshot' = Present /\ \A u \in Present : snapshot'[u] = machineOf[u]
  BY <1>1
<1>4. Range(snapshot') \subseteq Machines \cup {None}
  BY <1>2, <1>3 DEF IInv, TypeOK, Range
<1>5. TypeOK'
  BY <1>1, <1>2, <1>3, <1>4 DEF IInv, TypeOK, Targets, ByMachine
<1> QED BY <1>1, <1>3, <1>5 DEF IInv, ControlInv, OrphanInv, SnapshotInv

LEMMA DeleteIInv ==
  ASSUME IInv, \/ DestroyRefused \/ DestroyFails \/ Deleted \/ DeletedItemError
               \/ DeleteFails \/ DeleteSkipped
  PROVE  IInv'
<1> USE DEF IInv, ControlInv, OrphanInv, Goto, config
<1>1. CASE DestroyRefused
  BY <1>1, QuietIInv, SpendCounts DEF DestroyRefused, TypeOK, Budgets, world
<1>2. CASE DestroyFails
  BY <1>2, QuietIInv, SpendCounts DEF DestroyFails, TypeOK, Budgets, world
<1>3. CASE Deleted
  BY <1>3, QuietIInv DEF Deleted, Forget, TypeOK, Budgets, world
<1>4. CASE DeletedItemError
  BY <1>4, QuietIInv, SpendCounts DEF DeletedItemError, Forget, TypeOK, Budgets, world
<1>5. CASE DeleteFails
  BY <1>5, QuietIInv DEF DeleteFails, TypeOK, Budgets, world
<1>6. CASE DeleteSkipped
  BY <1>6, QuietIInv DEF DeleteSkipped, Forget, TypeOK, Budgets, world
<1> QED BY <1>1, <1>2, <1>3, <1>4, <1>5, <1>6

LEMMA EditIInv ==
  ASSUME IInv, NEW target \in Targets \cup {None}, Edit(target)
  PROVE  IInv'
<1>1. ControlInv' /\ OrphanInv'
  BY DEF IInv, Edit, ControlInv, OrphanInv, world
<1> QED BY <1>1, QuietIInv, SpendCounts DEF IInv, Edit, TypeOK, Budgets, world
\* Units change, on the controller's side: what was said of them still holds.
LEMMA UnitsIInv ==
  ASSUME IInv, UnitsOK, UNCHANGED <<setup, wanted, tfstate>>, snapshot' \in {snapshot, NoUnits},
         app' \in {"none", "alive", "dying"}, app' = "none" => Present' = {},
         pc' \in {"idle", "create", "followUp", "createWait", "update", "resize", "remove",
                  "wait", "delete", "deleteWait", "deleteWaitFailed"},
         unnamed' \in {"no", "answerLost", "createWait", "itemError", "skipped"},
         budget' \in Budgets, ControlInv', OrphanInv'
  PROVE  IInv'
<1>1. DOMAIN NoUnits = {} /\ Range(NoUnits) = {}
  BY DEF NoUnits, Range
<1>2. TypeOK'
  BY <1>1 DEF IInv, TypeOK, UnitsOK, Budgets, Targets, ByMachine
<1>3. SnapshotInv'
  BY <1>1 DEF IInv, SnapshotInv, UnitsOK
<1> QED BY <1>2, <1>3 DEF IInv

LEMMA DeployIInv ==
  ASSUME IInv, Deploy \/ DeployAnswerLost
  PROVE  IInv'
<1>1. TypeOK /\ wanted # None /\ Deployed /\ pc = "create" /\ app = "none" /\ app' = "alive"
      /\ UNCHANGED <<setup, wanted, tfstate, snapshot>>
  BY DEF Deploy, DeployAnswerLost, Deployed, IInv, ControlInv, config
<1>2. wanted \in [units : Nat, machines : SUBSET Machines]
  BY <1>1, TargetType DEF TypeOK
<1>3. UnitsOK
  BY <1>1, <1>2, AddingOn, AddingSome DEF Deployed
<1>4. CASE Deploy
  BY <1>1, <1>3, <1>4, UnitsIInv DEF Deploy, Goto, IInv, TypeOK, Budgets, ControlInv, OrphanInv
<1>5. CASE DeployAnswerLost
  BY <1>1, <1>3, <1>5, UnitsIInv, SpendCounts DEF DeployAnswerLost, Goto, IInv, TypeOK, Budgets, ControlInv, OrphanInv
<1> QED BY <1>4, <1>5

LEMMA ResizeIInv ==
  ASSUME IInv, Resize \/ Scale \/ addUnits \/ removeUnits
  PROVE  IInv'
<1>1. /\ TypeOK /\ wanted # None /\ tfstate # None /\ UNCHANGED <<app, config, tfstate, unnamed, budget>>
      /\ snapshot' \in {snapshot, NoUnits} /\ pc' \in {"remove", "wait"}
  BY DEF Resize, Scale, addUnits, removeUnits, Goto, IInv, ControlInv
<1>2. CASE Resize
  <2>1. UnitsOK
    BY <1>1, <1>2, AddingSome, Destroying DEF Resize
  <2>2. app' = "alive"
    BY <1>1, <1>2 DEF Resize
  <2> QED BY <1>1, <2>1, <2>2, UnitsIInv DEF IInv, TypeOK, Budgets, ControlInv, OrphanInv, config
<1>3. CASE Scale
  <2>1. UnitsOK
    BY <1>1, <1>3, AddingSome, Destroying DEF Scale
  <2>2. app' = "alive"
    BY <1>1, <1>3 DEF Scale
  <2> QED BY <1>1, <2>1, <2>2, UnitsIInv DEF IInv, TypeOK, Budgets, ControlInv, OrphanInv, config
<1>4. CASE addUnits
  <2>1. wanted \in [units : Nat, machines : SUBSET Machines]
    BY <1>1, TargetType DEF TypeOK
  <2>2. UnitsOK
    BY <1>1, <1>4, <2>1, AddingOn DEF addUnits
  <2>3. app' = "alive"
    BY <1>1, <1>4 DEF addUnits
  <2> QED BY <1>1, <2>2, <2>3, UnitsIInv DEF IInv, TypeOK, Budgets, ControlInv, OrphanInv, config
<1>5. CASE removeUnits
  <2>1. UnitsOK /\ Present' = Present
    BY <1>1, <1>5, Destroying DEF removeUnits
  <2> QED BY <1>1, <2>1, UnitsIInv DEF IInv, TypeOK, Budgets, ControlInv, OrphanInv, config
<1> QED BY <1>2, <1>3, <1>4, <1>5

LEMMA DestroyIInv ==
  ASSUME IInv, Destroy
  PROVE  IInv'
<1>1. UnitsOK /\ Present' = Present
  BY Destroying DEF Destroy, IInv
<1>2. UNCHANGED <<config, tfstate, snapshot, unnamed, budget>> /\ pc' = "deleteWait" /\ tfstate # None
  BY DEF Destroy, Goto, IInv, ControlInv
<1>3. app' = IF app = "none" THEN "none" ELSE "dying"
  BY DEF Destroy
<1> QED BY <1>1, <1>2, <1>3, UnitsIInv DEF IInv, TypeOK, Budgets, ControlInv, OrphanInv, config

LEMMA WorldIInv ==
  ASSUME IInv, \/ \E u \in Units : UnitGone(u) \/ RemoveUnitOutside(u)
               \/ AppGone \/ AddUnitOutside \/ RemoveAppOutside
  PROVE  IInv'
<1> USE DEF config
<1>0. TypeOK
  BY DEF IInv
<1>1. ASSUME NEW u \in Units, UnitGone(u) PROVE IInv'
  <2>1. UnitsOK /\ Present' \subseteq Present
    BY <1>0, <1>1 DEF UnitGone, TypeOK, UnitsOK, Present
  <2> QED BY <1>0, <1>1, <2>1, UnitsIInv DEF UnitGone, IInv, TypeOK, Budgets, ControlInv, OrphanInv
<1>2. ASSUME NEW u \in Units, RemoveUnitOutside(u) PROVE IInv'
  <2>1. UnitsOK /\ Present' = Present
    BY <1>0, <1>2, Destroying DEF RemoveUnitOutside
  <2>2. budget' \in Budgets
    BY <1>0, <1>2, SpendCounts DEF RemoveUnitOutside, TypeOK, Budgets
  <2> QED BY <1>0, <1>2, <2>1, <2>2, UnitsIInv DEF RemoveUnitOutside, IInv, TypeOK, ControlInv, OrphanInv
<1>3. CASE AppGone
  <2>1. UnitsOK /\ Present' = {}
    BY <1>0, <1>3 DEF AppGone, TypeOK, UnitsOK, Present
  <2> QED BY <1>0, <1>3, <2>1, UnitsIInv DEF AppGone, IInv, TypeOK, Budgets, ControlInv, OrphanInv
<1>4. CASE AddUnitOutside
  <2>1. UnitsOK
    <3>1. CASE ByMachine
      <4>1. PICK m \in Machines : AddUnitsOn({m})
        BY <1>4, <3>1 DEF AddUnitOutside
      <4> QED BY <1>0, <4>1, AddingOn
    <3>2. CASE ~ByMachine
      BY <1>0, <1>4, <3>2, AddingSome DEF AddUnitOutside
    <3> QED BY <3>1, <3>2
  <2>2. budget' \in Budgets
    BY <1>0, <1>4, SpendCounts DEF AddUnitOutside, TypeOK, Budgets
  <2> QED BY <1>0, <1>4, <2>1, <2>2, UnitsIInv DEF AddUnitOutside, IInv, TypeOK, ControlInv, OrphanInv
<1>5. CASE RemoveAppOutside
  <2>1. UnitsOK /\ Present' = Present
    BY <1>0, <1>5, Destroying DEF RemoveAppOutside
  <2>2. budget' \in Budgets
    BY <1>0, <1>5, SpendCounts DEF RemoveAppOutside, TypeOK, Budgets
  <2> QED BY <1>0, <1>5, <2>1, <2>2, UnitsIInv DEF RemoveAppOutside, IInv, TypeOK, ControlInv, OrphanInv
<1> QED BY <1>1, <1>2, <1>3, <1>4, <1>5

LEMMA IInvStep == IInv /\ [Next]_vars => IInv'
<1> SUFFICES ASSUME IInv, [Next]_vars PROVE IInv'
  OBVIOUS
<1>1. CASE Apply
  BY <1>1, RefreshIInv, CreateIInv, UpdateIInv, ReadStatusIInv, DeleteIInv, DeployIInv, ResizeIInv, DestroyIInv
     DEF Apply
<1>2. CASE Faults
  BY <1>2, RefreshIInv, CreateIInv, UpdateIInv, DeleteIInv, DeployIInv DEF Faults
<1>3. CASE UNCHANGED vars
  BY <1>3 DEF vars, IInv, TypeOK, ControlInv, OrphanInv, SnapshotInv, Present, Targets, ByMachine
<1> QED BY <1>1, <1>2, <1>3, RefreshIInv, EditIInv, WorldIInv DEF Next

LEMMA IInvHolds == Spec => []IInv
BY InitIInv, IInvStep, PTL DEF Spec

-----------------------------------------------------------------------------
\* The state, the status an update began with and the controller keep their types,
\* and an application is gone only with its last unit.
THEOREM Typing == Spec => []TypeOK
BY IInvHolds, PTL DEF IInv

\* Create, Read and Delete (resource_application.go) leave an application out of
\* the state for the four reasons listed, and for no other, whatever calls fail and
\* in whatever order units, machines and the application come and go.
THEOREM OrphansAreExplained == Spec => []OrphansExplained
<1>1. IInv => OrphansExplained
  BY DEF IInv, OrphanInv, OrphansExplained
<1> QED BY <1>1, IInvHolds, PTL

\* removeUnits works from the status that UpdateApplication read before it added
\* units: whatever happened to the units since, none on a machine that the plan
\* keeps is destroyed.
THEOREM KeepsMachines == Spec => KeptMachinesUntouched
<1>1. IInv /\ [Next]_vars =>
        [pc = "remove" /\ pc' = "wait" =>
           \A u \in Alive : machineOf[u] \in wanted.machines => life'[u] = "alive"]_vars
  <2> SUFFICES ASSUME IInv, Next, pc = "remove", pc' = "wait", NEW u \in Alive, machineOf[u] \in wanted.machines
               PROVE  life'[u] = "alive"
    BY DEF vars
  <2>1. removeUnits
    BY DEF Next, Apply, BeginCreate, Refresh, RefreshNotFound, Deploy, Deployed, DeployRefused, FollowUp,
           Created, CreateWaitFails, ReadStatus, UpdateNotFound, Resize, Scale, addUnits, ResizeRefused,
           Updated, UpdateWaitFails, Destroy, Deleted, DeleteFails, DeleteSkipped, Faults,
           RefreshItemError, CallFails, RegisterFails, DeployAnswerLost, FollowUpFails,
           DestroyRefused, DestroyFails, DeletedItemError, Import, Edit, UnitGone,
           RemoveUnitOutside, AppGone, AddUnitOutside, RemoveAppOutside, Goto
  <2>2. PICK unitOn \in [RemovedMachines -> DOMAIN snapshot] :
          /\ \A m \in RemovedMachines : snapshot[unitOn[m]] = m
          /\ DestroyUnits(Range(unitOn))
    BY <2>1 DEF removeUnits
  <2>3. u \in Units /\ life[u] = "alive"
    BY DEF Alive
  <2>4. u \notin Range(unitOn)
    <3> SUFFICES ASSUME NEW m \in RemovedMachines, u = unitOn[m] PROVE FALSE
      BY <2>2 DEF Range
    <3>1. u \in DOMAIN snapshot /\ snapshot[u] = m
      BY <2>2
    <3>2. machineOf[u] = m
      BY <2>3, <3>1 DEF IInv, SnapshotInv
    <3> QED BY <3>2 DEF RemovedMachines
  <2> QED BY <2>2, <2>3, <2>4 DEF DestroyUnits
<1> QED BY <1>1, IInvHolds, PTL DEF Spec, KeptMachinesUntouched
=============================================================================
