------------------------------ MODULE Exposure ------------------------------
(***************************************************************************)
(* The expose block of one juju_application over many terraform applies:   *)
(* what ReadApplication makes of the exposed endpoints, the difference     *)
(* computeExposeDeltas takes between state and plan, and the two calls     *)
(* UpdateApplication makes of it.  Terraform, the operator and the         *)
(* controller are external.                                                *)
(***************************************************************************)
EXTENDS Naturals

CONSTANTS
  Endpoints,          \* the application's endpoints
  All,                \* the endpoint "", which stands for all of them
  Spaces, CIDRs,      \* what an endpoint may be exposed to
  MaxChanges,         \* bound on the edits of the block and on the operator's changes
  MaxFaults,          \* bound on the calls that fail
  None

Names    == Endpoints \cup {All}
Setting  == [spaces : Spaces \cup {None}, cidrs : CIDRs \cup {None}]
Block    == [endpoints : SUBSET Endpoints, spaces : Spaces \cup {None}, cidrs : CIDRs \cup {None}]
Nowhere  == [e \in Names |-> None]

ASSUME ExposureAssumption ==
  /\ All \notin Endpoints
  /\ None \notin Spaces \cup CIDRs \cup Names \cup Setting \cup Block
  /\ MaxChanges \in Nat /\ MaxFaults \in Nat

VARIABLES
  exposed,  \* the controller: the setting of each exposed endpoint, or None
  wanted,   \* the block of the configuration, None when there is none
  tfstate,  \* the block in the state
  plan,     \* the block the running apply was planned with
  pc,       \* "idle", or where the apply is
  budget,   \* edits and faults left
  drifted   \* history: an operator has exposed or unexposed an endpoint

vars == <<exposed, wanted, tfstate, plan, pc, budget, drifted>>

-----------------------------------------------------------------------------
\* Split of an empty string is one empty string.
EndpointsOf(block) == IF block.endpoints = {} THEN {All} ELSE block.endpoints
SettingOf(block) == [spaces |-> block.spaces, cidrs |-> block.cidrs]

\* Mutant: the endpoints that stay are left with the setting they had.
DeltasOfNew(state, new) ==
  IF new = None THEN [unexpose |-> {All}, expose |-> {}]
  ELSE IF state = None THEN [unexpose |-> {}, expose |-> EndpointsOf(new)]
  ELSE [unexpose |-> EndpointsOf(state) \ EndpointsOf(new),
        expose   |-> EndpointsOf(new) \ EndpointsOf(state)]

\* Mutant: what the plan has no more stays exposed.
DeltasWithoutRemoval(state, new) ==
  IF new = None THEN [unexpose |-> {All}, expose |-> {}]
  ELSE IF state = None THEN [unexpose |-> {}, expose |-> EndpointsOf(new)]
  ELSE [unexpose |-> IF SettingOf(new) # SettingOf(state) THEN EndpointsOf(new) ELSE {},
        expose   |-> IF SettingOf(new) # SettingOf(state) THEN EndpointsOf(new)
                     ELSE EndpointsOf(new) \ EndpointsOf(state)]

\* Mutant: everything is exposed anew.
DeltasOfAll(state, new) ==
  IF new = None THEN [unexpose |-> {All}, expose |-> {}]
  ELSE IF state = None THEN [unexpose |-> {}, expose |-> EndpointsOf(new)]
  ELSE [unexpose |-> EndpointsOf(state), expose |-> EndpointsOf(new)]

\* The endpoints to unexpose, and those to expose with the plan's setting; with
\* nothing but "" to expose, and the setting as before, there is no request.
computeExposeDeltas(state, new) ==
  IF new = None THEN [unexpose |-> {All}, expose |-> {}]
  ELSE IF state = None THEN [unexpose |-> {}, expose |-> EndpointsOf(new)]
  ELSE LET changed == SettingOf(new) # SettingOf(state)
           kept    == EndpointsOf(new) \cap EndpointsOf(state)
           added   == EndpointsOf(new) \ kept
       IN  [unexpose |-> (EndpointsOf(state) \ kept) \cup (IF changed THEN kept ELSE {}),
            expose   |-> IF changed THEN EndpointsOf(new)
                         ELSE IF added = {All} THEN {} ELSE added]

\* The controller's Unexpose: of "" it unexposes everything, as the code takes it
\* ("we unexpose everything via a non-empty list", resource_application.go:1712).
Unexposed(endpoints) ==
  IF All \in endpoints THEN Nowhere
  ELSE [e \in Names |-> IF e \in endpoints THEN None ELSE exposed[e]]

\* Mutant: the request has neither spaces nor CIDRs.
processExposeEverywhere(endpoints, block) ==
  [e \in Names |-> IF e \in endpoints THEN [spaces |-> None, cidrs |-> None] ELSE exposed[e]]

\* "" is exposed by the call with no endpoint, the others by one entry each.
processExpose(endpoints, block) ==
  [e \in Names |-> IF e \in endpoints THEN SettingOf(block) ELSE exposed[e]]

\* ReadApplication: "" is not named; the spaces and the CIDRs are those of the
\* first endpoint, in map order, that has some.
Exposed == {e \in Names : exposed[e] # None}
FirstOf(field) ==
  LET some == {exposed[e][field] : e \in Exposed} \ {None}
  IN  IF some = {} THEN {None} ELSE some

ReadBlocks ==
  IF Exposed = {} THEN {None}
  ELSE [endpoints : {Exposed \ {All}}, spaces : FirstOf("spaces"), cidrs : FirstOf("cidrs")]

\* What the configuration asks for.
AsAsked(block) ==
  IF block = None THEN Nowhere
  ELSE [e \in Names |-> IF e \in EndpointsOf(block) THEN SettingOf(block) ELSE None]

-----------------------------------------------------------------------------
Init ==
  /\ wanted \in Block \cup {None}
  /\ exposed = AsAsked(wanted)
  /\ tfstate = wanted
  /\ plan = None
  /\ pc = "idle"
  /\ budget = [changes |-> MaxChanges, faults |-> MaxFaults]
  /\ drifted = FALSE

Spend(what) == budget[what] > 0 /\ budget' = [budget EXCEPT ![what] = @ - 1]

\* The user edits the configuration between two applies.
Edit(block) ==
  /\ pc = "idle"
  /\ wanted' = block
  /\ Spend("changes")
  /\ UNCHANGED <<exposed, tfstate, plan, pc, drifted>>

\* An operator exposes or unexposes an endpoint between two applies.
ChangeOutside(e, setting) ==
  /\ pc = "idle"
  /\ exposed' = [exposed EXCEPT ![e] = setting]
  /\ Spend("changes")
  /\ drifted' = TRUE
  /\ UNCHANGED <<wanted, tfstate, plan, pc>>

\* terraform apply: the refresh, and the plan taken from it.
Refresh ==
  /\ pc = "idle"
  /\ tfstate' \in ReadBlocks
  /\ plan' = wanted
  /\ pc' = IF tfstate' = wanted THEN "idle" ELSE "unexpose"
  /\ UNCHANGED <<exposed, wanted, budget, drifted>>

Deltas == computeExposeDeltas(tfstate, plan)

Unexpose ==
  /\ pc = "unexpose"
  /\ exposed' = IF Deltas.unexpose = {} THEN exposed ELSE Unexposed(Deltas.unexpose)
  /\ pc' = "expose"
  /\ UNCHANGED <<wanted, tfstate, plan, budget, drifted>>

Expose ==
  /\ pc = "expose"
  /\ exposed' = processExpose(Deltas.expose, plan)
  /\ pc' = "rest"
  /\ UNCHANGED <<wanted, tfstate, plan, budget, drifted>>

\* The rest of UpdateApplication and the wait that follows it; the state is the
\* plan.
Finish ==
  /\ pc = "rest"
  /\ tfstate' = plan
  /\ pc' = "idle"
  /\ UNCHANGED <<exposed, wanted, plan, budget, drifted>>

\* A call fails, or terraform is killed: the state is the refreshed one.
Fail ==
  /\ pc # "idle"
  /\ pc' = "idle"
  /\ Spend("faults")
  /\ UNCHANGED <<exposed, wanted, tfstate, plan, drifted>>

Apply == Refresh \/ Unexpose \/ Expose \/ Finish

Next ==
  \/ Apply \/ Fail
  \/ \E block \in Block \cup {None} : Edit(block)
  \/ \E e \in Names, setting \in Setting \cup {None} : ChangeOutside(e, setting)

\* Whoever runs terraform runs it again and again; edits and faults end.
Spec == Init /\ [][Next]_vars /\ WF_vars(Apply)
-----------------------------------------------------------------------------
TypeOK ==
  /\ exposed \in [Names -> Setting \cup {None}]
  /\ {wanted, tfstate, plan} \subseteq Block \cup {None}
  /\ pc \in {"idle", "unexpose", "expose", "rest"}
  /\ budget \in [changes : 0..MaxChanges, faults : 0..MaxFaults]
  /\ drifted \in BOOLEAN

\* In the end the application is exposed as the configuration says, whatever was
\* edited and wherever an apply failed on the way: the difference taken from a
\* half-made update leads on to what the update was for.  (Not so of what an
\* operator exposed: a read does not show the endpoint "" next to others.)
SettlesAsAsked == <>[](exposed = AsAsked(wanted) \/ drifted)

\* An update that widens, narrows or moves the exposure never exposes, not even
\* between its calls, an endpoint to a space or a CIDR that neither the
\* application as it was read nor the plan exposes it to.
NothingUnasked ==
  pc # "idle" /\ ~drifted =>
    \A e \in Names : exposed[e] \in {None, AsAsked(tfstate)[e], AsAsked(plan)[e]}

\* An endpoint that state and plan expose in the same way stays exposed
\* throughout the update: no connection is cut by a change of its neighbours.
NoGap ==
  pc # "idle" /\ ~drifted =>
    \A e \in Names : AsAsked(tfstate)[e] = AsAsked(plan)[e] => exposed[e] = AsAsked(plan)[e]

\* One update is enough to bring the named endpoints of an application that was
\* changed outside back to the plan: all of the plan's are exposed and no other,
\* though a read folds all settings into one block.
UpdateSetsNames ==
  [][Finish => \A e \in Endpoints :
       exposed[e] # None <=> plan # None /\ e \in plan.endpoints]_vars

\* "This will expose all of the application's endpoints"
\* (docs-rtd/howto/manage-applications.md:134, of an empty block), and an empty
\* block "has meaning" (resource_application.go:751): when an update that was
\* planned with one succeeds, all endpoints are exposed.
EmptyBlockExposesAll ==
  [][Finish /\ plan # None /\ plan.endpoints = {} => exposed[All] # None]_vars
=============================================================================
