------------------------------ MODULE Terraform ------------------------------
(***************************************************************************)
(* What Terraform does around the handlers of one resource, apply after    *)
(* apply: it refreshes what is in the state, compares it with the          *)
(* configuration, and calls Create, Update or Delete.  Modules of          *)
(* resources extend this one.  Terraform itself is external.               *)
(***************************************************************************)
EXTENDS Naturals, Objects

CONSTANTS
  MaxChanges,   \* bound on edits of the configuration and on changes made outside terraform
  MaxFaults     \* bound on the calls that fail

ASSUME TerraformAssumption == MaxChanges \in Nat /\ MaxFaults \in Nat

VARIABLES
  wanted,    \* the configuration of the resource, or None
  tfstate,   \* what the state file has of it, or None
  tainted,   \* the state is that of a creation that failed
  pc,        \* "idle", or the handler that runs and where it is
  budget     \* changes and faults left

tfvars == <<wanted, tfstate, tainted, pc, budget>>

TerraformInit ==
  /\ tfstate = None
  /\ tainted = FALSE
  /\ pc = "idle"
  /\ budget = [changes |-> MaxChanges, faults |-> MaxFaults]

Spend(what) ==
  /\ budget[what] > 0
  /\ budget' = [budget EXCEPT ![what] = @ - 1]

Edit(configs) ==
  /\ pc = "idle"
  /\ Spend("changes")
  /\ wanted' \in (configs \cup {None}) \ {wanted}
  /\ UNCHANGED <<tfstate, tainted, pc>>

BeginApply ==
  /\ pc = "idle"
  /\ tfstate # None \/ wanted # None
  /\ pc' = IF tfstate = None THEN "create" ELSE "read"
  /\ UNCHANGED <<wanted, tfstate, tainted, budget>>

\* What is called after a refresh that gave `state'.  A replacement is a
\* deletion and then a creation.
Planned(state, agrees, replaced) ==
  IF state = None THEN IF wanted = None THEN "idle" ELSE "create"
  ELSE IF wanted = None \/ tainted \/ replaced THEN "delete"
  ELSE IF agrees THEN "idle" ELSE "update"

\* Read returns `state'.
Refreshed(state, agrees, replaced) ==
  /\ pc = "read"
  /\ tfstate' = state
  /\ pc' = Planned(state, agrees, replaced)
  /\ tainted' = (tainted /\ state # None)
  /\ UNCHANGED <<wanted, budget>>

\* Create and Update return without an error.
Applied(state) ==
  /\ tfstate' = state
  /\ tainted' = FALSE
  /\ pc' = "idle"
  /\ UNCHANGED wanted

\* Delete returns without an error.
Destroyed ==
  /\ tfstate' = None
  /\ tainted' = FALSE
  /\ pc' = IF wanted = None THEN "idle" ELSE "create"
  /\ UNCHANGED wanted

\* A handler returns an error: the state is as it was, a failed Create that set
\* none leaves none.
Errored ==
  /\ pc' = "idle"
  /\ UNCHANGED <<wanted, tfstate, tainted>>
==============================================================================
