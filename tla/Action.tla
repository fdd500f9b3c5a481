------------------------------- MODULE Action -------------------------------
(***************************************************************************)
(* One juju_action resource over many terraform applies: Create resolves   *)
(* the unit, enqueues the action and waits for its result, Read waits for  *)
(* a result that is still missing, Delete does nothing.  What Create       *)
(* leaves in its response reaches the state when the call returns, and not *)
(* when the process dies first.  Juju's actions and Terraform's replacing  *)
(* of a tainted resource are external.                                     *)
(***************************************************************************)
EXTENDS Naturals

CONSTANTS
  MaxActions,   \* bound on the actions there ever are
  Units,        \* the units of the application
  Target,       \* the unit the resource names, None for "<application>/leader"
  None

Ids == 1..MaxActions

ASSUME ActionAssumption ==
  /\ MaxActions \in Nat
  /\ Units # {}
  /\ Target \in Units \cup {None}
  /\ None \notin Units \cup Ids

VARIABLES
  actions,    \* the controller: the status of each action, "none" when there is none
  leader,     \* the controller: the leader of the application, None between two
  installed,  \* the controller: whether the charm is installed on the units
  pc,         \* where the apply is
  receiver,   \* Create: the resolved unit
  actionID,   \* state.ActionID, None when the resource is not in the state
  output,     \* state.Output: the action whose result it is, None for null
  tainted,    \* Terraform's mark on a resource whose Create failed
  response,   \* Create: the action ID it has put in its response
  lost,       \* history: actions whose ID never reached a Create
  recorded,   \* history: actions the state has named
  stored      \* history: actions whose result was put in the state

world    == <<actions, leader, installed>>
tfstate  == <<actionID, output, tainted>>
history  == <<lost, recorded, stored>>
vars     == <<actions, leader, installed, pc, receiver, actionID, output,
              tainted, response, lost, recorded, stored>>

Enqueued == {i \in Ids : actions[i] # "none"}
Unfinished == {i \in Ids : actions[i] \in {"pending", "running"}}
Done == {"completed", "empty"}

Init ==
  /\ actions = [i \in Ids |-> "none"]
  /\ leader \in Units \cup {None}
  /\ installed \in BOOLEAN
  /\ pc = "idle"
  /\ receiver = None
  /\ actionID = None /\ output = None /\ tainted = FALSE
  /\ response = None
  /\ lost = {} /\ recorded = {} /\ stored = {}

-----------------------------------------------------------------------------
\* terraform apply: a resource in the state is refreshed, one that is not is
\* created.
BeginApply ==
  /\ pc = "idle"
  /\ pc' = IF actionID = None THEN "resolve" ELSE "read"
  /\ UNCHANGED <<world, receiver, tfstate, response, history>>

End ==
  /\ pc' = "idle"
  /\ receiver' = None
  /\ response' = None

\* Mutant: a tainted resource is not waited for.
ReadKeepsTainted ==
  /\ pc = "read"
  /\ output # None \/ tainted
  /\ pc' = "plan"
  /\ UNCHANGED <<world, receiver, tfstate, response, history>>

\* Read: there is an output already.
ReadKeeps ==
  /\ pc = "read"
  /\ output # None
  /\ pc' = "plan"
  /\ UNCHANGED <<world, receiver, tfstate, response, history>>

\* Mutant: an action that ended in any way has completed.
AssertActionEnded(i) == actions[i] \in Done \cup {"failed"}

\* assertActionCompleted, of the answer of ActionResult.
assertActionCompleted(i) == actions[i] \in Done

\* actionResultToOutput: an action with no output leaves a null.
OutputOf(i) == IF actions[i] = "empty" THEN None ELSE i

\* Read waits for the result of the action whose ID it knows.
ReadResult ==
  /\ pc = "read"
  /\ output = None
  /\ assertActionCompleted(actionID)
  /\ output' = OutputOf(actionID)
  /\ stored' = stored \cup {actionID}
  /\ pc' = "plan"
  /\ UNCHANGED <<world, receiver, actionID, tainted, response, lost, recorded>>

\* The apply fails with the refresh.
ReadFails ==
  /\ pc = "read"
  /\ output = None
  /\ ~assertActionCompleted(actionID)
  /\ End
  /\ UNCHANGED <<world, tfstate, lost, recorded, stored>>

\* Terraform replaces a tainted resource: Delete, which does nothing, then
\* Create.  One that is not tainted it leaves alone.
Plan ==
  /\ pc = "plan"
  /\ IF tainted
     THEN /\ actionID' = None /\ output' = None /\ tainted' = FALSE
          /\ pc' = "resolve"
          /\ UNCHANGED <<receiver, response>>
     ELSE End /\ UNCHANGED tfstate
  /\ UNCHANGED <<world, lost, recorded, stored>>

-----------------------------------------------------------------------------
\* Mutant: with no leader there is no unit.
ResolveLeaderOnly ==
  /\ pc = "resolve"
  /\ receiver' = IF Target # None THEN Target ELSE leader
  /\ pc' = "enqueue"
  /\ UNCHANGED <<world, tfstate, response, history>>

\* Create: ResolveLeaderUnit takes the leader of the status it reads, once; with
\* no leader in it, any unit.
ResolveLeaderUnit ==
  /\ pc = "resolve"
  /\ receiver' \in IF Target # None THEN {Target}
                    ELSE IF leader # None THEN {leader} ELSE Units
  /\ pc' = "enqueue"
  /\ UNCHANGED <<world, tfstate, response, history>>

\* Mutant: waitEnqueueAction retries for ever.
CreateFailsEarly ==
  /\ pc = "resolve"
  /\ End
  /\ UNCHANGED <<world, tfstate, lost, recorded, stored>>

\* ResolveLeaderUnit or ActionExists fails, or the action does not exist;
\* waitEnqueueAction gives up waiting for the charm, or has another error.
CreateFails ==
  /\ pc \in {"resolve", "enqueue"}
  /\ End
  /\ UNCHANGED <<world, tfstate, lost, recorded, stored>>

NextId == CHOOSE i \in Ids \ Enqueued : TRUE

\* The controller takes the action; NoActionsDefinedError until the charm is
\* installed.
Accepted ==
  /\ pc = "enqueue" /\ installed
  /\ Ids \ Enqueued # {}
  /\ actions' = [actions EXCEPT ![NextId] = "pending"]

\* The action ID is put in the response before the wait.
EnqueueAction ==
  /\ Accepted
  /\ receiver' = None
  /\ response' = NextId
  /\ pc' = "wait"
  /\ UNCHANGED <<leader, installed, tfstate, history>>

\* The answer does not arrive: an error waitEnqueueAction does not retry.
EnqueueAnswerLost ==
  /\ Accepted
  /\ lost' = lost \cup {NextId}
  /\ End
  /\ UNCHANGED <<leader, installed, tfstate, recorded, stored>>

\* waitForActionResult in Create: the result is there.
CreateResult ==
  /\ pc = "wait"
  /\ assertActionCompleted(response)
  /\ actionID' = response
  /\ output' = OutputOf(response)
  /\ recorded' = recorded \cup {response}
  /\ stored' = stored \cup {response}
  /\ End
  /\ UNCHANGED <<world, tainted, lost>>

\* Mutant: the response is set with the result only.
CreateWaitFailsUnrecorded ==
  /\ pc = "wait"
  /\ ~assertActionCompleted(response)
  /\ End
  /\ UNCHANGED <<world, tfstate, lost, recorded, stored>>

\* It fails or gives up: the response is returned with an error, and Terraform
\* marks the resource.
CreateWaitFails ==
  /\ pc = "wait"
  /\ ~assertActionCompleted(response)
  /\ actionID' = response
  /\ tainted' = TRUE
  /\ recorded' = recorded \cup {response}
  /\ End
  /\ UNCHANGED <<world, output, lost, stored>>

\* terraform or the provider is killed: the response is not delivered, and the
\* state has what it had before the call.
Crash ==
  /\ pc # "idle"
  /\ lost' = IF response = None THEN lost ELSE lost \cup {response}
  /\ End
  /\ UNCHANGED <<world, tfstate, recorded, stored>>

-----------------------------------------------------------------------------
\* The unit runs the action.
Run(i) ==
  /\ \/ actions[i] = "pending" /\ \E s \in {"running", "failed"} : actions' = [actions EXCEPT ![i] = s]
     \/ actions[i] = "running" /\ \E s \in Done \cup {"failed"} : actions' = [actions EXCEPT ![i] = s]
  /\ UNCHANGED <<leader, installed, pc, receiver, tfstate, response, history>>

Install ==
  /\ ~installed
  /\ installed' = TRUE
  /\ UNCHANGED <<actions, leader, pc, receiver, tfstate, response, history>>

\* Leadership moves, or lapses.
Elect(u) ==
  /\ u # leader
  /\ leader' = u
  /\ UNCHANGED <<actions, installed, pc, receiver, tfstate, response, history>>

\* The controller prunes old actions.
Prune(i) ==
  /\ actions[i] \in Done \cup {"failed"}
  /\ actions' = [actions EXCEPT ![i] = "pruned"]
  /\ UNCHANGED <<leader, installed, pc, receiver, tfstate, response, history>>

ApplyStep ==
  \/ ReadKeeps \/ ReadResult \/ ReadFails \/ Plan
  \/ ResolveLeaderUnit \/ CreateFails \/ EnqueueAction \/ EnqueueAnswerLost
  \/ CreateResult \/ CreateWaitFails

Next ==
  \/ BeginApply \/ ApplyStep \/ Crash \/ Install
  \/ \E i \in Ids : Run(i) \/ Prune(i)
  \/ \E u \in Units \cup {None} : Elect(u)

\* The handlers run as long as they can and their waits give up (Wait proves
\* they do); nothing obliges the controller.
Spec == Init /\ [][Next]_vars /\ WF_vars(ApplyStep)
-----------------------------------------------------------------------------
TypeOK ==
  /\ actions \in [Ids -> {"none", "pending", "running", "failed", "pruned"} \cup Done]
  /\ leader \in Units \cup {None}
  /\ installed \in BOOLEAN
  /\ pc \in {"idle", "read", "plan", "resolve", "enqueue", "wait"}
  /\ receiver \in Units \cup {None}
  /\ actionID \in Ids \cup {None}
  /\ output \in Ids \cup {None}
  /\ tainted \in BOOLEAN
  /\ response \in Ids \cup {None}
  /\ pc = "enqueue" => receiver # None
  /\ pc = "wait" => response # None
  /\ lost \subseteq Ids /\ recorded \subseteq Ids /\ stored \subseteq Ids

\* The output in the state is that of the action the state names, which
\* completed, whichever of Create and Read waited for it.
OutputIsTheResult ==
  output # None => output = actionID /\ actions[output] \in {"completed", "pruned"}

\* An action is never enqueued while one the state once named, of the same
\* resource, is still to finish: a Create whose wait failed is followed by a
\* Read that waits, before Terraform creates again.
NoOverlap ==
  [][\A i \in Ids : actions[i] = "none" /\ actions'[i] # "none" => Unfinished \subseteq lost]_vars

\* Every action this resource ever enqueued is named in its state, unless its
\* answer was lost: no failing wait makes Create forget what it began ("Save the
\* state with the action_id before waiting", resource_action.go:221).
EnqueuedIsRecorded == pc = "idle" => Enqueued \subseteq lost \cup recorded

\* Every apply ends, though the action may never do.
AppliesEnd == pc # "idle" ~> pc = "idle"

\* "Once the action has completed and its result is stored in the Terraform
\* state, subsequent terraform apply runs are a no-op - the action is not
\* re-executed" (docs-rtd/howto/manage-actions.md:104).
NotReexecuted ==
  [][\A i \in Ids : actions[i] = "none" /\ actions'[i] # "none" => stored = {}]_vars
=============================================================================
