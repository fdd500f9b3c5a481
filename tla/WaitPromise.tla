---------------------------- MODULE WaitPromise ----------------------------
(***************************************************************************)
(* What a caller of wait.WaitFor, wait.WaitForError or retry.RetryOnErrors *)
(* is promised, with no clock, no backoff and no loop: the remote system   *)
(* is observed again and again, an observation that meets the condition    *)
(* ends the wait with success, one that is neither met nor retriable ends  *)
(* it with a failure, and the wait may be given up only on an observation  *)
(* it could have retried.                                                  *)
(***************************************************************************)

CONSTANTS
  Met,        \* the observations the caller waits for
  Retriable,  \* the observations the caller is willing to look past
  NotYet      \* stands for: nothing was observed yet

VARIABLES
  seen,       \* the last observation
  verdict     \* "waiting", or what the caller was told

promiseVars == <<seen, verdict>>

Init == seen = NotYet /\ verdict = "waiting"

\* A new observation is made only while every one before it was retriable.
Observe ==
  /\ verdict = "waiting"
  /\ seen = NotYet \/ seen \in Retriable \ Met
  /\ seen' # NotYet
  /\ UNCHANGED verdict

Succeed == seen \in Met /\ verdict = "waiting" /\ verdict' = "met" /\ UNCHANGED seen

Fail ==
  /\ seen \notin Met \cup Retriable \cup {NotYet}
  /\ verdict = "waiting"
  /\ verdict' = "failed"
  /\ UNCHANGED seen

GiveUp ==
  /\ seen \in Retriable \ Met
  /\ verdict = "waiting"
  /\ verdict' = "gaveUp"
  /\ UNCHANGED seen

Next == Observe \/ Succeed \/ Fail \/ GiveUp

\* No wait goes on for ever.
Ends == <>(verdict # "waiting")

SafeSpec == Init /\ [][Next]_promiseVars
Spec == SafeSpec /\ Ends
=============================================================================
