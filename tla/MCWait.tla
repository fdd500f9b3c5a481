------------------------------- MODULE MCWait -------------------------------
(***************************************************************************)
(* Small instances of Wait, after the calls the resources make:            *)
(*  - waitForActionResult (resource_action.go): an action that is pending, *)
(*    completed or failed, its assertion telling the three apart;          *)
(*  - the deletion waits (machines, applications, integrations, ...), which *)
(*    retry every error but the one they wait for.                         *)
(***************************************************************************)
EXTENDS Wait

CONSTANTS
  pending, completed, failed,       \* what GetData returns
  retryRead, notFound, refused, actionFailed  \* errors

MCErrs == {retryRead, notFound, refused, actionFailed}

ActionData == {pending, completed, failed}
ActionAssertions ==
  << [d \in ActionData |-> CASE d = pending   -> retryRead
                             [] d = completed -> NoErr
                             [] d = failed    -> actionFailed] >>

NoAssertions == << >>

ShortConf   == [maxDuration |-> 12, delay |-> 2, maxDelay |-> 5]
DefaultConf == [maxDuration |-> 0, delay |-> 0, maxDelay |-> 0]
=============================================================================
