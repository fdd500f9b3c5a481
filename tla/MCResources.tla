----------------------------- MODULE MCResources -----------------------------
\* Instances of Resources for TLC.
EXTENDS Resources

MCNames == {"a", "b"}
MCKinds == AllKinds

\* The kinds with the most fields and calls see one change in a behaviour; the
\* others see MaxChanges.
LargeKinds == {"machine", "model", "controller"}
ChangeLeft == kind \in LargeKinds => budget.changes = MaxChanges

MCNext ==
  \/ ApplyStep
  \/ Vanish
  \/ ChangeLeft /\ OutsideChange
  \/ ChangeLeft /\ Import
  \/ ChangeLeft /\ EditConfig

MCSpec == Init /\ [][MCNext]_vars
=============================================================================
