SPECIFICATION Spec
CONSTANTS
  None = None
  Users = {u1, u2, self}
  Self = self
  Kinds <- AllKinds
  MaxChanges = 2
  MaxFaults = 1
INVARIANTS
  OwnAccessKept
  DestroyedLeavesNothing
PROPERTIES
  AccessNotInterrupted
  Settles
CHECK_DEADLOCK FALSE
