SPECIFICATION Spec
CONSTANTS
  None = None
  Users = {u1, u2, self}
  Self = self
  Kinds <- OnlyModel
  MaxChanges = 1
  MaxFaults = 0
PROPERTIES UsersChangedApplied
CHECK_DEADLOCK FALSE
