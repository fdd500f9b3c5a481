SPECIFICATION Spec
CONSTANTS
  u1 = u1
  u2 = u2
  u3 = u3
  u4 = u4
  m1 = m1
  m2 = m2
  None = None
  Units = {u1, u2, u3, u4}
  Machines = {m1, m2}
  MaxUnits = 2
  Setups <- OneSetup
  MaxChanges = 0
  MaxFaults = 1
PROPERTY PartialIsRecorded
CHECK_DEADLOCK FALSE
