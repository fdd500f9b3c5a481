SPECIFICATION Spec
CONSTANTS
  u1 = u1
  u2 = u2
  u3 = u3
  u4 = u4
  m1 = m1
  m2 = m2
  None = None
  Units = {u1, u2, u3, u4}
  Machines = {m1, m2}
  MaxUnits = 2
  Setups <- MostSetups
  MaxChanges = 2
  MaxFaults = 2
INVARIANTS
  OrphansExplained
PROPERTIES
  KeptMachinesUntouched
  Settles
CHECK_DEADLOCK FALSE
