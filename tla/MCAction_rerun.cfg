SPECIFICATION Spec
CONSTANTS
  u1 = u1
  u2 = u2
  None = None
  Target = None
  MaxActions = 2
  Units = {u1, u2}
PROPERTY NotReexecuted
