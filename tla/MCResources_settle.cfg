SPECIFICATION Spec
CONSTANTS
  None = None
  Names <- MCNames
  Kinds <- MCKinds
  MaxChanges = 1
  MaxFaults = 1
CHECK_DEADLOCK FALSE
PROPERTIES
  Settles
