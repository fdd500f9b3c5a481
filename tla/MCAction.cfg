SPECIFICATION Spec
CONSTANTS
  u1 = u1
  u2 = u2
  None = None
  Target = None
  MaxActions = 3
  Units = {u1, u2}
INVARIANTS
  TypeOK
  OutputIsTheResult
  EnqueuedIsRecorded
PROPERTIES
  NoOverlap
  AppliesEnd
