SPECIFICATION MCSpec
CONSTANTS
  None = None
  Names <- MCNames
  Kinds <- MCKinds
  MaxChanges = 2
  MaxFaults = 1
INVARIANTS
  OrphansExplained
  SuccessIsTrue
  AppliedIsStable
  ResultsAreAsPlanned
PROPERTIES
  OthersUntouched
CHECK_DEADLOCK FALSE
