SPECIFICATION Spec
CONSTANTS
  a = a
  b = b
  s = s
  c = c
  All = All
  None = None
  Endpoints = {a, b}
  Spaces = {s}
  CIDRs = {c}
  MaxChanges = 2
  MaxFaults = 2
INVARIANTS
  NothingUnasked
  NoGap
PROPERTIES
  SettlesAsAsked
  UpdateSetsNames
