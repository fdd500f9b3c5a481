SPECIFICATION Spec
CONSTANTS
  a = a
  b = b
  s = s
  c = c
  All = All
  None = None
  Endpoints = {a, b}
  Spaces = {s}
  CIDRs = {c}
  MaxChanges = 1
  MaxFaults = 0
PROPERTY EmptyBlockExposesAll
