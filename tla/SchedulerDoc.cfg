CONSTANTS
  root = root
  a = a
  b = b
  c = c
  Null = Null
  Fibers = {root, a, b}
  Root = root
  Status = {0, 1}
  SqEntries = 1
  CqEntries = 2
SPECIFICATION Spec
SYMMETRY Symmetry
INVARIANTS LiveIsReadyOrParked
