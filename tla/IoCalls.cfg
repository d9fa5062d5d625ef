CONSTANTS
  f1 = f1
  f2 = f2
  Fibers = {f1, f2}
  Null = Null
  Bits = 3
  PageSize = 2
  Capacity = 3
  Counts = {0, 3, 8, 31, 32}
  Ints <- SomeInts
  Total = 3
SPECIFICATION IoSpec
SYMMETRY Symmetry
CHECK_DEADLOCK FALSE
INVARIANTS AsTheSystemCall ReadAsCalled
