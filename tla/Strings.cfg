CONSTANTS
  Size = 5
  UcharRange = 2
  Block = 4
  Scalar = 2
  Longest = 8
SPECIFICATION StringsSpec
CHECK_DEADLOCK FALSE
INVARIANTS MovedWhole FirstDifferenceDecides
