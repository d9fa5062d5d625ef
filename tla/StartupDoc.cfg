CONSTANTS
  Null = Null
  Bits = 4
  SqeSize = 4
  CqeSize = 2
  WordSize = 1
  IntMax = 10
  Inits = 2
  Status = {0, 3}
  Entries = 3
  Images <- Processes
SPECIFICATION Spec
INVARIANTS InstallChecked
