CONSTANTS
  a = a
  b = b
  Null = Null
  Owners = {a, b}
  Bits = 7
  Page = 16
  PtrAlign = 2
  TcbSize = 4
  PhdrSize = 6
  RecordSize = 6
  RecordAlign = 2
  StackAlign = 4
  Lengths = {6, 7, 20}
  Images <- Executables
SPECIFICATION MemorySpec
CHECK_DEADLOCK FALSE
SYMMETRY Symmetry
INVARIANTS BlocksContained BlockWhereCodeLooks RecordAboveStack MappingsOwned
