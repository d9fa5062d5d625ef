CONSTANTS
  Fibers = {f1, f2, f3}
  Ops = {o1, o2, o3}
  NoOp = NoOp
  SqEntries = 2
  CqEntries = 2
  MaxItems = 2
SPECIFICATION Spec
SYMMETRY Symmetry
CHECK_DEADLOCK FALSE
INVARIANTS RecordStable NeverStranded EachInOrder
