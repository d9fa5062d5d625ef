CONSTANTS
  a = a
  b = b
  c = c
  x = x
  y = y
  Control = Control
  Null = Null
  Fibers = {a, b, c}
  Bare = {x, y}
SPECIFICATION Spec
SYMMETRY Symmetry
CHECK_DEADLOCK FALSE
INVARIANTS ThreadPointerKept FramesPaired StoppedOnOwnStack RequestFromResumed EndingNeverFaults EndedNeverRuns
