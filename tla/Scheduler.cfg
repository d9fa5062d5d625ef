CONSTANTS
  root = root
  a = a
  b = b
  c = c
  Null = Null
  Fibers = {root, a, b, c}
  Root = root
  Status = {0, 1}
  SqEntries = 1
  CqEntries = 2
SPECIFICATION Spec
SYMMETRY Symmetry
INVARIANTS OnePlace CountsExact TurnsHaveFibers CompletionsFit JoinedStaysJoinable DrainTrapIsCycle DrainedMeansAllEnded HandleStoredFirst
PROPERTIES StatusNotLost ImplementsThreads
