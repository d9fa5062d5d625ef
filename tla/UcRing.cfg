CONSTANTS
  Ops = {o1, o2, o3}
  Zero = Zero
  SqEntries = 3
  CqEntries = 3
  Word = 6
SPECIFICATION FairUcSpec
INVARIANTS EachOnce
PROPERTIES ImplementsIoRing SubmitReturns
