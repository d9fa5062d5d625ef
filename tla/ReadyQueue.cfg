CONSTANTS
  Fibers = {f1, f2, f3, f4}
  Null = Null
SPECIFICATION QueueSpec
INVARIANTS LinksSpellOrder
PROPERTIES ImplementsFifo
