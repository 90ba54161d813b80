SPECIFICATION FairSpec
CONSTANTS
  SIZE = 2
  Value = {a, b}
  NoItem = NoItem
  MaxItems = 5
INVARIANTS IInv SizeBounds
PROPERTIES ImplementsFifo BlockingOpsComplete
CHECK_DEADLOCK FALSE
