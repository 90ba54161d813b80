SPECIFICATION FairSpec
CONSTANTS
  SIZE = 4
  Value = {a, b}
  None = None
  Kinds = {"spsc", "spsc_1", "rigtorp", "dro", "droForce", "joad", "joadPow2"}
  MaxItems = 6
INVARIANTS RingOrder CellsSafe
PROPERTIES ImplementsFifo BlockingOpsComplete
CHECK_DEADLOCK FALSE
