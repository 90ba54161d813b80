SPECIFICATION Spec
CONSTANTS
  Modes = {"bulk", "bulk_concurrent"}
  Kinds = {"wsq"}
  Thieves = 2
  CAP = 4
  COUNT = 8
  BATCH = 2
  BURST = 3
INVARIANT AllPushed
CHECK_DEADLOCK FALSE
