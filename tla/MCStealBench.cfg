SPECIFICATION FairSpec
CONSTANTS
  Modes = {"push_pop", "interleaved", "burst", "bulk", "concurrent",
           "continuous", "sparse", "bulk_concurrent", "multi_queue"}
  Kinds = {"ours", "wsq"}
  Thieves = 2
  CAP = 4
  COUNT = 9
  BATCH = 2
  BURST = 3
INVARIANT NothingLost
PROPERTY Terminates
CHECK_DEADLOCK FALSE
