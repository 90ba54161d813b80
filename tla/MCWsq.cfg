SPECIFICATION Spec
CONSTANTS
  Kinds = {"bounded", "unbounded"}
  FirstSize <- MCFirstSize
  Thief = {t1, t2}
  None = None
  MaxItems = 4
  MaxBulk = 2
INVARIANT ArraysSafe
PROPERTIES ImplementsDeque FailuresHonest
CHECK_DEADLOCK FALSE
