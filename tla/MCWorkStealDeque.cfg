SPECIFICATION FairSpec
CONSTANTS
  N = 2
  WORDS = 2
  Thief = {t1, t2}
  None = None
  MaxItems = 4
  MaxBulk = 2
INVARIANTS IndicesSafe CopyIntact
PROPERTIES ImplementsDeque FailuresHonest ItemsGetHandedOut
