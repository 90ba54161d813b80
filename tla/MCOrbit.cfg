SPECIFICATION FairSpec
CONSTANTS
  SIZE = 2
  STEP = 9
  Thread = {t1, t2, t3}
  Watched = {t1}
  MaxTickets = 3
INVARIANTS SlotOwned AnswersHonest
PROPERTIES ImplementsTickets OpsComplete
CHECK_DEADLOCK FALSE
