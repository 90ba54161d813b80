SPECIFICATION FairSpec
CONSTANTS
  SIZE = 4
  Value = {a, b}
  NoItem = NoItem
  MaxItems = 6
INVARIANTS NoDataRace SizeNeverUnderflows LiveObjects
PROPERTIES ImplementsFifo BlockingOpsComplete
CHECK_DEADLOCK FALSE
