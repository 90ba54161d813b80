SPECIFICATION JoadFairSpec
CONSTANTS
  SIZE = 2
  Value = {a}
  None = None
  Producer = {p1, p2}
  Consumer = {c1, c2}
  MaxTickets = 4
INVARIANTS SlotExclusive SizeAtRest LiveCells
PROPERTIES ImplementsTickets TryFailsHonestly BlockedOpsComplete
CHECK_DEADLOCK FALSE
