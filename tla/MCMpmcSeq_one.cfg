SPECIFICATION Spec
CONSTANTS
  SIZE = 1
  Value = {a}
  None = None
  Producer = {p1}
  Consumer = {c1}
  MaxTickets = 3
INVARIANT AtMostCapacity
CHECK_DEADLOCK FALSE
