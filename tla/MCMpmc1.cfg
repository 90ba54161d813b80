SPECIFICATION FairSpec
CONSTANTS
  SIZE = 2
  None = None
  Producer = {p1, p2}
  Consumer = {c1, c2}
  MaxTickets = 4
INVARIANTS SlotExclusive SizeAtRest
PROPERTIES ImplementsBag ProducerOrder WaitedSlotsServed
CHECK_DEADLOCK FALSE
