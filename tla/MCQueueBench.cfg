SPECIFICATION FairSpec
CONSTANTS
  Drivers = {"sum", "check", "pingpong", "rtt"}
  MaxPairs = 2
  Messages = 2
  Capacity = 2
INVARIANT ResultsRight
PROPERTY Terminates
CHECK_DEADLOCK FALSE
