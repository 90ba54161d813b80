SPECIFICATION Spec
CONSTANTS
  SIZE = 2
  Value = {a, b}
  None = None
  Kinds = {"joadClang"}
  MaxItems = 6
PROPERTY ImplementsFifo
CHECK_DEADLOCK FALSE
