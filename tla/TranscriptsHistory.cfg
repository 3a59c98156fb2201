SPECIFICATION Spec
CONSTANTS
  Sessions = {s1, s2}
  None = None
  MaxItems = 3
  MaxChain = 2
  MaxAll = 3
PROPERTY FileKeepsHistory
CHECK_DEADLOCK FALSE
