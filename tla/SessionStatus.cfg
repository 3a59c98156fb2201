SPECIFICATION Spec
CONSTANTS
  a = a
  b = b
  Callers = {a, b}
  Offered <- Users
  Nobody = Nobody
  MaxRuntimes = 7
  MaxCalls = 7
  MaxFailures = 1
INVARIANTS StatusIsTrue EntryIsCurrent
CHECK_DEADLOCK FALSE
