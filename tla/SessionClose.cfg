SPECIFICATION FairSpec
CONSTANTS
  a = a
  b = b
  Callers = {a, b}
  Offered <- Closers
  Nobody = Nobody
  MaxRuntimes = 4
  MaxCalls = 4
  MaxFailures = 1
INVARIANTS TypeOK NoRuntimeLeaks
PROPERTIES CallsReturn
CHECK_DEADLOCK FALSE
