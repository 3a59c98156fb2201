SPECIFICATION Spec
CONSTANTS
  a = a
  b = b
  Callers = {a, b}
  Offered <- SendAndSuspend
  Nobody = Nobody
  MaxRuntimes = 3
  MaxCalls = 4
  MaxFailures = 0
PROPERTIES NeverSuspendedRunning
CHECK_DEADLOCK FALSE
