SPECIFICATION Spec
CONSTANTS
  Sessions = {s1, s2}
  None = None
  MaxItems = 3
  MaxChain = 2
  MaxAll = 4
SYMMETRY Symmetry
INVARIANTS EventsInOrder ShownIsComplete QuitKeeps DeltasWillArrive
PROPERTY ImplementsPersistedLog
CHECK_DEADLOCK FALSE
