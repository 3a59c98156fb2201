SPECIFICATION Spec
CONSTANTS
  f1 = f1
  f2 = f2
  c1 = c1
  Folders = {f1, f2}
  Scopes = {c1}
  None = None
  PerRoot = 2
  Total = 2
  MaxTerminals = 4
  MaxPtys = 3
SYMMETRY Symmetry
INVARIANTS TypeOK ProcessesAreOwned TerminalsAreFiled
CHECK_DEADLOCK FALSE
