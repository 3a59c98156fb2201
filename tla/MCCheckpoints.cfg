SPECIFICATION Spec
CONSTANTS
  Contents = {c1, c2}
  Absent = Absent
  None = None
  DefaultMax = 1
  Limits = {1, 2}
  MaxIds = 3
  MaxRequests = 3
  MaxEdits = 3
  MaxCrashes = 1
SYMMETRY Symmetry
INVARIANTS TypeOK BlobsReachable RemovalsExplained
PROPERTIES OverwritesAreSaved
CHECK_DEADLOCK FALSE
