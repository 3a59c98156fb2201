SPECIFICATION Spec
CONSTANTS
  s1 = s1
  s2 = s2
  k1 = k1
  k2 = k2
  Stores = {s1, s2}
  Keys = {k1, k2}
  KeysOf <- OwnKeys
  NoFile = NoFile
  MaxVersion = 2
  MaxFailures = 0
  MaxCrashes = 2
  Ticks = {1, 2}
INVARIANTS AckedIsDurable
CHECK_DEADLOCK FALSE
