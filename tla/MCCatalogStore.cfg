SPECIFICATION FairSpec
CONSTANTS
  s1 = s1
  s2 = s2
  k1 = k1
  k2 = k2
  Stores = {s1}
  Keys = {k1, k2}
  KeysOf <- DriverKeys
  NoFile = NoFile
  MaxVersion = 4
  MaxFailures = 2
  MaxCrashes = 2
  Ticks = {1, 2}
INVARIANTS TypeOK DiskReadable AckedIsDurable FailureIsIsolated
PROPERTIES ImplementsDurableMap WritesSettle
CHECK_DEADLOCK FALSE
