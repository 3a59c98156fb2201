SPECIFICATION FairSpec
CONSTANTS
  Folders = {k1, k2}
  None = None
  MaxOwned = 1
  MaxProcs = 3
  MaxApps = 2
INVARIANTS TypeOK CeilingHolds NothingForgotten SurvivorsExplained
PROPERTIES LiveServersAreSpared StartupsSettle
CHECK_DEADLOCK FALSE
