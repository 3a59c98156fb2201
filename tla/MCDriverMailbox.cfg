SPECIFICATION FairSpec
CONSTANTS
  Accumulating = {text, thinking}
  ToolProgress = {toolUpdated}
  SessionUpdated = sessionUpdated
  Lifecycle = {runCompleted}
  Listeners = {l1, l2}
  Nobody = nobody
  MaxEvents = 3
  MaxFailures = 1
INVARIANTS TypeOK NoStrandedEvents Conserved
PROPERTIES ImplementsOrderedDelivery EventuallyDrained
CHECK_DEADLOCK FALSE
