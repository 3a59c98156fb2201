SPECIFICATION FairSpec
CONSTANTS
  d1 = d1
  d2 = d2
  Dialogs = {d1, d2}
  Timed = {d1}
  Reset = reset
  Nothing = nothing
  MaxResets = 2
  MaxEvictions = 2
  MaxFailures = 2
INVARIANTS TypeOK PendingIsWaiting WaitingIsReachable
PROPERTIES ImplementsQuestions RequestsArrive AnswersSettle
CHECK_DEADLOCK FALSE
