SPECIFICATION FairSpec
CONSTANTS
  Requests = {q1, q2}
  Watches = {w1}
  MaxFailures = 3
  Window = 2
  MaxTime = 5
INVARIANTS TypeOK CleanExit GivesUp
PROPERTY StopsOnSignal
CHECK_DEADLOCK FALSE
