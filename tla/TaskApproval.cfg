CONSTANTS
  a = a
  Task = {a}
  Timeout = {30, 900}
  Asked = 30
  MaxCalls = 2
  MaxCrashes = 1
  Nothing = Nothing
SPECIFICATION FairTaskSpec
CHECK_DEADLOCK FALSE
INVARIANTS RunsAsApproved RunsOnce WaitingIsPending
PROPERTIES StoppedStaysOff QueuedIsTaken WaitingEnds
