CONSTANTS
  daily = daily
  once = once
  Nothing = Nothing
  Job = {daily, once}
  Reminder = {daily}
  Agent = {once}
  Repeating = {daily}
  MaxRuns = 2
  MaxThreads = 1
  MaxCrashes = 1
SPECIFICATION FairAutomationSpec
CHECK_DEADLOCK FALSE
CONSTRAINT OneJobAtATime
INVARIANTS OneActiveRun EndedStaysOff CompletedWasDone
PROPERTIES OutcomeIsFinal RunsEnd
