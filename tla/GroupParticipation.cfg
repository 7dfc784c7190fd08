CONSTANTS
  e1 = e1
  e2 = e2
  Events = {e1, e2}
  MaxMessages = 2
  MaxRestarts = 1
SPECIFICATION FairGroupSpec
CHECK_DEADLOCK FALSE
CONSTRAINT FirstIsE1
INVARIANT AnswersAreFenced
PROPERTIES OutcomeIsOwn CandidateSettles
