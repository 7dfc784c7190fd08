CONSTANTS
  h1 = h1
  h2 = h2
  HttpThread = {h1, h2}
  Coordinator = Coordinator
  Nobody = Nobody
  MaxMessages = 3
  MaxSources = 2
  MaxRevisions = 1
  MaxAttempts = 2
  SettingsChange = TRUE
  PromptRecovery = FALSE
SPECIFICATION CyclesSpec
SYMMETRY AlikeThreads
CONSTRAINT SteadyFromThird
INVARIANTS
  HistoryInv
  RepliesInOrder
  OutboxFactAgrees
  EffectsFenced
  OneGenerator
  AnsweredOnce
  SupersededIsSilent
  SuccessorAccepted
CHECK_DEADLOCK FALSE
