CONSTANTS
  h1 = h1
  h2 = h2
  HttpThread = {h1}
  Coordinator = Coordinator
  Nobody = Nobody
  MaxMessages = 2
  MaxSources = 2
  MaxRevisions = 1
  MaxAttempts = 2
  SettingsChange = FALSE
  PromptRecovery = TRUE
SPECIFICATION FairCyclesSpec
PROPERTIES
  NoMessageStranded
  KeepsAnswerPromise
CHECK_DEADLOCK FALSE
