CONSTANTS
  h1 = h1
  h2 = h2
  HttpThread = {h1}
  Coordinator = Coordinator
  Nobody = Nobody
  MaxMessages = 1
  MaxSources = 1
  MaxRevisions = 1
  MaxAttempts = 2
  SettingsChange = TRUE
  PromptRecovery = TRUE
SPECIFICATION FairCyclesSpec
PROPERTIES RecoveryIsBounded
CHECK_DEADLOCK FALSE
