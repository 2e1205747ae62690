SPECIFICATION FairSpec
CONSTANTS
  MaxConv = 0
  MaxCtl = 2
  ConvKinds <- PlainMessages
  CtlKinds <- ProbesOrKey
  Contents <- AllContents
  MAX_RETRIES = 2
  CONTROL_MAX_RETRIES = 2
  Dispatchers = {d1}
  Views <- OnlyReady
  ENTER_VERIFY_MAX_RETRIES = 1
  MaxUncounted = 0
  MaxCrashes = 1
  Codex = TRUE
INVARIANT NewestNotSuperseded
PROPERTY DeadlineResolves
