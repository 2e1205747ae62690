SPECIFICATION FairSpec
CONSTANTS
  MaxConv = 0
  MaxCtl = 2
  ConvKinds <- PlainMessages
  CtlKinds <- Maintenance
  Contents <- AllContents
  MAX_RETRIES = 2
  CONTROL_MAX_RETRIES = 3
  Dispatchers = {d1}
  Views <- ReadyOrSick
  ENTER_VERIFY_MAX_RETRIES = 1
  MaxUncounted = 0
  MaxCrashes = 0
  Codex = FALSE
PROPERTY BypassGetsThrough
