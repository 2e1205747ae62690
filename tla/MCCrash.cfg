SPECIFICATION FairSpec
CONSTANTS
  MaxConv = 1
  MaxCtl = 0
  ConvKinds <- PlainMessages
  CtlKinds <- NoControls
  Contents <- AllContents
  MAX_RETRIES = 2
  CONTROL_MAX_RETRIES = 3
  Dispatchers = {d1}
  Views <- ReadyOrSick
  ENTER_VERIFY_MAX_RETRIES = 1
  MaxUncounted = 0
  MaxCrashes = 1
  Codex = FALSE
PROPERTY AcceptedIsSettled
