SPECIFICATION FairSpec
CONSTANTS
  MaxConv = 2
  MaxCtl = 0
  ConvKinds <- MixedMessages
  CtlKinds <- NoControls
  Contents <- AllContents
  MAX_RETRIES = 2
  CONTROL_MAX_RETRIES = 3
  Dispatchers = {d1}
  Views <- UpStaleOrSick
  ENTER_VERIFY_MAX_RETRIES = 2
  MaxUncounted = 1
  MaxCrashes = 0
  Codex = FALSE
INVARIANT OutcomesAreTrue
PROPERTIES ImplementsInbox AcceptedIsSettled
