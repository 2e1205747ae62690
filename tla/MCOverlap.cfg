SPECIFICATION Spec
CONSTANTS
  MaxConv = 1
  MaxCtl = 1
  ConvKinds <- PlainMessages
  CtlKinds <- Heartbeats
  Contents <- AllContents
  MAX_RETRIES = 2
  CONTROL_MAX_RETRIES = 2
  Dispatchers = {d1, d2}
  Views <- OnlyReady
  ENTER_VERIFY_MAX_RETRIES = 1
  MaxUncounted = 0
  MaxCrashes = 1
  Codex = FALSE
INVARIANTS TypeOK ClaimExclusive RunningIsHeld
PROPERTY ConvFinalStays
