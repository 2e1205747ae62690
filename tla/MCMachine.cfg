\* Setting up a machine and keeping it in order, one part at a time.
SPECIFICATION MCSpec
CONSTANTS
  MaxRelease = 2
  MaxRuns = 3
  MaxEdits = 1
  MaxFaults = 2
  MaxDeaths = 1
  MaxLaunches = 1
  NoFile = NoFile
  MaxInits = 2
  Runtimes = {"claude", "codex"}
  Ports = {1, 2, 3}
  Packages = {"pm2"}
  Foreign = {1}
  Agents = {"claude", "codex"}
  Healths = {"ok", "unavailable"}
  IdleThreshold = 2
  LastMoment = 5
  LastDay = 2
  MaxMishaps = 1
  NoStatus = NoStatus
  LastTemplate = 2
  KeptBackups = 2
  MaxChanges = 2
  MaxSyncs = 3
  MaxTears = 1
  Values = {v}
  Own = own
  NoValue = none
  MaxJobs = 3
  MaxOwnEdits = 1
  MaxBreaks = 1
  CoreShards <- MCCoreShards
  Declarations <- MCDeclarations
  Rounds = 2
  LastTick = 26
  Link = 3
  Quick = 1
  Skew = 1
  Tolerance = 1
  Gap = 15
  Statuslines = {p1, p2}
  Turns = 3
  LastSession = 2
  LastMinute = 4
  SwitchCooldown = 2
  SyncCooldown = 3
  MaxLapses = 1
  Tiers = {"ok", "warning", "critical"}
  NotifyCooldown = 2
  LastHour = 3
  MaxUnsaved = 1
INVARIANTS
  OneGeneration
  FinishedInitAgrees
  RecordsAreTrue
  HooksInForce
  ReclaimIsExact
  SurvivorsInOrder
  AskedOnce
PROPERTIES OwnerIsTold
CHECK_DEADLOCK FALSE
