\* The services beside the agent, one at a time.
SPECIFICATION MCSpec
CONSTANTS
  Tools = {a, b}
  Unnamed = {b}
  Horizon = 3
  MaxStops = 1
  MaxRestarts = 1
  Delay = 2
  Window = 1
  MatchWindow = 3
  Ttl = 4
  ClearGrace = 2
  Limit = 1
  Grace = 0
  Cooldown = 1
  NoCall = NoCall
  Intakes = {i1, i2}
  Sources = {m1, m2, m3}
  Syncs = {s1, s2}
  Keys = {"k1"}
  CooldownTtl = 1
  LastSecond = 2
  MaxRows = 3
  MaxCheckpoints = 2
  t1 = t1
  t2 = t2
  Tasks <- One
  Kinds <- OfAnyKind
  Ops <- AllOps
  MaxLate = 1
  MaxRaces = 1
  MaxQueued = 1
  MaxCrashes = 1
  Sends = {1, 2}
  Texts = {"x", "y"}
  States = {"busy", "idle"}
  MaxReconnects = 1
  MaxMessages = 3
  MaxOutages = 1
  MaxPipe = 1
INVARIANTS
  TypeOK
  HistoryAccounted
  OnePromptPerWindow
  CallsAreTrue
  OneRowOneNotice
  NothingSkipped
  PageIsTrue
PROPERTIES EscalatesTheInterrupted
CHECK_DEADLOCK FALSE
