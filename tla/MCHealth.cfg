SPECIFICATION Spec
CONSTANTS
  t1 = t1
  r1 = r1
  c1 = c1
  Timers = {}
  Routers = {r1}
  Checkers = {c1}
  InitialHealth = {"ok", "auth_failed"}
  InitialWorlds <- AnyLogin
  Turning = {"pane", "frozen", "stops"}
  Panes <- AllPanes
  Logins <- AllLogins
  MaxTurns = 2
  MaxRestarts = 1
  MaxFailures = 1
INVARIANT TypeOK
PROPERTIES RateLimitedSpared BackoffHolds
