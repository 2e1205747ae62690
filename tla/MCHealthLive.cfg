SPECIFICATION FairSpec
CONSTANTS
  t1 = t1
  r1 = r1
  c1 = c1
  Timers = {t1}
  Routers = {r1}
  Checkers = {}
  InitialHealth = {"ok", "rate_limited", "auth_failed", "down"}
  InitialWorlds <- Good
  Turning = {"c4"}
  Panes <- AllPanes
  Logins <- AllLogins
  MaxTurns = 1
  MaxRestarts = 0
  MaxFailures = 1
PROPERTIES HealthReturns PendingResolved
