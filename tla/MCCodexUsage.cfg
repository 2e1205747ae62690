\* The usage of the account as the monitor measures it.
SPECIFICATION UsageSpec
CONSTANTS
  Tiers = {"ok", "warning", "critical"}
  NotifyCooldown = 2
  LastHour = 3
  MaxUnsaved = 0
INVARIANT CodexUsageRefreshes
CHECK_DEADLOCK FALSE
