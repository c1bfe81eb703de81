SPECIFICATION SchedFairSpec
CONSTANTS
  Sched = {s1, s2}
  daily = daily
  hourly = hourly
  other = other
  Tenants <- DailyBetween
  Plan <- Plans
  Day = 2
  MaxRetries = 2
  NoRun = NoRun
  NoTick = NoTick
  Fails = TRUE
  Stops = TRUE
  Restarts = TRUE
  MaxHour = 1
INVARIANTS
  OneRunPerAttempt
  SkipsNoDueTenant
PROPERTIES
  EveryTickEnds
CHECK_DEADLOCK FALSE
