SPECIFICATION Spec
CONSTANTS
  MaxU64 = 200
  Call = {c1, c2}
  Contract = {k1}
  Amount = {10, 11}
  NoContract = NoContract
  MaxAttempts = 2
  NetworkFaults = FALSE
  Cancels = FALSE
  t1 = t1
  Tenant = {t1}
  Key = {a, b}
  OwnerOf <- AllForOne
  NoRun = NoRun
  StoreFaults = FALSE
  Crashes = FALSE
  OutlivesLock = TRUE
  Rotations = FALSE
INVARIANTS
  OneCycleAtATime
CHECK_DEADLOCK FALSE
