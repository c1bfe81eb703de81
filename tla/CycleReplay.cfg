SPECIFICATION FairSpec
CONSTANTS
  MaxU64 = 200
  Call = {c1, c2}
  Contract = {k1}
  Amount = {10}
  NoContract = NoContract
  MaxAttempts = 2
  NetworkFaults = TRUE
  Cancels = TRUE
  t1 = t1
  Tenant = {t1}
  Key = {a}
  OwnerOf <- AllForOne
  NoRun = NoRun
  StoreFaults = TRUE
  Crashes = TRUE
  OutlivesLock = TRUE
  Rotations = FALSE
INVARIANTS
  KeyPublishesForOneRun
PROPERTIES
  EveryCycleReturns
CHECK_DEADLOCK FALSE
