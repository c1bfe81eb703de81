SPECIFICATION Spec
CONSTANTS
  MaxU64 = 200
  Call = {c1, c2}
  Contract = {k1, k2}
  Amount = {0, 10, 11}
  NoContract = NoContract
  MaxAttempts = 1
  NetworkFaults = TRUE
  Cancels = FALSE
  t1 = t1
  Tenant = {t1}
  Key = {a, b}
  OwnerOf <- AllForOne
  NoRun = NoRun
  StoreFaults = TRUE
  Crashes = TRUE
  OutlivesLock = FALSE
  Rotations = TRUE
SYMMETRY Exchangeable
INVARIANTS
  TypeOK
  OneCycleAtATime
  RowsAreOnChain
  RowsInChainOrder
  EvidenceIsSaved
  BaselineFailsOnlyIf
CHECK_DEADLOCK FALSE
