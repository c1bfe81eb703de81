SPECIFICATION PubSpec
CONSTANTS
  MaxU64 = 200
  Call = {c1, c2}
  Contract = {k1, k2}
  Amount = {10, 11}
  NoContract = NoContract
  MaxAttempts = 2
  NetworkFaults = FALSE
  Cancels = FALSE
INVARIANTS
  PermanentOnlyIfRefused
CHECK_DEADLOCK FALSE
