SPECIFICATION ReadersSpec
CONSTANTS
  None = None
  Org = {o1, o2}
  MaxContracts = 2
  MaxProofs = 2
  MaxSlots = 2
  MaxCalls = 2
INVARIANT OracleAnswersIfSaved
CHECK_DEADLOCK FALSE
