SPECIFICATION DemoFairSpec
CONSTANTS
  Visitor = {v1, v2}
  kestrel = kestrel
  harbor = harbor
  Institution = {kestrel, harbor}
  Kind <- Kinds
  Owed <- Owes
  Account <- TwoAccounts
  Scenario = {"solvent", "insolvent"}
  Balance <- Balances
  First <- KestrelFirst
  Holding = {18, 30}
  None = None
  Fails = TRUE
  MaxRuns = 3
  MaxSeeds = 2
INVARIANTS
  DemoTypeOK
  PageIsCurrent
  PublishedShownIsReal
  TornOnlyIfReseeded
PROPERTIES
  EveryStepEnds
CHECK_DEADLOCK FALSE
