SPECIFICATION RegistrySpec
CONSTANTS
  MaxU64 = 125
  Address = {own, other}
  Amount = {10, 11, 12, 13}
  h = h
  Root <- Roots
  Garbage = Garbage
  NoOwner = NoOwner
  TTL_THRESHOLD = 2
  TTL_BUMP = 4
  MinTTL = 1
  MaxProofs = 3
  MaxLedger = 6
  MaxU128 = 1000
  FieldP = 1009
  DEPTH = 2
  Customer = {c1, c2}
  Balance = {1, 10, 130}
  MaxRows = 4
  TreeProofs = 2
INVARIANTS
  TypeOK
  Covered
  GrowthBounded
  SteadyPublisherStaysLive
  InclusionIsExact
PROPERTIES
  AppendOnly
  ImplementsRecord
CHECK_DEADLOCK FALSE
