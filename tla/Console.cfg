SPECIFICATION ConsoleSpec
CONSTANTS
  None = None
  Tab = {t1, t2}
  Passkey = {p1, p2}
  Deployer = {k1, k2}
  MayBlock = TRUE
  MaxReloads = 1
  MaxSent = 1
  RegistryId = {r1, r2}
  MaxJobs = 3
  MaxMounts = 2
  Custodian = {c1, c2}
  OwnWallet = {w1}
  MaxCycles = 2
  MaxConnects = 2
  MaxLeaves = 2
  Total = {0, 9001, 10001, 11502}
  Published = {0, 26, 53}
  MaxHistory = 3
INVARIANTS
  ConsoleTypeOK
  SignInIsSafe
  CardsAreTrue
  DashboardLosesNothing
  FiguresAreExact
PROPERTIES
  RegressOnlyIfStale
  ConsoleEnds
CHECK_DEADLOCK FALSE
