SPECIFICATION SiteSpec
CONSTANTS
  None = None
  Org = {o1, o2}
  MaxContracts = 2
  MaxProofs = 2
  MaxSlots = 2
  MaxCalls = 2
  RecordId = {rec1, rec2}
  OtherId = {rec3}
  Included = {f1}
  OtherRef = {f2}
  Sample = f1
  MaxLookups = 2
  Waitlist = {form1, form2}
  Message = {form3}
  Address = {adr1, adr2, adr3}
  Elsewhere = {adr3}
  MaxSubmits = 3
  Window = 2
  MaxPerWindow = 2
  MaxClock = 4
  MaxPosts = 4
  Asset = {a1}
  Ttl = 3
  Timeout = 3
  MaxSupplyClock = 6
  MaxReads = 2
  Menu = {mobile, nav}
  Mobile = mobile
  Position = {0, 9, 20}
  Height = {10, 30}
  Viewport = {10, 12}
  Nodes = 3
  Mark = {"reveal", "rows", "draw", "intro"}
  MaxMarks = 2
  MaxMoved = 2
  MaxRuns = 3
  Days = 3
  Coverage = {"103.61%", "99.40%"}
  ScrollAt = {0, 15, 20, 37, 55, 78, 81, 99, 100}
  Owed = 24311
  Held = {24310, 25190}
  Growth = 31
  DaysKept = 4
  Reserves = {8500, 9995, 10000, 10361}
  Customer = {n1, n2}
  Stranger = {x1}
INVARIANTS
  SiteTypeOK
  AnswersAreOfTheRecord
  SettledIsAsked
  MailsAreHonest
  FiguresAreTrue
  PageSettles
PROPERTIES
  SiteSteps
SYMMETRY Interchangeable
CHECK_DEADLOCK FALSE
