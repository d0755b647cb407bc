SPECIFICATION OfficeSpec
CONSTANTS
  Products = {p1}
  Images = {i1, i2}
  NoImage = NoImage
  Admins = {a1, a2}
  ImageManners = {"careful", "serial", "any"}
  MaxImages = 1
  MaxRetries = 2
  MaxFaults = 1
  MaxCalls <- MCMaxCalls
  Pickers = {b1}
  Callers = {b2, b3}
  RuleSets <- MCRuleSets
  Openings = {1195, 1290}
  Tick = 45
  MaxTicks = 1
  MaxRuleChanges = 1
  SlotManners = {"serial", "any"}
  Clerks = {1, 2}
  Goods = {g1, g2}
  Stocked = {g1}
  MaxVariants = 4
  Amounts = {0, 2}
  TopMax = 1
  ClerkManners = {"serial", "any"}
  MaxRequests <- MCMaxRequests
  Runs = {1, 2}
  OldTables <- MCOldTables
  Sellers = {seller1, seller2}
  Names = {apple, pear}
  SellerOf <- MCSellerOf
  NameOf <- MCNameOf
  VariantsOf <- MCVariantsOf
  ValueOf <- MCValueOf
  NothingThere = NothingThere
  MigrationManners = {"serial", "any"}
  MaxRuns <- MCMaxRuns
  MaxEdits <- MCMaxEdits
  m1 = m1
  m2 = m2
  m3 = m3
  m4 = m4
  m5 = m5
  seller1 = seller1
  seller2 = seller2
  apple = apple
  pear = pear
  w1 = w1
  w2 = w2
  w3 = w3
  w4 = w4
  big = big
  small = small
  Devices = {d1, d2}
  Staff = {"boss", "picker"}
  Panel = {"boss"}
  Scoped = {"picker"}
  PushCalls = {1, 2}
  MaxEndpoints = 2
  MaxDrops <- MCPushDrops
  MaxNotices <- MCNotices
  PushManners = {"serial", "any"}
  Moments <- MCMoments
  DayLength = 4
  Offset = 0
  Stores = {"A", "B"}
  LateOrders = 1
  ReportManners = {"calm", "busy"}
INVARIANT ImagesSound
 
 
 
INVARIANT PushSound
 
CHECK_DEADLOCK FALSE
