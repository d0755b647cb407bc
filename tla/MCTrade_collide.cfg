SPECIFICATION TradeSpec
CONSTANTS
  o1 = o1
  o2 = o2
  c1 = c1
  k1 = k1
  p1 = p1
  p2 = p2
  d1 = d1
  d2 = d2
  a1 = a1
  Orders = {o1}
  Scheduled = {o1}
  Customers = {c1}
  Coupons = {k1}
  Staff <- MCStaff
  Scope <- MCScope
  Handlers = {h1, h2}
  CronRuns = {r1}
  MaxRequests = 6
  MaxRestarts = 1
  BatchSize = 1
  NoUser = NoUser
  NoCustomer = NoCustomer
  NoCoupon = NoCoupon
  NoOrder = NoOrder
  OneRequestPerOrder = FALSE
  Opening <- MCOpening
  CustomerOf <- MCCustomerOf
  CouponOf <- MCCouponOf
  TotalOf <- MCTotalOf
  RedeemOf <- MCRedeemOf
  EarnedOf <- MCEarnedOf
  Kinds = {1, 2}
  Prices = {1, 2}
  TagAdmins = {a1}
  TagManners = {"serial", "any"}
  MaxTagSaves <- MCTagSaves
  Goods = {1, 2}
  Sorts = {1, 2}
  Opened = {1, 2}
  ShelfManners = {"calm", "hasty"}
  DefaultStock = 1
  Low = 1
  MaxTop = 2
  MaxShelfActs <- MCShelfActs
  MaxReforms = 1
SYMMETRY HandlerSymmetry
INVARIANT OrdersSound
INVARIANT AccountsAgree
PROPERTY OnlyPendingBecomesNew
INVARIANT TagsSound
INVARIANT ShelfSound
CHECK_DEADLOCK FALSE
