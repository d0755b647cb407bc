SPECIFICATION FairSpec
CONSTANTS
  o1 = o1
  o2 = o2
  c1 = c1
  k1 = k1
  p1 = p1
  p2 = p2
  d1 = d1
  d2 = d2
  a1 = a1
  Orders = {o1, o2}
  Scheduled = {o1, o2}
  Customers = {c1}
  Coupons = {k1}
  Staff <- MCStaffSmall
  Scope <- MCScope
  Handlers = {h1, h2}
  CronRuns = {r1}
  MaxRequests = 5
  MaxRestarts = 1
  BatchSize = 1
  NoUser = NoUser
  NoCustomer = NoCustomer
  NoCoupon = NoCoupon
  NoOrder = NoOrder
  OneRequestPerOrder = TRUE
  Opening <- MCOpening
  CustomerOf <- MCCustomerOf
  CouponOf <- MCCouponOf
  TotalOf <- MCTotalOf
  RedeemOf <- MCRedeemOf
  EarnedOf <- MCEarnedOf
INVARIANT SettledAsEnded
PROPERTY StepsAllowed
PROPERTY SettlesAsPromised
INVARIANT NotifiedAfterActivation
PROPERTY DueOrdersActivated
CHECK_DEADLOCK FALSE
