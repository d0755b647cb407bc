SPECIFICATION Spec
CONSTANTS
  o1 = o1
  o2 = o2
  c1 = c1
  k1 = k1
  p1 = p1
  p2 = p2
  d1 = d1
  d2 = d2
  a1 = a1
  Orders = {o1}
  Scheduled = {}
  Customers = {c1}
  Coupons = {k1}
  Staff <- MCStaff
  Scope <- MCScope
  Handlers = {h1, h2}
  CronRuns = {r1}
  MaxRequests = 6
  MaxRestarts = 0
  BatchSize = 1
  NoUser = NoUser
  NoCustomer = NoCustomer
  NoCoupon = NoCoupon
  NoOrder = NoOrder
  OneRequestPerOrder = FALSE
  Opening <- MCOpening
  CustomerOf <- MCCustomerOf
  CouponOf <- MCCouponOf
  TotalOf <- MCTotalOf
  RedeemOf <- MCRedeemOf
  EarnedOf <- MCEarnedOf
SYMMETRY HandlerSymmetry
PROPERTY TableFollowed
CHECK_DEADLOCK FALSE
