SPECIFICATION FairSpec
CONSTANTS
  u1 = u1
  u2 = u2
  a = a
  b = b
  p1 = p1
  p2 = p2
  k1 = k1
  c1 = c1
  c2 = c2
  c3 = c3
  Checkouts = {c1, c2, c3}
  Users = {u1, u2}
  Items = {a, b}
  Phones = {p1, p2}
  Coupons = {k1}
  UserOf <- MCUserOf
  PhoneOf <- MCPhoneOwn
  CouponOf <- MCCouponOf
  Named <- MCNamed
  RedeemOf <- MCRedeemOf
  OpeningCart <- MCCartCrossed
  OpeningStock <- MCStock
  OpeningBalance <- MCBalance
  PriceOf <- MCPriceOf
  UsageLimit <- MCTwice
  PerUserLimit <- MCTwice
  DiscountOf <- MCDiscountOf
  MaxLines = 2
  MaxAdds <- MCMaxAdds
  Paces = {"any"}
  NoPhone = NoPhone
  NoCoupon = NoCoupon
  NoOrder = NoOrder
  Free = Free
  Unwritten = Unwritten
INVARIANT CouponWithinLimit
INVARIANT BalancesSound
PROPERTY PlacesOrders
PROPERTY CheckoutsEnd
CHECK_DEADLOCK FALSE
