SPECIFICATION Spec
CONSTANTS
  u1 = u1
  u2 = u2
  a = a
  b = b
  p1 = p1
  p2 = p2
  k1 = k1
  c1 = c1
  c2 = c2
  c3 = c3
  Checkouts = {c1, c2}
  Users = {u1, u2}
  Items = {a}
  Phones = {}
  Coupons = {}
  UserOf <- MCUserOf
  PhoneOf <- MCPhoneNone
  CouponOf <- MCCouponNone
  Named = {c1, c2}
  RedeemOf <- MCRedeemNone
  OpeningCart <- MCCartOne
  OpeningStock <- MCStock
  OpeningBalance <- MCBalance
  PriceOf <- MCPriceOf
  UsageLimit <- MCOnce
  PerUserLimit <- MCOnce
  DiscountOf <- MCDiscountOf
  MaxLines = 2
  MaxAdds <- MCMaxAdds
  Paces = {"any"}
  NoPhone = NoPhone
  NoCoupon = NoCoupon
  NoOrder = NoOrder
  Free = Free
  Unwritten = Unwritten
INVARIANT StockConserved
CHECK_DEADLOCK FALSE
