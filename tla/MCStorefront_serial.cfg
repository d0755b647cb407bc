SPECIFICATION StorefrontSpec
CONSTANTS
  u1 = u1
  u2 = u2
  a = a
  b = b
  p1 = p1
  p2 = p2
  k1 = k1
  c1 = c1
  c2 = c2
  c3 = c3
  Checkouts = {c1, c2, c3}
  Users = {u1, u2}
  Items = {a, b}
  Phones = {p1}
  Coupons = {k1}
  UserOf <- MCUserOf
  PhoneOf <- MCPhoneShared
  CouponOf <- MCCouponOf
  Named = {c1, c2, c3}
  RedeemOf <- MCRedeemOf
  OpeningCart <- MCCartOne
  OpeningStock <- MCStock
  OpeningBalance <- MCBalance
  PriceOf <- MCPriceOf
  UsageLimit <- MCThrice
  PerUserLimit <- MCTwice
  DiscountOf <- MCDiscountOf
  MaxLines = 3
  MaxAdds <- MCMaxAdds
  Paces = {"serial", "any"}
  NoPhone = NoPhone
  NoCoupon = NoCoupon
  NoOrder = NoOrder
  Free = Free
  Unwritten = Unwritten
  g1 = g1
  b1 = b1
  b2 = b2
  g2 = g2
  Visitors = {r1}
  Editors = {1, 2}
  PageGroups = {{"publicSettings"}, {"bannersActive"}, {"categoriesPublic"}, {"productsPromotions"}, {"marketplaceHome", "storesShowcase", "marketplacePopular"}}
  Saves = {"updateDeliverySettings", "updateSupportSettings", "updateSchedulingSettings", "updateBanner", "saveBanner", "saveCategory", "saveProduct", "editProduct", "saveStore", "saveListing"}
  CacheManners = {"serial", "any"}
  MaxSaves = 2
  Wares = {g1, b1, b2, g2}
  Opening <- MCShelf
  Filters = {"newest", "biggest"}
  FitsOf <- MCFitsOf
  Market = {b1}
  Bare = {b2}
  PageSize = 2
  PageViews = {"grid", "store", "discounts", "category", "search"}
  PageManners = {"calm", "any"}
  PageCalls = {1, 2}
  MaxAsked <- MCMaxAsked
  MaxMoves = 1
  MaxErrors = 1
  Places = {"home", "work"}
  FormManners = {"calm", "hasty"}
  MaxFormActs <- MCFormActs
  MaxSaved = 3
  Tabs = {t1, t2}
  Polls = {1, 2}
  MaxOrders = 2
  HistoryMax = 2
  MaxLost = 0
  TrackManners = {"solo", "tabs", "legacy"}
  MaxEvents = 5
  MaxBatch = 2
  MaxQueue = 3
  Flights = {1, 2}
  MaxNetFaults = 2
  MaxCloses = 1
INVARIANT OncePerCustomer
PROPERTY SerialOrdersSound
INVARIANT CacheSound
INVARIANT PagesSound
INVARIANT AddressesSound
INVARIANT TrackingSound
 
CHECK_DEADLOCK FALSE
