SPECIFICATION ProgressSpec
CONSTANTS
  v1 = v1
  v2 = v2
  A = A
  B = B
  Variants = {v1, v2}
  Stores = {A, B}
  NoStore = NoStore
  NoCall = NoCall
  StoreOf <- MCStoreOf
  ModeOf <- MCModeOf
  Bare = {v1, v2}
  Opening <- MCOpening
  MaxCalls = 2
  MaxGets = 1
  MaxTaps <- MCMaxTaps
  MaxUpsets <- MCMaxOne
  Tabs = {t1}
  Polls = {1, 2}
  MaxOrders = 2
  HistoryMax = 2
  MaxLost = 1
  TrackManners = {"solo"}
  Requests = {r1, r2, r3}
  Threshold = 2
  HalfOpenMax = 1
  MaxFailures = 3
INVARIANT WishesCarried
PROPERTY WishesKept
 
PROPERTY EndedLeaves
INVARIANT CircuitSound
PROPERTY TrialsEnd
CHECK_DEADLOCK FALSE
