SPECIFICATION Spec
CONSTANTS
  apple = apple
  tea = tea
  cheese = cheese
  Items = {apple, tea, cheese}
  PriceOf <- MCPriceOf
  ModeOf <- MCModeOf
  CashbackOf <- MCCashbackOf
  Offers <- MCOffers
  EnvDefaults <- MCEnvDefaults
  Paces = {"calm", "hasty"}
  MaxSteps <- MCMaxSteps
  MaxAsked = 2
  MaxStock = 4
  NoCart = NoCart
  NoConfig = NoConfig
INVARIANT BillsSound
INVARIANT CalmChargedAsShown
INVARIANT StockSold
CHECK_DEADLOCK FALSE
