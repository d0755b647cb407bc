SPECIFICATION Spec
CONSTANTS
  apple = apple
  tea = tea
  cheese = cheese
  Items = {cheese}
  PriceOf <- MCPriceOf
  ModeOf <- MCModeOf
  CashbackOf <- MCCashbackOf
  Offers <- MCOffers
  EnvDefaults <- MCEnvDefaults
  Paces = {"calm"}
  MaxSteps <- MCMaxSteps
  MaxAsked = 2
  MaxStock = 4
  NoCart = NoCart
  NoConfig = NoConfig
INVARIANT ChargedAsShown
CHECK_DEADLOCK FALSE
