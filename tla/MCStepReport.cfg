\* Every order of fills, expiries, liquidations and resets on five bars, step by
\* step, some of the steps rows of step_many, with a recorder that may raise at the
\* end.
SPECIFICATION ReportSpec
CONSTANTS
  Scale = 10
  FeeBps = 1
  SlippageBps = 1
  MaxLeverage = 3
  MaintenanceRateBps = 2
  MaintenanceAmount = 50
  N = 5
  Markets <- MCMarkets
  MaxOrders = 2
  InitialCash = 1000
  MarketLatencyBars = 1
  LimitTtlBars = 2
  Actions <- MCActions
  Draws = {0, 2}
  LeverageCeiling = 1000
  MaxMetered = 1
  MaxRows = 2
INVARIANTS
  OneLiveOrderPerSide
  PublishedBookIsMargined
  OrderLifetime
  RewardsAddUp
  LeverageIsBacked
  OrdersAreConserved
  MeterFollowsAccount
PROPERTIES
  FillKeepsInitialMargin
  FillOnlyCosts
  ReportAccountsForFill
  ImplementsEpisode
  ImplementsTwoSidedBook
