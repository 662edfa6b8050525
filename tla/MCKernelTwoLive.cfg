\* A claim about live orders, under the compiled path, which TLC refutes.
SPECIFICATION KernelSpec
CONSTANTS
  Scale = 10
  FeeBps = 1
  SlippageBps = 1
  MaxLeverage = 3
  MaintenanceRateBps = 2
  MaintenanceAmount = 50
  N = 5
  Markets <- MCMarkets
  MaxOrders = 3
  InitialCash = 1000
  MarketLatencyBars = 1
  LimitTtlBars = 3
  Actions <- MCActions
  Draws = {0, 1, 2}
  LeverageCeiling = 1000
  MaxMetered = 0
  MaxRows = 0
  NoPrice = NoPrice
  CodedRows <- MCRestingRows
INVARIANTS
  AtMostTwoLive
