\* A statement of the repository about a step, which TLC refutes.
SPECIFICATION Spec
CONSTANTS
  Scale = 10
  FeeBps = 1
  SlippageBps = 1
  MaxLeverage = 3
  MaintenanceRateBps = 2
  MaintenanceAmount = 50
  N = 5
  Markets <- MCMarkets
  MaxOrders = 2
  InitialCash = 1000
  MarketLatencyBars = 1
  LimitTtlBars = 2
  Actions <- MCActions
  Draws = {0, 1, 2}
PROPERTIES
  NoFillKeepsCash
