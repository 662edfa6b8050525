\* The corner of the configuration space: one slot, no latency, no borrowing, no
\* maintenance margin, orders that may fill for nothing.  Limit orders rest for two
\* bars, and a driver that need not hold takes an episode to its end.
SPECIFICATION EpisodeSpec
CONSTANTS
  Scale = 10
  FeeBps = 2
  SlippageBps = 0
  MaxLeverage = 1
  MaintenanceRateBps = 0
  MaintenanceAmount = 0
  N = 5
  Markets <- MCMarkets
  MaxOrders = 1
  InitialCash = 1000
  MarketLatencyBars = 0
  LimitTtlBars = 3
  Actions <- MCActions
  Draws = {0, 1, 2}
PROPERTIES
  ImplementsTwoSidedBook
  EpisodeEnds
