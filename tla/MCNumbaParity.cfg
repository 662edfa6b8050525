\* The compiled kernel against the step of EngineCore, on the same instance, and
\* alone, with codes nobody validated.
SPECIFICATION PathsSpec
CONSTANTS
  Scale = 10
  FeeBps = 1
  SlippageBps = 1
  MaxLeverage = 3
  MaintenanceRateBps = 2
  MaintenanceAmount = 50
  N = 5
  Markets <- MCMarkets
  MaxOrders = 2
  InitialCash = 1000
  MarketLatencyBars = 1
  LimitTtlBars = 2
  Actions <- MCActions
  Draws = {0, 1, 2}
  LeverageCeiling = 1000
  MaxMetered = 0
  MaxRows = 0
  NoPrice = NoPrice
  CodedRows <- MCCodedRows
INVARIANTS
  PublishedBookIsMargined
  KernelRefusesAlike
PROPERTIES
  KernelAgrees
