\* Two cycles in three hours that midnight divides; any crashes; one move; every old schema.
SPECIFICATION Spec
CONSTANTS
  Portfolios <- TwoPortfolios
  Products = {"x", "y"}
  Strategies <- TwoStrategies
  Default = "default"
  Layouts <- TwoLayouts
  LegacyLedgers <- OldLedgers
  Cadence <- TwoCadences
  DayLength = 2
  MaxTradesPerDay = 1
  MaxTime = 2
  MaxCycles = 2
  MaxMoves = 1
INVARIANTS
  SchemaServes
  OneOrderPerPeriod
  OneStrategy
  TradesBounded
  OneOpenOrder
  DecisionsFirst
  CompletedSettled
PROPERTIES
  LogKept
CHECK_DEADLOCK FALSE
