\* Exact fills, and deposits made while nothing is pending.
SPECIFICATION FairSpec
CONSTANTS
  r1 = r1
  r2 = r2
  None = None
  References <- TwoReferences
  Amounts <- MoreThanDust
  Tolerance <- OneUnit
  MaxGap = 1
  Rounding = 0
  MaxOpening = 2
  MaxOutside = 2
  MaxOrders = 2
  DepositsWait = TRUE
INVARIANTS
  DepositsExact
PROPERTIES
  OrdersResolve
CHECK_DEADLOCK FALSE
