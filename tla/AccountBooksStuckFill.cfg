\* The fill of a sale of the whole position does not fit the stored position.
SPECIFICATION Spec
CONSTANTS
  r1 = r1
  r2 = r2
  None = None
  References <- TwoReferences
  Amounts <- MoreThanDust
  Tolerance <- OneUnit
  MaxGap = 0
  Rounding = 1
  MaxOpening = 1
  MaxOutside = 2
  MaxOrders = 2
  DepositsWait = TRUE
INVARIANTS
  FillsRecordable
CHECK_DEADLOCK FALSE
