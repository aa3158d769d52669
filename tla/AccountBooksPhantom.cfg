\* A rounded fill lets a deposit be recorded that never arrived.
SPECIFICATION Spec
CONSTANTS
  r1 = r1
  r2 = r2
  None = None
  References <- TwoReferences
  Amounts <- DustAndMore
  Tolerance <- OneUnit
  MaxGap = 0
  Rounding = 1
  MaxOpening = 1
  MaxOutside = 2
  MaxOrders = 2
  DepositsWait = TRUE
INVARIANTS
  NoPhantomDeposit
CHECK_DEADLOCK FALSE
