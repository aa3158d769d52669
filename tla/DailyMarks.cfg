\* Three days, deposits of one or two up to four in all, equity from nothing to three.
SPECIFICATION Spec
CONSTANTS
  Amounts <- TwoAmounts
  MaxEquity = 3
  MaxDeposit = 4
  MaxDay = 2
INVARIANTS
  LossIsTradingLoss
  LossIsLimited
PROPERTIES
  BaseKept
CHECK_DEADLOCK FALSE
