\* Two days of one month and one of the next; two attempts; budgets that a retry may exhaust.
SPECIFICATION Spec
CONSTANTS
  Reservations <- TwoPrompts
  Daily = 4
  Monthly = 6
  Attempts = 2
  DaysInMonth = 2
  MaxDay = 2
  MaxRequests = 5
INVARIANTS
  ChargesCovered
  ChargesWithinBudget
  DecisionUsable
CHECK_DEADLOCK FALSE
