\* One live order under fairness, with one cancellation attempt, and time that may pass.
SPECIFICATION FairSpec
CONSTANTS
  l1 = l1
  l2 = l2
  p1 = p1
  None = None
  LiveIntents <- OneLive
  PaperIntents <- NoPaper
  MaxFills = 1
  VerificationAttempts = 1
  MaxCancelAttempts = 1
  MaxOrderAge = 0
  CancelRetry = 0
  MaxGap = 1
PROPERTIES
  AcceptedOrderResolves
  PreparedResolves
CHECK_DEADLOCK FALSE
