\* Two live orders and one paper order, over crashes, late answers and edits of .env.
SPECIFICATION Spec
CONSTANTS
  l1 = l1
  l2 = l2
  p1 = p1
  None = None
  LiveIntents <- TwoLive
  PaperIntents <- OnePaper
  MaxFills = 1
  VerificationAttempts = 1
  MaxCancelAttempts = 1
  MaxOrderAge = 0
  CancelRetry = 0
  MaxGap = 0
SYMMETRY LiveSymmetry
INVARIANTS
  OneOrderAtRisk
  PostedOnce
  BookedOnce
PROPERTIES
  KeepsPromise
CHECK_DEADLOCK FALSE
