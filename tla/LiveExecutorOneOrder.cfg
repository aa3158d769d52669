\* One live order with two fills and two cancellation attempts: lagging reads, the cancellation
\* clocks, and fills that race a cancellation.
SPECIFICATION Spec
CONSTANTS
  l1 = l1
  l2 = l2
  p1 = p1
  None = None
  LiveIntents <- OneLive
  PaperIntents <- NoPaper
  MaxFills = 2
  VerificationAttempts = 2
  MaxCancelAttempts = 2
  MaxOrderAge = 1
  CancelRetry = 1
  MaxGap = 2
INVARIANTS
  ResolvedMeansBooked
  CancelsAccounted
  TruthAccepted
PROPERTIES
  VerdictIsFinal
  IdentityKept
  CancelJustified
  ProcessesEnd
CHECK_DEADLOCK FALSE
