\* Two decisions compete for runs of one row or two; two horizons; half an hour is a tick.
SPECIFICATION FairSpec
CONSTANTS
  Decisions <- TwoDecisions
  Horizons <- TwoHorizons
  Longest = 2
  Hour = 2
  Grace = 1
  Limits <- OneOrTwo
INVARIANTS
  SettledPrices
  CompleteWhole
PROPERTIES
  NothingLost
  CompletesEventually
CHECK_DEADLOCK FALSE
