\* Two assets of one portfolio, with limit and with market orders; prices move by up to a fifth
\* between approval and order; the fee and the offset of the limit are a fifth, slippage a tenth.
SPECIFICATION Spec
CONSTANTS
  Assets <- TwoAssets
  Bids <- SomeBids
  Spread = 1
  Targets <- SomeTargets
  CashAmounts <- SomeCash
  Holdings <- SomeHoldings
  Den = 10
  Fee = 2
  OrderTypes <- BothTypes
  Offset = 2
  Slippage = 1
  MaxAsset = 4
  MaxPortfolio = 6
  MaxMove = 2
  MaxOrder = 40
  MinOrder = 4
  LowPrice = 4
  TopPrice = 9
  MaxBase = 5
  MinBase = 1
  QuoteStep = 2
INVARIANTS
  ExposureBounded
  TargetNotCrossed
PROPERTIES
  NeverEnlarged
CHECK_DEADLOCK FALSE
