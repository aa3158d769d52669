--------------------------- MODULE MCTradingCycle ---------------------------
(***************************************************************************)
(* A small instance of TradingCycle for TLC.                               *)
(***************************************************************************)
EXTENDS TradingCycle

TwoPortfolios == {"p1", "p2"}
TwoStrategies == {"default", "fast"}

\* Two portfolios trading the same product; two products in one portfolio.
Shared == <<[portfolio |-> "p1", product |-> "x"], [portfolio |-> "p1", product |-> "y"]>>
Apart == <<[portfolio |-> "p1", product |-> "x"], [portfolio |-> "p2", product |-> "x"]>>
TwoLayouts == {Shared, Apart}

TwoCadences == [s \in TwoStrategies |-> IF s = "default" THEN 3 ELSE 1]
OldLedgers == {{}, {<<"live", "p1">>}}
=============================================================================
