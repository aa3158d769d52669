---------------------------- MODULE MCRiskSizing ----------------------------
(***************************************************************************)
(* A small instance of RiskSizing for TLC.                                 *)
(***************************************************************************)
EXTENDS RiskSizing

TwoAssets == {1, 2}
BothTypes == {"limit_ioc", "market_ioc"}
SomeBids == {5, 6, 7}
SomeTargets == {0, 3, 8}
SomeCash == {0, 50}
SomeHoldings == {0, 4}
=============================================================================
