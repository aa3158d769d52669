----------------------------- MODULE MCOutcomes -----------------------------
(***************************************************************************)
(* A small instance of Outcomes for TLC.                                   *)
(***************************************************************************)
EXTENDS Outcomes

TwoDecisions == {1, 2}
TwoHorizons == {1, 2}
OneOrTwo == {1, 2}
=============================================================================
