---------------------------- MODULE MCApiBudget ----------------------------
(***************************************************************************)
(* A small instance of ApiBudget for TLC.                                  *)
(***************************************************************************)
EXTENDS ApiBudget

\* A short and a long prompt.
TwoPrompts == {2, 3}
=============================================================================
