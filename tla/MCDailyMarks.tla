---------------------------- MODULE MCDailyMarks ----------------------------
(***************************************************************************)
(* A small instance of DailyMarks for TLC.                                 *)
(***************************************************************************)
EXTENDS DailyMarks

TwoAmounts == {1, 2}
=============================================================================
