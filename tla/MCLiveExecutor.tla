--------------------------- MODULE MCLiveExecutor ---------------------------
(***************************************************************************)
(* Small instances of LiveExecutor for TLC.                                *)
(***************************************************************************)
EXTENDS LiveExecutor, TLC

CONSTANTS l1, l2, p1

OneLive == {l1}
TwoLive == {l1, l2}
OnePaper == {p1}
NoPaper == {}

\* Live orders are interchangeable: Init and Next treat them alike.
LiveSymmetry == Permutations(TwoLive)
=============================================================================
