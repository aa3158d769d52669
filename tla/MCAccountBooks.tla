--------------------------- MODULE MCAccountBooks ---------------------------
(***************************************************************************)
(* Small instances of AccountBooks for TLC.                                *)
(***************************************************************************)
EXTENDS AccountBooks

CONSTANTS r1, r2

\* A difference of one unit is tolerated in either currency.
OneUnit == [c \in Currencies |-> 1]
TwoReferences == {r1, r2}
\* Deposits within the tolerance and beyond it, or beyond it only.
DustAndMore == {1, 2}
MoreThanDust == {2}
=============================================================================
