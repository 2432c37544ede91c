------------------------- MODULE MCFabricGenerator --------------------------
(***************************************************************************)
(* Small instances of FabricGenerator for TLC.                             *)
(***************************************************************************)
EXTENDS FabricGenerator

\* The last minute of a month and two instants of the next.
MonthTurns == <<<<5, 31, 23, 59, 10>>, <<6, 1, 0, 0, 5>>, <<6, 1, 7, 0, 5>>>>
MonthTurn == {MonthTurns[i] : i \in 1 .. Len(MonthTurns)}

\* The last minute of a month and the first of the next.
TwoMonths == SubSeq(MonthTurns, 1, 2)
=============================================================================
