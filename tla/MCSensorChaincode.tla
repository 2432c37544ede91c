------------------------- MODULE MCSensorChaincode --------------------------
(***************************************************************************)
(* A small instance of SensorChaincode for TLC.  The instants of MonthEnd  *)
(* lie around the end of a month, one in its last minute and two in the    *)
(* first minutes of the next, so that logs share all of their frames, only *)
(* the coarse ones, or none.                                               *)
(***************************************************************************)
EXTENDS SensorChaincode

MonthEnd == {<<5, 31, 23, 59, 10>>, <<6, 1, 0, 0, 5>>, <<6, 1, 0, 1, 5>>}

\* Values of both signs.
Readings == {-2, 3}
=============================================================================
