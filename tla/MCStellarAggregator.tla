------------------------ MODULE MCStellarAggregator -------------------------
(***************************************************************************)
(* Small instances of StellarAggregator and Browser for TLC.  Blocks of    *)
(* one and two stand for the Blocks of 1 to 17280 of the program: an       *)
(* interval of a single ledger, and one that may reach beyond the last.    *)
(***************************************************************************)
EXTENDS Browser

OneAndTwo == <<1, 2>>
Two == <<2>>

\* Tenths of a degree, and of a percent.
Readings == <<<<24, 103, 57, 101>>, <<405, 400, 623, 600>>>>
=============================================================================
