--------------------------- MODULE MCRangeQueries ---------------------------
(***************************************************************************)
(* An instance of RangeQueries for TLC: bounds around the ends of a short  *)
(* month, of a long one and of a year, and the end Get4Agg has.  The clock *)
(* of the chaincode is an hour ahead of UTC; those of the clients are in   *)
(* UTC, with it, an hour east of it, or five hours west of UTC.            *)
(***************************************************************************)
EXTENDS RangeQueries

Turns == {<<2020, 12, 31, 23, 59, 0>>, <<2021, 2, 1, 0, 0, 0>>, <<2021, 2, 27, 22, 58, 0>>,
          <<2021, 2, 28, 23, 59, 0>>, <<2021, 3, 1, 0, 0, 0>>, <<2021, 3, 1, 5, 30, 0>>,
          <<2021, 3, 31, 5, 59, 0>>, <<2021, 4, 30, 23, 0, 0>>, <<2021, 4, 30, 23, 20, 0>>,
          <<2021, 8, 19, 22, 30, 0>>, <<2021, 8, 21, 3, 0, 0>>, <<2021, 8, 21, 5, 0, 0>>}

Hour == 3600

Log(created, offset, made) == [created |-> created, offset |-> offset, made |-> made]

\* Clocks in UTC.  A bound is the creation time of a log, exactly or with seconds.
InUTC ==
    {Log(<<2021, 2, 1, 0, 0, 0>>, 0, <<2021, 2, 1, 1, 0, 0>>),
     Log(<<2021, 2, 27, 22, 58, 0>>, 0, <<2021, 2, 27, 23, 58, 0>>),
     Log(<<2021, 2, 28, 23, 59, 30>>, 0, <<2021, 3, 1, 1, 0, 5>>),
     Log(<<2021, 3, 1, 0, 0, 0>>, 0, <<2021, 3, 1, 1, 0, 1>>),
     Log(<<2021, 3, 1, 5, 30, 30>>, 0, <<2021, 3, 1, 6, 30, 31>>),
     Log(<<2021, 3, 15, 12, 12, 12>>, 0, <<2021, 3, 15, 13, 12, 12>>),
     Log(<<2021, 3, 31, 5, 59, 0>>, 0, <<2021, 3, 31, 7, 0, 0>>),
     Log(<<2021, 8, 21, 5, 0, 0>>, 0, <<2021, 8, 21, 6, 0, 0>>)}

\* The clock of the chaincode.
InItsZone ==
    {Log(<<2020, 12, 31, 23, 59, 59>>, Hour, <<2021, 1, 1, 0, 0, 0>>),
     Log(<<2021, 2, 27, 22, 59, 0>>, Hour, <<2021, 2, 27, 23, 0, 0>>),
     Log(<<2021, 2, 28, 23, 59, 0>>, Hour, <<2021, 2, 28, 23, 59, 0>>),
     Log(<<2021, 3, 1, 0, 10, 0>>, Hour, <<2021, 3, 1, 0, 10, 0>>),
     Log(<<2021, 3, 30, 0, 0, 0>>, Hour, <<2021, 3, 30, 0, 0, 1>>),
     Log(<<2021, 4, 30, 22, 59, 59>>, Hour, <<2021, 4, 30, 23, 0, 1>>),
     Log(<<2021, 4, 30, 23, 10, 0>>, Hour, <<2021, 4, 30, 23, 10, 0>>),
     Log(<<2021, 8, 19, 22, 30, 0>>, Hour, <<2021, 8, 19, 22, 31, 0>>)}

\* Clocks east of it.
East ==
    {Log(<<2021, 3, 1, 0, 30, 0>>, 2 * Hour, <<2021, 2, 28, 23, 30, 0>>),
     Log(<<2021, 4, 30, 23, 20, 0>>, 2 * Hour, <<2021, 4, 30, 22, 20, 0>>),
     Log(<<2021, 8, 20, 4, 4, 0>>, 2 * Hour, <<2021, 8, 20, 3, 4, 4>>),
     Log(<<2021, 8, 21, 4, 59, 0>>, 2 * Hour, <<2021, 8, 21, 3, 59, 0>>),
     Log(<<2021, 8, 21, 6, 0, 0>>, 2 * Hour, <<2021, 8, 21, 5, 0, 0>>)}

\* Clocks west of UTC.
West ==
    {Log(<<2021, 1, 31, 20, 0, 0>>, -5 * Hour, <<2021, 2, 1, 2, 0, 0>>),
     Log(<<2021, 2, 28, 23, 0, 0>>, -5 * Hour, <<2021, 3, 1, 5, 0, 0>>),
     Log(<<2021, 3, 2, 0, 0, 0>>, -5 * Hour, <<2021, 3, 2, 6, 0, 1>>),
     Log(<<2021, 8, 21, 0, 30, 0>>, -5 * Hour, <<2021, 8, 21, 6, 30, 0>>),
     Log(<<2021, 9, 1, 0, 0, 0>>, -5 * Hour, <<2021, 9, 1, 6, 0, 0>>)}

Logs == InUTC \cup InItsZone \cup East \cup West
=============================================================================
